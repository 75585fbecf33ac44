-------------------------- MODULE GthrMetrics_proofs --------------------------
(* Theorems about GthrMetrics, for every number of threads, whichever of   *)
(* them is watched.                                                        *)
EXTENDS GthrMetrics, Gthr_proofs

(* Measuring changes nothing: every step of the metered library is a step  *)
(* of the library or leaves it alone (gthr.c:422-491), so what is proved   *)
(* about Gthr holds here.                                                  *)
THEOREM MeteringIsPassive == MSpec => Spec
  <1>1. MInit => Init
    BY DEF MInit
  <1>2. [MNext]_<<vars, accounting, period>> => [Next]_vars
    BY DEF MNext, Metered, Next, gt_sem_wait, gt_return, Moment, vars, accounting
  <1> QED
    BY <1>1, <1>2, PTL DEF MSpec, Spec

-----------------------------------------------------------------------------
Records ==
    [exec_start_time : Nat, ready_start_time : Nat,
     exec_total_time : Nat, wait_total_time : Nat]

Spendings ==
    {"nothing", "switching", "Unused", "Running", "Ready", "Blocked"}

States == {"Unused", "Running", "Ready", "Blocked"}

(* m holds the totals and stamps of a thread in states st that spent the   *)
(* moment on s.                                                            *)
Stamped(m) ==
    /\ m \in Records
    /\ m.exec_start_time <= clock /\ m.ready_start_time <= clock

WaitMeasured(m, st, s) ==
    m.wait_total_time
      + (IF st[watched] = "Ready" THEN clock - m.ready_start_time ELSE 0)
        = IF s = "Ready" THEN 1 ELSE 0

RunMeasured(m, st, s, p) ==
    watched # Main =>
      m.exec_total_time
        + (IF st[watched] = "Running" THEN clock - m.exec_start_time ELSE 0)
          = IF s = "Running" /\ p # "blocked" THEN 1 ELSE 0

(* The period the moment fell in is open as long as it is the current one, *)
(* and then it began before the moment.                                    *)
OpenIsCurrent(m, st, s, p) ==
    watched # Main /\ s = "Running" =>
      (p = "open" <=> st[watched] = "Running" /\ m.exec_start_time < clock)

Periods == {"open", "closed", "blocked"}

(* The inductive invariant: the stamps lie in the past, nothing is charged *)
(* before the moment has come, and both totals are exact.                  *)
MetricsInv ==
    /\ watched \in Threads
    /\ clock \in {0, 1}
    /\ spent \in Spendings
    /\ period \in Periods
    /\ clock = 0 => spent = "nothing"
    /\ spent = "nothing" => period = "open"
    /\ Stamped(metrics)
    /\ WaitMeasured(metrics, state, spent)
    /\ RunMeasured(metrics, state, spent, period)
    /\ OpenIsCurrent(metrics, state, spent, period)

(* What gt_schedule does to the states, in terms of the thread it picks.   *)
LEMMA ScheduleShape ==
    ASSUME TypeOK, NEW st \in [Threads -> States], st[gt_current] # "Ready",
           gt_schedule(st)
    PROVE  \/ state' = st /\ gt_current' = gt_current
           \/ /\ gt_current' \in Threads /\ gt_current' # gt_current
              /\ st[gt_current'] = "Ready"
              /\ \A t \in Threads : state'[t] =
                   IF t = gt_current' THEN "Running"
                   ELSE IF t = gt_current /\ st[t] \notin {"Unused", "Blocked"}
                   THEN "Ready" ELSE st[t]
  <1> DEFINE picks == Picks(st, StarvationUpdate(st),
                            PriorityUpdate(st, StarvationUpdate(st)))
  <1>1. CASE picks = {}
    BY <1>1 DEF gt_schedule
  <1>2. CASE picks # {}
    <2>1. PICK p \in picks : SwitchTo(p, st)
      BY <1>2 DEF gt_schedule
    <2>2. p \in Threads /\ st[p] = "Ready"
      BY PicksAreReady DEF ReadyIn
    <2> QED
      BY <2>1, <2>2 DEF SwitchTo, TypeOK, States
  <1> QED
    BY <1>1, <1>2

(* gt_schedule keeps the account of a thread that was in order when it was *)
(* called; a created thread that is Running finds someone to switch to.    *)
LEMMA ScheduleKeepsAccount ==
    ASSUME TypeOK, watched \in Threads, clock \in {0, 1},
           NEW st \in [Threads -> States], st[gt_current] # "Ready",
           \A t \in Threads : st[t] = "Running" => t = gt_current,
           \A t \in Threads : state[t] = "Running" <=> t = gt_current,
           watched = gt_current /\ watched # Main => gt_current' # gt_current,
           NEW m, Stamped(m), spent \in Spendings, period \in Periods,
           clock = 0 => spent = "nothing", spent = "nothing" => period = "open",
           WaitMeasured(m, st, spent), RunMeasured(m, st, spent, period'),
           OpenIsCurrent(m, state, spent, period),
           gt_schedule(st), ScheduleMetrics(m, st), SpentInSwitch(st), PeriodEnds
    PROVE  MetricsInv'
  <1>0. period' \in Periods /\ (spent' = "nothing" => period' = "open")
    BY DEF PeriodEnds, Periods, SpentInSwitch, Spendings, ScheduleMetrics, States
  (* The period the moment fell in is over when gt_schedule returns.        *)
  <1>p. watched # Main /\ spent = "Running" => period' # "open"
    BY DEF PeriodEnds, OpenIsCurrent
  <1>1. CASE gt_current' = gt_current
    <2>1. /\ state' = st
          /\ watched' = watched /\ clock' = clock
          /\ spent' = spent
          /\ metrics' = update_running(m, st)
      BY <1>1, ScheduleShape DEF ScheduleMetrics, SpentInSwitch
    <2>2. /\ metrics' \in Records
          /\ metrics'.exec_start_time = m.exec_start_time
          /\ metrics'.ready_start_time = m.ready_start_time
          /\ metrics'.wait_total_time = m.wait_total_time
          /\ ~ (watched = gt_current /\ st[watched] = "Running")
                => metrics'.exec_total_time = m.exec_total_time
      BY <2>1 DEF update_running, Stamped, Records
    <2> QED
      BY <1>0, <1>p, <1>1, <2>1, <2>2
      DEF MetricsInv, Stamped, WaitMeasured, RunMeasured, OpenIsCurrent, Main
  <1>2. CASE gt_current' # gt_current
    <2>1. /\ gt_current' \in Threads
          /\ st[gt_current'] = "Ready"
          /\ state'[watched] =
               IF watched = gt_current' THEN "Running"
               ELSE IF watched = gt_current /\ st[watched] \notin {"Unused", "Blocked"}
               THEN "Ready" ELSE st[watched]
      BY <1>2, ScheduleShape
    <2>2. PICK later \in clock .. 1 :
            /\ clock' = later
            /\ metrics' = StartStamp(
                            ParkStamp(
                              update_ready(update_running(m, st), st, gt_current'),
                              st, later),
                            gt_current', later)
            /\ watched' = watched
      BY <1>2 DEF ScheduleMetrics
    <2>3. /\ later \in {0, 1} /\ clock <= later
          /\ spent' = IF later = clock THEN spent
                      ELSE IF watched \in {gt_current, gt_current'} THEN "switching"
                      ELSE st[watched]
          /\ spent' \in Spendings
      BY <2>2 DEF SpentInSwitch, Spendings, States
    <2>4. /\ m \in Records
          /\ m.exec_start_time \in Nat /\ m.ready_start_time \in Nat
          /\ m.exec_total_time \in Nat /\ m.wait_total_time \in Nat
          /\ m.exec_start_time <= clock /\ m.ready_start_time <= clock
      BY DEF Stamped, Records
    <2>5. CASE watched = gt_current
      <3> DEFINE charged == m.exec_total_time +
                   IF st[watched] = "Running" THEN clock - m.exec_start_time ELSE 0
                 stamp == IF st[watched] \notin {"Unused", "Blocked"}
                          THEN later ELSE m.ready_start_time
      <3>1. charged \in Nat /\ stamp \in Nat /\ stamp <= later
        BY <2>3, <2>4
      <3>2. update_running(m, st) = [m EXCEPT !.exec_total_time = charged]
        BY <2>4, <2>5 DEF update_running, Records
      <3>3. metrics' = [m EXCEPT !.exec_total_time = charged,
                                 !.ready_start_time = stamp]
        BY <1>2, <2>2, <2>4, <2>5, <3>2
        DEF StartStamp, ParkStamp, update_ready, Records
      <3>4. /\ metrics' \in Records
            /\ metrics'.exec_start_time = m.exec_start_time
            /\ metrics'.ready_start_time = stamp
            /\ metrics'.wait_total_time = m.wait_total_time
            /\ metrics'.exec_total_time = charged
        BY <2>4, <3>1, <3>3 DEF Records
      <3>5. Stamped(metrics)'
        BY <2>2, <2>3, <2>4, <3>1, <3>4 DEF Stamped
      <3>6. st[watched] # "Ready" /\ state'[watched] # "Running"
        BY <1>2, <2>1, <2>5 DEF States
      <3>7. WaitMeasured(metrics, state, spent)'
        BY <1>2, <2>1, <2>2, <2>3, <2>4, <2>5, <3>4, <3>6 DEF WaitMeasured
      <3>8. RunMeasured(metrics, state, spent, period)'
        BY <1>2, <2>1, <2>2, <2>3, <2>4, <2>5, <3>4, <3>6 DEF RunMeasured, Main
      <3>9. OpenIsCurrent(metrics, state, spent, period)'
        BY <1>p, <2>2, <2>3, <3>6 DEF OpenIsCurrent, Main
      <3> QED
        BY <1>0, <2>2, <2>3, <3>5, <3>7, <3>8, <3>9 DEF MetricsInv
    <2>6. CASE watched = gt_current'
      <3> DEFINE waited == m.wait_total_time + clock - m.ready_start_time
      <3>1. waited \in Nat /\ later \in Nat
        BY <2>3, <2>4
      <3>2. metrics' = [m EXCEPT !.wait_total_time = waited,
                                 !.exec_start_time = later]
        BY <1>2, <2>1, <2>2, <2>4, <2>6
        DEF StartStamp, ParkStamp, update_ready, update_running, Records
      <3>3. /\ metrics' \in Records
            /\ metrics'.exec_start_time = later
            /\ metrics'.ready_start_time = m.ready_start_time
            /\ metrics'.wait_total_time = waited
            /\ metrics'.exec_total_time = m.exec_total_time
        BY <2>4, <3>1, <3>2 DEF Records
      <3>4. Stamped(metrics)'
        BY <2>2, <2>3, <2>4, <3>3 DEF Stamped
      <3>5. WaitMeasured(metrics, state, spent)'
        BY <1>2, <2>1, <2>2, <2>3, <2>4, <2>6, <3>3 DEF WaitMeasured
      <3>6. RunMeasured(metrics, state, spent, period)'
        BY <1>2, <2>1, <2>2, <2>3, <2>4, <2>6, <3>3 DEF RunMeasured, Main
      <3>7. OpenIsCurrent(metrics, state, spent, period)'
        BY <1>p, <2>1, <2>2, <2>3, <2>4, <2>6, <3>3 DEF OpenIsCurrent, Main
      <3> QED
        BY <1>0, <2>2, <2>3, <3>4, <3>5, <3>6, <3>7 DEF MetricsInv
    <2>7. CASE watched # gt_current /\ watched # gt_current'
      <3>1. metrics' = m
        BY <2>2, <2>7 DEF StartStamp, ParkStamp, update_ready, update_running
      <3>2. state'[watched] = st[watched] /\ st[watched] # "Running"
        BY <2>1, <2>7
      <3>3. Stamped(metrics)'
        BY <2>2, <2>3, <2>4, <3>1 DEF Stamped
      <3>4. WaitMeasured(metrics, state, spent)'
        BY <2>2, <2>3, <2>4, <2>7, <3>1, <3>2 DEF WaitMeasured
      <3>5. RunMeasured(metrics, state, spent, period)'
        BY <2>2, <2>3, <2>4, <2>7, <3>1, <3>2 DEF RunMeasured, Main
      <3>6. OpenIsCurrent(metrics, state, spent, period)'
        BY <1>p, <2>2, <2>3, <3>2 DEF OpenIsCurrent, Main
      <3> QED
        BY <1>0, <2>2, <2>3, <3>3, <3>4, <3>5, <3>6 DEF MetricsInv
    <2> QED
      BY <2>5, <2>6, <2>7
  <1> QED
    BY <1>1, <1>2

(* Only a Blocked thread changes its state in gt_sem_post, and wakes up.   *)
LEMMA PostWakesBlocked ==
    ASSUME SafeInv, NEW s \in Sems, gt_sem_post(s), NEW t \in Threads,
           state'[t] # state[t]
    PROVE  state[t] = "Blocked" /\ state'[t] = "Ready"
  <1> DEFINE woken == sem[s].wait_queue[sem[s].head]
  <1>1. /\ sem[s].wait_count > 0
        /\ state' = [state EXCEPT ![woken] = "Ready"]
    BY DEF gt_sem_post
  <1>2. t = woken /\ state'[t] = "Ready"
    BY <1>1 DEF SafeInv, TypeOK
  <1>3. sem[s].head \in WaitingSlots(sem[s])
    <2>1. sem[s] \in SemRecords
      BY DEF SafeInv, TypeOK
    <2>2. sem[s].head \in Slots /\ sem[s].head \in Nat
      BY <2>1, SizesAssumption DEF SemRecords, Slots, MAX_BLOCKED_THREADS
    <2>3. Distance(sem[s], sem[s].head) = 0
      BY <2>2 DEF Distance
    <2> QED
      BY <1>1, <2>2, <2>3 DEF WaitingSlots
  <1>4. t \in Waiters(sem[s])
    BY <1>2, <1>3 DEF Waiters
  <1> QED
    BY <1>2, <1>4 DEF SafeInv, BlockedIsQueued

-----------------------------------------------------------------------------
(* Every step of the metered library keeps the account.                    *)
LEMMA MetricsStep ==
    ASSUME SafeInv, MetricsInv, [MNext]_<<vars, accounting, period>>
    PROVE  MetricsInv'
  <1>0. /\ TypeOK /\ RunningIsCurrent
        /\ state \in [Threads -> States] /\ gt_current \in Threads
        /\ watched \in Threads /\ clock \in {0, 1} /\ spent \in Spendings
        /\ period \in Periods
        /\ clock = 0 => spent = "nothing"
        /\ spent = "nothing" => period = "open"
        /\ Stamped(metrics)
        /\ WaitMeasured(metrics, state, spent)
        /\ RunMeasured(metrics, state, spent, period)
        /\ OpenIsCurrent(metrics, state, spent, period)
    BY DEF SafeInv, MetricsInv, TypeOK, States
  <1>1. /\ metrics \in Records
        /\ metrics.exec_start_time \in Nat /\ metrics.ready_start_time \in Nat
        /\ metrics.exec_total_time \in Nat /\ metrics.wait_total_time \in Nat
        /\ metrics.exec_start_time <= clock /\ metrics.ready_start_time <= clock
    BY <1>0 DEF Stamped, Records
  <1>2. \A t \in Threads : state[t] = "Running" <=> t = gt_current
    BY <1>0 DEF RunningIsCurrent
  (* With main Ready whenever a created thread runs, gt_schedule finds one. *)
  <1>3. ASSUME NEW st \in [Threads -> States], gt_schedule(st),
               watched # Main, ReadyIn(st) = ReadyIn(state), Active
        PROVE  watched = gt_current => gt_current' # gt_current
    <2> SUFFICES ASSUME watched = gt_current
                 PROVE  gt_current' # gt_current
      OBVIOUS
    <2>1. WorkerRuns
      BY <1>3 DEF WorkerRuns
    <2>2. Main \in Threads /\ state[Main] = "Ready"
      BY <2>1, MainIsReady
    <2>3. PICK p \in Picks(st, StarvationUpdate(st),
                           PriorityUpdate(st, StarvationUpdate(st))) :
            SwitchTo(p, st)
      <3>1. ReadyIn(st) # {}
        BY <1>3, <2>2 DEF ReadyIn
      <3>2. \A t \in ReadyIn(st) : tickets[t] > 0
        BY <1>3 DEF SafeInv, TicketsHeld, ReadyIn
      <3>3. ScheduleFinds(st)
        BY <1>0, <3>1, <3>2, SchedulerFinds
      <3> QED
        BY <1>3, <3>3 DEF ScheduleFinds, gt_schedule
    <2> QED
      BY <1>0, <1>2, <1>3, <2>3, PicksAreReady DEF ReadyIn, SwitchTo
  <1>4. ASSUME gt_schedule(state), YieldMetrics, Active, PeriodEnds
        PROVE  MetricsInv'
    <2>1. state[gt_current] = "Running"
      BY <1>0, <1>2
    <2>2. watched = gt_current /\ watched # Main => gt_current' # gt_current
      BY <1>0, <1>3, <1>4
    (* The period ends "closed": a parked thread is Ready.                   *)
    <2>3. RunMeasured(metrics, state, spent, period')
      <3>1. CASE watched = gt_current /\ gt_current' # gt_current
        <4>1. state'[watched] = "Ready"
          BY <1>0, <1>4, <2>1, <3>1, ScheduleShape
        <4> QED
          BY <1>0, <1>4, <4>1 DEF RunMeasured, PeriodEnds
      <3>2. CASE ~(watched = gt_current /\ gt_current' # gt_current)
        BY <1>0, <1>4, <3>2 DEF PeriodEnds
      <3> QED
        BY <3>1, <3>2
    <2> QED
      BY <1>0, <1>2, <1>4, <2>1, <2>2, <2>3, ScheduleKeepsAccount DEF YieldMetrics
  <1>5. CASE gt_create /\ CreateMetrics /\ PeriodEnds
    <2>1. PICK t \in FreeSlots : state' = [state EXCEPT ![t] = "Ready"]
      BY <1>5 DEF gt_create
    <2>2. t \in Threads /\ state[t] = "Unused" /\ state'[t] = "Ready"
      BY <1>0, <2>1 DEF FreeSlots
    <2>3. watched' = watched /\ clock' = clock /\ period' = period
      BY <1>5 DEF CreateMetrics, PeriodEnds, gt_create
    <2>4. CASE watched = t
      <3>1. /\ metrics' = init_thread_metrics
            /\ spent' = IF clock = 1 THEN "Unused" ELSE spent
        BY <1>5, <2>2, <2>4 DEF CreateMetrics
      <3>2. Stamped(metrics)'
        BY <1>0, <2>3, <3>1 DEF init_thread_metrics, Stamped, Records
      <3> QED
        BY <1>0, <2>2, <2>3, <2>4, <3>1, <3>2
        DEF MetricsInv, WaitMeasured, RunMeasured, OpenIsCurrent, init_thread_metrics,
            Spendings, Main
    <2>5. CASE watched # t
      <3>1. state'[watched] = state[watched]
        BY <1>0, <2>1, <2>5
      <3>2. metrics' = metrics /\ spent' = spent
        BY <1>5, <3>1 DEF CreateMetrics
      <3> QED
        BY <1>0, <2>3, <3>1, <3>2
        DEF MetricsInv, Stamped, WaitMeasured, RunMeasured, OpenIsCurrent, Main
    <2> QED
      BY <2>4, <2>5
  <1>6. CASE gt_alarm_handle /\ YieldMetrics /\ PeriodEnds
    BY <1>4, <1>6 DEF gt_alarm_handle, Active
  <1>7. CASE (\E s \in Sems : SemTake(s)) /\ UNCHANGED accounting /\ PeriodEnds
    BY <1>0, <1>7
    DEF SemTake, accounting, PeriodEnds, MetricsInv, Stamped, WaitMeasured, RunMeasured,
        OpenIsCurrent, Main
  <1>8. CASE (\E s \in Sems : SemBlock(s)) /\ BlockMetrics /\ PeriodEnds
    <2> DEFINE st == [state EXCEPT ![gt_current] = "Blocked"]
    <2>1. /\ gt_schedule(st) /\ Active
          /\ ScheduleMetrics(metrics, st)
          /\ SpentInSwitch(st)
      BY <1>8 DEF SemBlock, BlockMetrics, WorkerRuns
    <2>2. /\ st \in [Threads -> States]
          /\ st[gt_current] = "Blocked"
          /\ \A t \in Threads : t # gt_current => st[t] = state[t]
          /\ \A t \in Threads : st[t] # "Running"
          /\ ReadyIn(st) = ReadyIn(state)
      BY <1>0, <1>2 DEF States, ReadyIn
    <2> HIDE DEF st
    <2>3. watched = gt_current /\ watched # Main => gt_current' # gt_current
      BY <1>3, <2>1, <2>2
    <2>4. WaitMeasured(metrics, st, spent)
      BY <1>0, <1>1, <1>2, <2>2 DEF WaitMeasured
    (* The stamp of the period is later than the moment, or the period that  *)
    (* ends here held it.                                                    *)
    <2>5. RunMeasured(metrics, st, spent, period')
      <3>1. CASE watched = gt_current /\ watched # Main
        <4>1. state'[watched] = "Blocked" /\ gt_current' # gt_current
          BY <1>0, <2>1, <2>2, <2>3, <3>1, ScheduleShape
        <4>2. /\ metrics.exec_total_time + clock - metrics.exec_start_time
                   = IF spent = "Running" /\ period # "blocked" THEN 1 ELSE 0
              /\ spent = "Running" => (period = "open" <=> metrics.exec_start_time < clock)
          BY <1>0, <1>1, <1>2, <3>1 DEF RunMeasured, OpenIsCurrent
        <4>3. period' = IF period = "open" /\ spent = "Running" THEN "blocked" ELSE period
          BY <1>8, <3>1, <4>1 DEF PeriodEnds
        <4> QED
          BY <1>0, <1>1, <2>2, <3>1, <4>2, <4>3 DEF RunMeasured, Periods
      <3>2. CASE watched # gt_current
        <4>1. period' = period /\ st[watched] = state[watched]
          BY <1>0, <1>8, <2>2, <3>2 DEF PeriodEnds
        <4> QED
          BY <1>0, <4>1 DEF RunMeasured
      <3> QED
        BY <3>1, <3>2 DEF RunMeasured
    <2> QED
      BY <1>0, <1>2, <1>8, <2>1, <2>2, <2>3, <2>4, <2>5, ScheduleKeepsAccount
  <1>9. ASSUME NEW s \in Sems, gt_sem_post(s), PostMetrics, PeriodEnds
        PROVE  MetricsInv'
    <2>1. /\ PostMetrics
          /\ watched' = watched /\ clock' = clock /\ spent' = spent
          /\ period' = period
      <3>1. gt_current' = gt_current
        BY <1>9 DEF gt_sem_post
      <3>2. period' = period
        BY <1>9, <3>1 DEF PeriodEnds
      <3>3. watched' = watched /\ clock' = clock /\ spent' = spent
        BY <1>9 DEF PostMetrics
      <3> QED
        BY <1>9, <3>2, <3>3
    <2>2. CASE state'[watched] = state[watched]
      BY <1>0, <2>1, <2>2
      DEF PostMetrics, MetricsInv, Stamped, WaitMeasured, RunMeasured, OpenIsCurrent,
          Main
    <2>3. CASE state'[watched] # state[watched]
      <3>1. state[watched] = "Blocked" /\ state'[watched] = "Ready"
        BY <1>0, <1>9, <2>3, PostWakesBlocked
      <3>2. metrics' = [metrics EXCEPT !.ready_start_time = clock]
        BY <2>1, <2>3 DEF PostMetrics
      <3>3. /\ metrics' \in Records
            /\ metrics'.ready_start_time = clock
            /\ metrics'.exec_start_time = metrics.exec_start_time
            /\ metrics'.exec_total_time = metrics.exec_total_time
            /\ metrics'.wait_total_time = metrics.wait_total_time
        BY <1>0, <1>1, <3>2 DEF Records
      <3> QED
        BY <1>0, <1>1, <2>1, <3>1, <3>3
        DEF MetricsInv, Stamped, WaitMeasured, RunMeasured, OpenIsCurrent, Main
    <2> QED
      BY <2>2, <2>3
  <1>10. CASE WorkerReturn /\ ReturnMetrics /\ PeriodEnds
    <2> DEFINE st == [state EXCEPT ![gt_current] = "Unused"]
               m == update_running(metrics, state)
    <2>1. /\ gt_schedule(st) /\ Active
          /\ ScheduleMetrics(m, st) /\ SpentInSwitch(st)
      BY <1>10 DEF WorkerReturn, ReturnMetrics, WorkerRuns
    <2>2. /\ st \in [Threads -> States]
          /\ st[gt_current] = "Unused"
          /\ \A t \in Threads : t # gt_current => st[t] = state[t]
          /\ \A t \in Threads : st[t] # "Running"
          /\ ReadyIn(st) = ReadyIn(state)
      BY <1>0, <1>2 DEF States, ReadyIn
    <2>3. /\ m \in Records
          /\ m.exec_start_time = metrics.exec_start_time
          /\ m.ready_start_time = metrics.ready_start_time
          /\ m.wait_total_time = metrics.wait_total_time
          /\ m.exec_total_time = metrics.exec_total_time +
               IF state[watched] = "Running" THEN clock - metrics.exec_start_time
                                             ELSE 0
      BY <1>0, <1>1, <1>2 DEF update_running, Records
    <2> HIDE DEF st, m
    <2>4. Stamped(m) /\ OpenIsCurrent(m, state, spent, period)
      BY <1>0, <1>1, <2>3 DEF Stamped, OpenIsCurrent
    <2>5. WaitMeasured(m, st, spent)
      BY <1>0, <1>1, <1>2, <2>2, <2>3 DEF WaitMeasured
    <2>6. watched = gt_current /\ watched # Main => gt_current' # gt_current
      BY <1>3, <2>1, <2>2
    <2>7. RunMeasured(m, st, spent, period')
      <3>1. period' # "blocked" <=> period # "blocked"
        <4>1. CASE watched = gt_current /\ gt_current' # gt_current
          <5>1. state'[watched] = "Unused"
            BY <1>0, <2>1, <2>2, <4>1, ScheduleShape
          <5> QED
            BY <1>10, <5>1 DEF PeriodEnds
        <4>2. CASE ~(watched = gt_current /\ gt_current' # gt_current)
          BY <1>10, <4>2 DEF PeriodEnds
        <4> QED
          BY <4>1, <4>2
      <3> QED
        BY <1>0, <1>1, <1>2, <2>2, <2>3, <3>1 DEF RunMeasured
    <2> QED
      BY <1>0, <1>2, <1>10, <2>1, <2>2, <2>4, <2>5, <2>6, <2>7, ScheduleKeepsAccount
  <1>11. CASE MainReturn /\ YieldMetrics /\ PeriodEnds
    BY <1>4, <1>11 DEF MainReturn
  <1>12. CASE Moment /\ PeriodEnds
    BY <1>0, <1>1, <1>2, <1>12
    DEF Moment, vars, PeriodEnds, MetricsInv, Stamped, WaitMeasured, RunMeasured,
        OpenIsCurrent, Main, States, Spendings
  <1>13. CASE UNCHANGED <<state, accounting, period>>
    BY <1>0, <1>13
    DEF accounting, MetricsInv, Stamped, WaitMeasured, RunMeasured, OpenIsCurrent, Main
  <1>14. CASE UNCHANGED <<state, gt_current, accounting>> /\ PeriodEnds
    BY <1>13, <1>14 DEF PeriodEnds
  <1> QED
    BY <1>5, <1>6, <1>7, <1>8, <1>9, <1>10, <1>11, <1>12, <1>13, <1>14
    DEF MNext, Metered, FreeTraps, Stopped, vars

THEOREM MetricsAreKept == MSpec => []MetricsInv
  <1>1. MInit => MetricsInv
    <2> SUFFICES ASSUME MInit
                 PROVE  MetricsInv
      OBVIOUS
    <2>1. /\ watched \in Threads /\ clock = 0 /\ spent = "nothing"
          /\ period = "open"
          /\ metrics = init_thread_metrics
      BY WatchedAssumption DEF MInit
    <2>2. Stamped(metrics)
      BY <2>1 DEF init_thread_metrics, Stamped, Records
    <2> QED
      BY <2>1, <2>2
      DEF MetricsInv, WaitMeasured, RunMeasured, OpenIsCurrent, init_thread_metrics,
          Spendings, Periods
  <1>2. SafeInv /\ MetricsInv /\ [MNext]_<<vars, accounting, period>> => MetricsInv'
    BY MetricsStep
  <1>3. MSpec => []SafeInv
    BY MeteringIsPassive, Safety, PTL
  <1> QED
    BY <1>1, <1>2, <1>3, PTL DEF MSpec

(* gthr.h:55 "Total wait time": gt_print_stats (gthr.c:316-330) charges to *)
(* it exactly the moments the thread was Ready.                            *)
THEOREM WaitTimeIsExact == MSpec => []WaitIsExact
  <1>1. MetricsInv => WaitIsExact
    BY DEF MetricsInv, WaitMeasured, WaitIsExact, total_wait, Charged
  <1> QED
    BY <1>1, MetricsAreKept, PTL

(* gthr.h:54 "Total execution time": every moment a created thread runs is *)
(* charged to it at most once, nothing else is, and the only moments that  *)
(* may be missing are those of periods that ended in a wait that blocks.   *)
THEOREM ExecTimeIsExact == MSpec => []RunningTimeIsCharged
  <1>1. MetricsInv => RunningTimeIsCharged
    BY DEF MetricsInv, RunMeasured, RunningTimeIsCharged, total_exec, Charged
  <1> QED
    BY <1>1, MetricsAreKept, PTL

=============================================================================
