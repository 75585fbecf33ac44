----------------------------- MODULE GthrMetrics -----------------------------
(***************************************************************************)
(* The time accounting of src/gthreads/gthr.c on top of Gthr: how long a   *)
(* thread ran and how long it waited while Ready, from the gettimeofday    *)
(* stamps the library takes.  No thread reads another one's metrics, so    *)
(* one thread is watched; and as both totals are sums of differences of    *)
(* stamps, it is enough to ask of one moment, whenever it comes, to which  *)
(* of them it is charged.  clock is 0 before that moment and 1 after it.   *)
(* spent and period are history variables the program does not have: what  *)
(* the watched thread was doing at the moment, and what became of the      *)
(* period of running it fell in.                                           *)
(***************************************************************************)
EXTENDS Gthr

CONSTANT Watched      \* the slots of gt_table whose metrics are followed

ASSUME WatchedAssumption == Watched \subseteq Threads

VARIABLES
    watched,
    clock,        \* gettimeofday
    metrics,      \* gt_table[watched].metrics
    spent,        \* what the watched thread spent the moment on: a state,
                  \* "nothing" before it came, "switching"
    period        \* "open", "closed", or "blocked" when the thread that
                  \* ran at the moment stopped running in a wait

accounting == <<watched, clock, metrics, spent>>

init_thread_metrics ==
    [exec_start_time |-> clock, ready_start_time |-> clock,
     exec_total_time |-> 0, wait_total_time |-> 0]

MInit ==
    /\ Init
    /\ watched \in Watched
    /\ clock = 0
    /\ metrics = init_thread_metrics
    /\ spent = "nothing"
    /\ period = "open"

-----------------------------------------------------------------------------
(* update_running_thread_metrics and update_ready_thread_metrics, with the *)
(* states gt_schedule was called in; both look at the state first.         *)
update_running(m, st) ==
    IF watched = gt_current /\ st[watched] = "Running"
    THEN [m EXCEPT !.exec_total_time = @ + clock - m.exec_start_time]
    ELSE m

update_ready(m, st, p) ==
    IF watched = p /\ st[watched] = "Ready"
    THEN [m EXCEPT !.wait_total_time = @ + clock - m.ready_start_time]
    ELSE m

(* The stamps of the thread that is parked and of the one that is started, *)
(* taken at time later.                                                    *)
ParkStamp(m, st, later) ==
    IF watched = gt_current /\ st[watched] \notin {"Unused", "Blocked"}
    THEN [m EXCEPT !.ready_start_time = later] ELSE m

(* Mutant: the start of the period is not stamped.                         *)
StartKeepsStamp(m, p, later) == m

StartStamp(m, p, later) ==
    IF watched = p THEN [m EXCEPT !.exec_start_time = later] ELSE m

(* gt_schedule called in states st, with m for the metrics: switch_time is *)
(* read first and the stamps of a switch are read later, so the moment may *)
(* come between them.                                                      *)
ScheduleMetrics(m, st) ==
    IF gt_current' = gt_current
    THEN /\ metrics' = update_running(m, st)
         /\ UNCHANGED <<clock, watched>>
    ELSE \E later \in clock .. 1 :
         /\ clock' = later
         /\ metrics' = StartStamp(
                         ParkStamp(
                           update_ready(update_running(m, st), st, gt_current'),
                           st, later),
                         gt_current', later)
         /\ UNCHANGED watched

(* The moment inside a switch belongs to neither of the two threads.       *)
SpentInSwitch(st) ==
    spent' = IF clock' = clock THEN spent
             ELSE IF watched \in {gt_current, gt_current'} THEN "switching"
             ELSE st[watched]

(* A thread in a reused slot has nothing to do with the moment before.     *)
CreateMetrics ==
    /\ IF state'[watched] # state[watched]
       THEN /\ metrics' = init_thread_metrics
            /\ spent' = IF clock = 1 THEN "Unused" ELSE spent
       ELSE UNCHANGED <<metrics, spent>>
    /\ UNCHANGED <<watched, clock>>

(* Mutant: the thread a post wakes keeps the stamp of an earlier wait.     *)
PostKeepsStamp == UNCHANGED accounting

PostMetrics ==
    /\ metrics' = IF state'[watched] # state[watched]
                  THEN [metrics EXCEPT !.ready_start_time = clock] ELSE metrics
    /\ UNCHANGED <<watched, clock, spent>>

(* gt_sem_wait has stored Blocked when gt_schedule looks at the state.     *)
BlockMetrics ==
    LET st == [state EXCEPT ![gt_current] = "Blocked"]
    IN  ScheduleMetrics(metrics, st) /\ SpentInSwitch(st)

(* gt_return charges the last period itself.                               *)
ReturnMetrics ==
    LET st == [state EXCEPT ![gt_current] = "Unused"]
    IN  ScheduleMetrics(update_running(metrics, state), st) /\ SpentInSwitch(st)

YieldMetrics == ScheduleMetrics(metrics, state) /\ SpentInSwitch(state)

(* The moment comes while the running thread is outside the library, or    *)
(* inside it before it looks at the clock.                                 *)
Moment ==
    /\ Active
    /\ clock = 0
    /\ clock' = 1
    /\ spent' = state[watched]
    /\ UNCHANGED <<vars, watched, metrics>>

(* The period the moment fell in ends when the watched thread loses the    *)
(* processor, Blocked or otherwise.                                        *)
PeriodEnds ==
    period' = IF /\ period = "open" /\ spent = "Running"
                 /\ watched = gt_current /\ gt_current' # gt_current
              THEN IF state'[watched] = "Blocked" THEN "blocked" ELSE "closed"
              ELSE period

Metered ==
    \/ gt_create /\ CreateMetrics
    \/ gt_alarm_handle /\ YieldMetrics
    \/ \E s \in Sems :
          \/ SemTake(s) /\ UNCHANGED accounting
          \/ SemBlock(s) /\ BlockMetrics
          \/ gt_sem_post(s) /\ PostMetrics
    \/ WorkerReturn /\ ReturnMetrics
    \/ FreeTraps /\ UNCHANGED accounting
    \/ MainReturn /\ YieldMetrics
    \/ Stopped /\ UNCHANGED accounting
    \/ Moment

MNext == Metered /\ PeriodEnds

MSpec == MInit /\ [][MNext]_<<vars, accounting, period>>

-----------------------------------------------------------------------------
(* The two totals gt_print_stats prints for the watched thread whenever    *)
(* SIGINT asks for them, the current period included.                      *)
total_exec ==
    metrics.exec_total_time +
      IF state[watched] = "Running" THEN clock - metrics.exec_start_time ELSE 0

total_wait ==
    metrics.wait_total_time +
      IF state[watched] = "Ready" THEN clock - metrics.ready_start_time ELSE 0

Charged(to) == IF spent = to THEN 1 ELSE 0

(* gthr.h:55 "Total wait time": a moment is in it exactly when the thread  *)
(* was Ready then - created, preempted or woken, not Blocked, and not left *)
(* over from an earlier wait.                                              *)
WaitIsExact == total_wait = Charged("Ready")

(* gthr.h:54 "Total execution time": a moment a created thread runs is in  *)
(* it at most once, nothing else is in it, and the moment is missing only  *)
(* when the period it fell in ended in a wait that blocks.                 *)
RunningTimeIsCharged ==
    watched # Main =>
        /\ total_exec <= Charged("Running")
        /\ period # "blocked" => total_exec = Charged("Running")

(* gthr.h:54 "Total execution time": every moment the thread runs is in    *)
(* it once, and nothing else is.                                           *)
ExecTimeIsTotal == Active => total_exec = Charged("Running")

=============================================================================
