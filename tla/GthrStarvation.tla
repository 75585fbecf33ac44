--------------------------- MODULE GthrStarvation ---------------------------
(***************************************************************************)
(* How long a Ready thread of Gthr waits for the processor.  gt_schedule   *)
(* resets the counter of a Running thread only (gthr.c:215), so a thread   *)
(* that was picked for being starved and then blocks takes its counter to  *)
(* sleep, comes back with it and goes on counting from there.  kept is the *)
(* largest counter any thread ever took to sleep, a history variable the   *)
(* program does not have.                                                  *)
(***************************************************************************)
EXTENDS Gthr

VARIABLE kept

LargerOf(m, n) == IF m >= n THEN m ELSE n

(* Only a wait that blocks leaves the thread that was current Blocked.     *)
Remember ==
    kept' = IF state'[gt_current] = "Blocked"
            THEN LargerOf(kept, starvation_count[gt_current]) ELSE kept

StarvationInit == Init /\ kept = 0

StarvationNext == Next /\ Remember

StarvationSpec == StarvationInit /\ [][StarvationNext]_<<vars, kept>>

(* ualarm(500, 500) re-arms the timer in every gt_schedule, and main's     *)
(* loop calls gt_schedule as long as it runs.                              *)
StarvationFairness ==
    /\ WF_<<vars, kept>>(gt_alarm_handle /\ Remember)
    /\ WF_<<vars, kept>>(MainReturn /\ Remember)

FairSpec == StarvationSpec /\ StarvationFairness

-----------------------------------------------------------------------------
(* Critically starved threads queue up behind one another and the longest  *)
(* starved goes first (gthr.c:178, 237), so under the priority scheduler   *)
(* nobody waits longer than STARVATION_LIMIT - or the largest counter a    *)
(* thread came back from a semaphore with - plus one turn of each thread   *)
(* but itself and the one that runs, whatever the threads do.              *)
StarvationBounded ==
    gt_current_scheduler = "PRI" =>
        \A t \in ReadyIn(state) :
            starvation_count[t] <= LargerOf(STARVATION_LIMIT, kept) + MAX_G_THREADS - 2

(* A thread that became Ready runs again, whatever the others do, under    *)
(* the two deterministic schedulers - unless a thread returns and the      *)
(* program does not survive it.                                            *)
NoStarvation ==
    \A t \in Threads :
        (gt_current_scheduler # "LS" /\ state[t] = "Ready")
          ~> (state[t] = "Running" \/ phase = "crashed")

=============================================================================
