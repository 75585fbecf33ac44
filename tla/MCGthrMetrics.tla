---------------------------- MODULE MCGthrMetrics ----------------------------
(* Gthr with its metrics for TLC.                                          *)
EXTENDS GthrMetrics, MCGthr

(* Without the priority scheduler nothing reads the starvation counters    *)
(* and the priorities: they are left out of the fingerprint, and with them *)
(* the slots of a ring whose thread was woken, written before they are     *)
(* read.                                                                   *)
Ring(q) == [q EXCEPT !.wait_queue = [i \in WaitingSlots(q) |-> q.wait_queue[i]]]

ViewWithoutStarvation ==
    <<state, tickets, gt_current, gt_current_scheduler, round_robin_index,
      [s \in Sems |-> Ring(sem[s])], phase, accounting, period>>

=============================================================================
