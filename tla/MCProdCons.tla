----------------------------- MODULE MCProdCons -----------------------------
(* The threads of semaphore_test.c for TLC.  Under the lottery any Ready   *)
(* thread may be picked, so one run covers the choices of all three        *)
(* schedulers.  The starvation counters, which the lottery never reads,    *)
(* and the slots of a ring whose thread was woken, which are written       *)
(* before they are read, are left out of the fingerprint.                  *)
EXTENDS ProdCons, TLC

BothOne == (mutex :> 1) @@ (items_count :> 1)

Ring(q) == [q EXCEPT !.wait_queue = [i \in WaitingSlots(q) |-> q.wait_queue[i]]]

ViewWithoutStarvation ==
    <<state, tickets, gt_current, round_robin_index,
      [s \in Sems |-> Ring(sem[s])], phase, program>>

=============================================================================
