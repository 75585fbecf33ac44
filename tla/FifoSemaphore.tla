---------------------------- MODULE FifoSemaphore ----------------------------
(***************************************************************************)
(* What a gt_semaphore_t promises (gthr.h:32 "Semaphore structure with     *)
(* FIFO queue"): permits that are never negative, and a queue of sleeping  *)
(* threads served in the order they arrived.  A thread sleeps from the     *)
(* moment it is queued until a post takes it from the head, and a permit   *)
(* is never free while somebody waits for it.                              *)
(***************************************************************************)
EXTENDS Naturals, Sequences

CONSTANTS Threads, Sems, InitialValue

VARIABLES
    permits,   \* [Sems -> Nat]
    waiting,   \* [Sems -> Seq(Threads)]
    asleep     \* the threads that may not run

Init ==
    /\ permits = InitialValue
    /\ waiting = [s \in Sems |-> <<>>]
    /\ asleep = {}

(* wait *)
Acquire(s) ==
    /\ permits[s] > 0
    /\ permits' = [permits EXCEPT ![s] = @ - 1]
    /\ UNCHANGED <<waiting, asleep>>

Sleep(s, t) ==
    /\ permits[s] = 0
    /\ t \notin asleep
    /\ waiting' = [waiting EXCEPT ![s] = Append(@, t)]
    /\ asleep' = asleep \cup {t}
    /\ UNCHANGED permits

(* post *)
Release(s) ==
    /\ waiting[s] = <<>>
    /\ permits' = [permits EXCEPT ![s] = @ + 1]
    /\ UNCHANGED <<waiting, asleep>>

Wake(s) ==
    /\ waiting[s] # <<>>
    /\ waiting' = [waiting EXCEPT ![s] = Tail(@)]
    /\ asleep' = asleep \ {Head(waiting[s])}
    /\ UNCHANGED permits

Next == \E s \in Sems :
    \/ Acquire(s)
    \/ \E t \in Threads : Sleep(s, t)
    \/ Release(s)
    \/ Wake(s)

Spec == Init /\ [][Next]_<<permits, waiting, asleep>>

=============================================================================
