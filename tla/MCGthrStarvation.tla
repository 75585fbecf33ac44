-------------------------- MODULE MCGthrStarvation --------------------------
(* GthrStarvation for TLC.                                                 *)
EXTENDS GthrStarvation, MCGthr

CONSTANT StaleBound   \* bound: a thread blocks only up to this counter

(* The counter a thread takes to sleep grows without end when two threads  *)
(* keep waking each other.  The alarm and main's loop never raise kept, so *)
(* the bound takes nothing from the fairness.                              *)
BoundedFairSpec ==
    /\ StarvationInit
    /\ [][StarvationNext /\ kept' <= StaleBound]_<<vars, kept>>
    /\ StarvationFairness

=============================================================================
