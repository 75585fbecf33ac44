--------------------------- MODULE MCGthrPreempt ---------------------------
(* GthrPreempt for TLC.                                                    *)
EXTENDS GthrPreempt

(* Past the first alarm at another statement the properties of the run     *)
(* claim nothing.                                                          *)
Undisturbed == ~disturbed

(* Bound: one thread at a time has a handler inside a handler, once the    *)
(* last worker has returned without a trace in the queue.  Workers are     *)
(* alike, so this is three threads with nested handlers, and four threads  *)
(* with one handler each.                                                  *)
LastWorker == MAX_G_THREADS - 1
Nested == {t \in Threads : Len(Frames(t)) > 2}
OneNests ==
    \A t \in Nested :
        /\ Nested = {t}
        /\ state[LastWorker] = "Unused"
        /\ \A i \in Slots : mutex.wait_queue[i] # LastWorker

=============================================================================
