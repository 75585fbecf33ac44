----------------------------- MODULE GthrPreempt -----------------------------
(***************************************************************************)
(* The library of src/gthreads/gthr.c statement by statement, interrupted  *)
(* by its own timer: nothing masks SIGALRM in gt_sem_wait and gt_sem_post, *)
(* and gt_schedule itself unmasks it first (gt_reset_sig), so a handler    *)
(* runs gt_schedule on top of whatever the thread was doing.  The updates  *)
(* of value, wait_count, head and tail are a load and a store each, as the *)
(* build without optimisation does.                                        *)
(*                                                                         *)
(* Each worker repeats gt_sem_wait(&mutex); critical; gt_sem_post(&mutex)  *)
(* and may return; main created them all and is in gt_return.  A scheduler *)
(* may pick any Ready thread, which covers the choices of all three.       *)
(* gt_switch (gthr_switch.S) saves the stack it runs on in one context and *)
(* goes on on the stack of another; a context whose stack has run since it *)
(* was saved is stale, and to go on from it is the end of the program.     *)
(***************************************************************************)
EXTENDS Naturals, Integers, Sequences

CONSTANTS
    MAX_G_THREADS,   \* slots of gt_table
    NoThread,        \* a NULL pointer
    MaxNest          \* bound: handlers stacked on one thread

Threads == 0 .. MAX_G_THREADS - 1
Main == 0
Slots == 0 .. MAX_G_THREADS - 1

ClientPoints == {"user", "critical"}
WaitPoints == {"wait_store", "wait_test", "wait_enqueue", "wait_tail",
               "wait_tail_store", "wait_count", "wait_count_store", "wait_block",
               "wait_yield"}
PostPoints == {"post_store", "post_test", "post_take", "post_head",
               "post_head_store", "post_count", "post_count_store", "post_ready"}
SchedulePoints == {"pick", "park", "run", "set_current", "switch", "resumed"}
AllPoints == ClientPoints \cup WaitPoints \cup PostPoints \cup SchedulePoints
               \cup {"loop"}

(* The statements of the library before which an alarm does no harm; with  *)
(* any other one added, one of the properties below fails, with three      *)
(* threads or (post_test, post_count_store) with four.                     *)
SafePoints == ClientPoints \cup
    {"loop", "wait_yield", "post_take", "post_head", "post_head_store", "post_count",
     "post_ready", "pick", "resumed"}

ASSUME PreemptAssumption ==
    /\ MAX_G_THREADS \in Nat \ {0}
    /\ NoThread \notin Threads
    /\ MaxNest \in Nat

VARIABLES
    state,       \* gt_table[t].state
    gt_current,
    mutex,       \* a gt_semaphore_t
    ctx,         \* gt_table[t].ctx: the stack saved for each thread
    cpu,         \* the stack in use; its frames are, innermost first, the
                 \* statement they are at and what they hold in a local
    phase,       \* "run", "exited", "aborted", "crashed"
    disturbed    \* history: some alarm came before a statement that is not
                 \* among SafePoints

program == <<state, gt_current, mutex, ctx, cpu, phase>>
vars == <<program, disturbed>>

Frame(at, local) == [at |-> at, local |-> local]
Stack(owner, frames) == [owner |-> owner, frames |-> frames]
Stale == Stack(NoThread, <<>>)

Init ==
    /\ state = [t \in Threads |-> IF t = Main THEN "Running" ELSE "Ready"]
    /\ gt_current = Main
    /\ mutex = [value |-> 1, wait_count |-> 0, head |-> 0, tail |-> 0,
                wait_queue |-> [i \in Slots |-> NoThread]]
    /\ ctx = [t \in Threads |->
                IF t = Main THEN Stale ELSE Stack(t, <<Frame("user", NoThread)>>)]
    /\ cpu = Stack(Main, <<Frame("loop", NoThread)>>)
    /\ phase = "run"
    /\ disturbed = FALSE

-----------------------------------------------------------------------------
Top == Head(cpu.frames)
At(point) == phase = "run" /\ Top.at = point

Goto(from, to, local) ==
    /\ At(from)
    /\ cpu' = [cpu EXCEPT !.frames = <<Frame(to, local)>> \o Tail(@)]

(* Call gt_schedule; the caller's frame goes on at point to afterwards.    *)
Call(from, to) ==
    /\ At(from)
    /\ cpu' = [cpu EXCEPT !.frames =
                 <<Frame("pick", NoThread), Frame(to, NoThread)>> \o Tail(@)]

(* gt_schedule returns: main's loop turns or gt_sem_wait is done; in       *)
(* gt_return the assertion fails (Outcome).                                *)
Continuation(at) ==
    CASE at = "looping" -> "loop"
      [] at = "yielding" -> "critical"
      [] OTHER -> at

Pop(frames) ==
    <<Frame(Continuation(frames[2].at), frames[2].local)>> \o Tail(Tail(frames))

Caller == cpu.frames[2].at

Outcome(found) ==
    IF Caller = "returned" THEN "aborted"
    ELSE IF Caller = "looping" /\ ~found THEN "exited"
    ELSE phase

Unchanged == UNCHANGED <<state, gt_current, mutex, ctx, phase>>

-----------------------------------------------------------------------------
(* gt_sem_wait                                                             *)
WaitLoad == Goto("user", "wait_store", mutex.value) /\ Unchanged

WaitStore ==
    /\ Goto("wait_store", "wait_test", NoThread)
    /\ mutex' = [mutex EXCEPT !.value = Top.local - 1]
    /\ UNCHANGED <<state, gt_current, ctx, phase>>

(* Mutant: off by one, the first waiter enters.                            *)
WaitTestOffByOne ==
    /\ Goto("wait_test", IF mutex.value < -1 THEN "wait_enqueue" ELSE "critical", NoThread)
    /\ Unchanged

WaitTest ==
    /\ Goto("wait_test", IF mutex.value < 0 THEN "wait_enqueue" ELSE "critical", NoThread)
    /\ Unchanged

WaitEnqueue ==
    /\ Goto("wait_enqueue", "wait_tail", NoThread)
    /\ mutex' = [mutex EXCEPT !.wait_queue[mutex.tail] = gt_current]
    /\ UNCHANGED <<state, gt_current, ctx, phase>>

WaitTail == Goto("wait_tail", "wait_tail_store", mutex.tail) /\ Unchanged

WaitTailStore ==
    /\ Goto("wait_tail_store", "wait_count", NoThread)
    /\ mutex' = [mutex EXCEPT !.tail = (Top.local + 1) % MAX_G_THREADS]
    /\ UNCHANGED <<state, gt_current, ctx, phase>>

WaitCount == Goto("wait_count", "wait_count_store", mutex.wait_count) /\ Unchanged

(* Mutant: wait_count says that there are waiters, not how many.           *)
WaitCountFlag ==
    /\ Goto("wait_count_store", "wait_block", NoThread)
    /\ mutex' = [mutex EXCEPT !.wait_count = 1]
    /\ UNCHANGED <<state, gt_current, ctx, phase>>

WaitCountStore ==
    /\ Goto("wait_count_store", "wait_block", NoThread)
    /\ mutex' = [mutex EXCEPT !.wait_count = Top.local + 1]
    /\ UNCHANGED <<state, gt_current, ctx, phase>>

WaitBlock ==
    /\ Goto("wait_block", "wait_yield", NoThread)
    /\ state' = [state EXCEPT ![gt_current] = "Blocked"]
    /\ UNCHANGED <<gt_current, mutex, ctx, phase>>

WaitYield == Call("wait_yield", "yielding") /\ Unchanged

(* gt_sem_post                                                             *)
PostLoad == Goto("critical", "post_store", mutex.value) /\ Unchanged

PostStore ==
    /\ Goto("post_store", "post_test", NoThread)
    /\ mutex' = [mutex EXCEPT !.value = Top.local + 1]
    /\ UNCHANGED <<state, gt_current, ctx, phase>>

PostTest ==
    /\ Goto("post_test", IF mutex.value <= 0 /\ mutex.wait_count > 0
                         THEN "post_take" ELSE "user", NoThread)
    /\ Unchanged

PostTake ==
    /\ Goto("post_take", "post_head", mutex.wait_queue[mutex.head])
    /\ Unchanged

(* From here on thread, the local variable of gt_sem_post, is kept beside  *)
(* what was loaded.                                                        *)
PostHead ==
    /\ Goto("post_head", "post_head_store", [thread |-> Top.local, loaded |-> mutex.head])
    /\ Unchanged

PostHeadStore ==
    /\ Goto("post_head_store", "post_count", Top.local.thread)
    /\ mutex' = [mutex EXCEPT !.head = (Top.local.loaded + 1) % MAX_G_THREADS]
    /\ UNCHANGED <<state, gt_current, ctx, phase>>

PostCount ==
    /\ Goto("post_count", "post_count_store",
            [thread |-> Top.local, loaded |-> mutex.wait_count])
    /\ Unchanged

PostCountStore ==
    /\ Goto("post_count_store", "post_ready", Top.local.thread)
    /\ mutex' = [mutex EXCEPT !.wait_count = Top.local.loaded - 1]
    /\ UNCHANGED <<state, gt_current, ctx, phase>>

PostReady ==
    /\ Goto("post_ready", "user", NoThread)
    /\ state' = [state EXCEPT ![Top.local] = "Ready"]
    /\ UNCHANGED <<gt_current, mutex, ctx, phase>>

(* Mutant: the slot is not given back.                                     *)
ReturnKeepsSlot == Call("user", "returned") /\ Unchanged

(* gt_return of a worker, and main's loop                                  *)
Return ==
    /\ Call("user", "returned")
    /\ state' = [state EXCEPT ![gt_current] = "Unused"]
    /\ UNCHANGED <<gt_current, mutex, ctx, phase>>

(* free of an address that is not the start of a block, noticed or not.    *)
FreeTraps ==
    /\ At("user")
    /\ phase' = "crashed"
    /\ UNCHANGED <<state, gt_current, mutex, ctx, cpu>>

MainLoop == Call("loop", "looping") /\ Unchanged

-----------------------------------------------------------------------------
(* SIGALRM: the handler's gt_schedule is a new innermost frame.            *)
Alarm ==
    /\ phase = "run"
    /\ Len(cpu.frames) <= MaxNest
    /\ cpu' = [cpu EXCEPT !.frames = <<Frame("pick", NoThread)>> \o @]
    /\ disturbed' = (disturbed \/ Top.at \notin SafePoints)
    /\ Unchanged

(* gt_schedule                                                             *)
Pick ==
    \E p \in Threads :
        /\ state[p] = "Ready"
        /\ Goto("pick", "park", p)
        /\ Unchanged

PickNone ==
    /\ At("pick")
    /\ \A p \in Threads : state[p] # "Ready"
    /\ cpu' = [cpu EXCEPT !.frames = Pop(@)]
    /\ phase' = Outcome(FALSE)
    /\ UNCHANGED <<state, gt_current, mutex, ctx>>

(* Mutant: a thread that gt_sem_wait has marked Blocked is parked as Ready. *)
ParkWakes ==
    /\ Goto("park", "run", Top.local)
    /\ state' = [state EXCEPT ![gt_current] = IF @ = "Unused" THEN @ ELSE "Ready"]
    /\ UNCHANGED <<gt_current, mutex, ctx, phase>>

Park ==
    /\ Goto("park", "run", Top.local)
    /\ state' = [state EXCEPT ![gt_current] =
                   IF @ \in {"Unused", "Blocked"} THEN @ ELSE "Ready"]
    /\ UNCHANGED <<gt_current, mutex, ctx, phase>>

Run ==
    /\ Goto("run", "set_current", Top.local)
    /\ state' = [state EXCEPT ![Top.local] = "Running"]
    /\ UNCHANGED <<gt_current, mutex, ctx, phase>>

(* old and new are pointers to contexts; gt_current moves before gt_switch. *)
SetCurrent ==
    /\ Goto("set_current", "switch", [old |-> gt_current, new |-> Top.local])
    /\ gt_current' = Top.local
    /\ UNCHANGED <<state, mutex, ctx, phase>>

(* Mutant: old is computed after gt_current has moved.                     *)
OldIsNew == gt_current

Old == Top.local.old

Suspended == [cpu EXCEPT !.frames = <<Frame("resumed", NoThread)>> \o Tail(@)]

gt_switch ==
    /\ At("switch")
    /\ LET saved == [ctx EXCEPT ![Old] = Suspended]
           new == Top.local.new
       IN  \/ /\ saved[new] # Stale
              /\ cpu' = saved[new]
              /\ ctx' = [saved EXCEPT ![new] = Stale]
              /\ UNCHANGED phase
           \/ /\ saved[new] = Stale
              /\ phase' = "crashed"
              /\ UNCHANGED <<ctx, cpu>>
    /\ UNCHANGED <<state, gt_current, mutex>>

Resumed ==
    /\ At("resumed")
    /\ cpu' = [cpu EXCEPT !.frames = Pop(@)]
    /\ phase' = Outcome(TRUE)
    /\ UNCHANGED <<state, gt_current, mutex, ctx>>

Stopped == phase # "run" /\ UNCHANGED program

Statement ==
    \/ WaitLoad \/ WaitStore \/ WaitTest \/ WaitEnqueue
    \/ WaitTail \/ WaitTailStore \/ WaitCount \/ WaitCountStore
    \/ WaitBlock \/ WaitYield
    \/ PostLoad \/ PostStore \/ PostTest \/ PostTake
    \/ PostHead \/ PostHeadStore \/ PostCount \/ PostCountStore \/ PostReady
    \/ Return \/ FreeTraps \/ MainLoop
    \/ Pick \/ PickNone \/ Park \/ Run
    \/ SetCurrent \/ gt_switch \/ Resumed
    \/ Stopped

Next == (Statement /\ UNCHANGED disturbed) \/ Alarm

Spec == Init /\ [][Next]_vars

-----------------------------------------------------------------------------
Frames(t) == IF cpu.owner = t THEN cpu.frames ELSE ctx[t].frames
InCritical(t) ==
    Frames(t) # <<>> /\ Frames(t)[Len(Frames(t))].at = "critical"

(* semaphore_test.c:18 "Binary semaphore for mutual exclusion": one thread *)
(* at a time is between the end of gt_sem_wait and its gt_sem_post.        *)
MutualExclusion ==
    \A t, u \in Threads : InCritical(t) /\ InCritical(u) => t = u

(* gthr.c:476 "Blocked threads should stay blocked until semaphore         *)
(* releases them": nothing but a post makes a Blocked thread anything else. *)
BlockedStays ==
    \A t \in Threads :
        state[t] = "Blocked" /\ state'[t] # "Blocked" => Top.at = "post_ready"

(* gthr.c:487 "prepare pointers to context of current (will become old)":  *)
(* a thread's context holds the thread's own stack, and outside            *)
(* gt_schedule the stack in use is the one of the thread gt_current names. *)
OwnStack ==
    /\ \A t \in Threads : ctx[t] # Stale => ctx[t].owner = t
    /\ phase = "run" /\ Top.at \notin SchedulePoints => cpu.owner = gt_current

(* gthr.c:428 "if initial thread, wait for other to terminate": with every *)
(* wait followed by a post, no thread is left asleep when main exits.      *)
MainWaitsForAll ==
    phase = "exited" => \A t \in Threads \ {Main} : state[t] = "Unused"

(* gthr.c:425 assert(!"reachable"): a thread that returned never runs.     *)
NeverAborted == phase # "aborted"

-----------------------------------------------------------------------------
(* An alarm at the wrong statement breaks each of these.  What holds of    *)
(* the code is that nothing else does: until an alarm has come before a    *)
(* statement that is not among SafePoints, with any number of alarms and   *)
(* of handlers stacked at the others, ...                                  *)

(* ... one thread at a time is in the critical section (gthr.c:52-99).     *)
ExclusionUntilDisturbed == ~disturbed => MutualExclusion

(* ... a Blocked thread is woken by posts alone (gthr.c:73-83, 475-481).   *)
WakingUntilDisturbed == [][~disturbed => BlockedStays]_vars

(* ... every thread runs on its own stack (gthr.c:486-490).                *)
StacksUntilDisturbed == ~disturbed => OwnStack

(* ... main leaves when every thread has returned (gthr.c:428), although   *)
(* posts and waits of other threads run inside a half-done gt_sem_post.    *)
MainUntilDisturbed == ~disturbed => MainWaitsForAll

(* ... and a thread that returned never runs again (gthr.c:421-425).       *)
ReturnUntilDisturbed == ~disturbed => NeverAborted

=============================================================================
