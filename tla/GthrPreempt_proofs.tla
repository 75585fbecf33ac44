------------------------- MODULE GthrPreempt_proofs -------------------------
(***************************************************************************)
(* Proofs about GthrPreempt: until an alarm comes before a statement that  *)
(* is not among SafePoints the semaphore and the stacks are right, for     *)
(* every number of threads, with alarms at all the other statements and    *)
(* however many handlers stacked.                                          *)
(***************************************************************************)
EXTENDS GthrPreempt, FiniteSetTheorems, TLAPS

(* What a frame of a thread may be at: the outermost one is the client's   *)
(* or a call it made, and below gt_schedule only at a statement that was   *)
(* interrupted or waits for a call.                                        *)
Calls == {"looping", "yielding", "returned"}
MainPoints == {"loop", "looping"}
WorkerPoints == ClientPoints \cup WaitPoints \cup PostPoints \cup {"yielding", "returned"}
Interrupted == (SafePoints \ {"pick", "resumed"}) \cup Calls
Atomic == {"wait_store", "wait_test", "wait_enqueue", "wait_tail", "wait_tail_store",
           "wait_count", "wait_count_store", "wait_block", "post_store", "post_test",
           "post_count_store"}

-----------------------------------------------------------------------------
(* The semaphore, from where each thread is (pt), what it holds in a local *)
(* (lc) and which threads are Blocked (B).  A thread that has loaded tail, *)
(* head or wait_count counts as being before the load.                     *)

(* A thread holds the mutex from its wait, or from when it is woken, until *)
(* it gives value back; it is inside until its gt_sem_post is done.        *)
Holds(pt, B, t) ==
    \/ pt[t] \in {"critical", "post_store", "post_ready"}
    \/ pt[t] \in {"wait_yield", "yielding"} /\ t \notin B
Inside(pt, B, t) ==
    Holds(pt, B, t) \/ pt[t] \in {"post_test", "post_take", "post_head", "post_count"}
Adds(pt, t) == pt[t] \in {"wait_test", "wait_enqueue", "wait_tail", "wait_count"}
Sleeps(pt, B, t) == t \in B \/ pt[t] \in {"wait_count", "wait_block"}
HandedOver(pt, lc, t) ==
    \E p \in Threads : pt[p] \in {"post_count", "post_ready"} /\ lc[p] = t

One(condition) == IF condition THEN 1 ELSE 0

(* The length of the ring, which wait_count is late to say.                *)
Queued(pt, m) ==
    m.wait_count + One(\E t \in Threads : pt[t] = "wait_count")
                 - One(\E t \in Threads : pt[t] = "post_count")
Slot(m, k) ==
    IF m.head + k < MAX_G_THREADS THEN m.head + k ELSE m.head + k - MAX_G_THREADS
Waiter(m, k) == m.wait_queue[Slot(m, k)]

SemaphoreOK(m) ==
    /\ m = [value |-> m.value, wait_count |-> m.wait_count, head |-> m.head,
            tail |-> m.tail, wait_queue |-> m.wait_queue]
    /\ m.value \in Int /\ m.wait_count \in Nat
    /\ m.head \in Slots /\ m.tail \in Slots
    /\ m.wait_queue \in [Slots -> Threads \cup {NoThread}]

(* value counts the threads that wait and the one that holds the mutex;    *)
(* nobody waits while nobody is inside.                                    *)
ValueOK(pt, lc, B, m) ==
    /\ \A t \in B : t \in Threads /\ pt[t] \in {"wait_yield", "yielding"}
    /\ \A t, u \in Threads : Inside(pt, B, t) /\ Inside(pt, B, u) => t = u
    /\ m.value = 1 - m.wait_count - One(\E t \in Threads : Holds(pt, B, t))
                   - One(\E t \in Threads : Adds(pt, t))
    /\ \A t \in Threads : pt[t] \in {"wait_store", "post_store"} => lc[t] = m.value
    /\ \A t \in Threads :
          pt[t] \in {"post_take", "post_head", "post_count"} => m.wait_count >= 1
    /\ \A t \in Threads :
          Sleeps(pt, B, t) \/ pt[t] \in {"wait_enqueue", "wait_tail"} =>
             \E u \in Threads : Inside(pt, B, u)

(* The ring holds the sleeping threads, each once, but the one that a post *)
(* has taken out of it and not yet woken.                                  *)
RingOK(pt, lc, B, m) ==
    /\ Queued(pt, m) \in 0 .. MAX_G_THREADS - 1
    /\ m.tail = Slot(m, Queued(pt, m))
    /\ \A k \in 0 .. Queued(pt, m) - 1 :
          /\ Waiter(m, k) \in Threads
          /\ Sleeps(pt, B, Waiter(m, k))
          /\ ~HandedOver(pt, lc, Waiter(m, k))
    /\ \A k, l \in 0 .. Queued(pt, m) - 1 : Waiter(m, k) = Waiter(m, l) => k = l
    /\ \A t \in Threads : Sleeps(pt, B, t) =>
          HandedOver(pt, lc, t) \/ \E k \in 0 .. Queued(pt, m) - 1 : Waiter(m, k) = t
    /\ \A p \in Threads : pt[p] = "post_head" => lc[p] = Waiter(m, 0)
    /\ \A p \in Threads : pt[p] \in {"post_count", "post_ready"} => lc[p] \in B
    /\ \A t \in Threads : pt[t] = "wait_tail" => m.wait_queue[m.tail] = t

SyncOK(pt, lc, B, m) == SemaphoreOK(m) /\ ValueOK(pt, lc, B, m) /\ RingOK(pt, lc, B, m)

(* Thread r moves on, and nobody else is at a statement no alarm may       *)
(* interrupt.                                                              *)
Moves(pt, lc, pt2, lc2, r) ==
    /\ \A t \in Threads \ {r} : pt2[t] = pt[t] /\ lc2[t] = lc[t]
    /\ \A t \in Threads \ {r} : pt[t] \notin Atomic

-----------------------------------------------------------------------------
(* What each statement of gt_sem_wait and gt_sem_post does to it.          *)

LEMMA Sizes == MAX_G_THREADS \in Nat \ {0} /\ Threads = 0 .. MAX_G_THREADS - 1
               /\ Slots = Threads /\ NoThread \notin Threads
  BY PreemptAssumption DEF Threads, Slots

(* A move between statements that say the same of the semaphore.           *)
LEMMA SameMeaning ==
    ASSUME NEW pt, NEW lc, NEW pt2, NEW lc2, NEW B, NEW B2, NEW m, NEW r \in Threads,
           SyncOK(pt, lc, B, m), Moves(pt, lc, pt2, lc2, r),
           \A t \in B2 : t \in Threads /\ pt2[t] \in {"wait_yield", "yielding"},
           \A t \in Threads : Holds(pt2, B2, t) <=> Holds(pt, B, t),
           \A t \in Threads : Inside(pt2, B2, t) <=> Inside(pt, B, t),
           \A t \in Threads : Sleeps(pt2, B2, t) <=> Sleeps(pt, B, t),
           B \subseteq B2,
           Adds(pt2, r) <=> Adds(pt, r),
           pt2[r] \in {"wait_store", "post_store"} => lc2[r] = m.value,
           pt2[r] \in {"post_take", "post_head"} =>
              pt[r] \in {"post_take", "post_head"} \/ m.wait_count >= 1,
           pt2[r] = "post_head" => lc2[r] = Waiter(m, 0),
           pt2[r] = "wait_enqueue" => \E u \in Threads : Inside(pt, B, u),
           pt[r] \notin {"wait_tail", "wait_count", "post_count", "post_ready"},
           pt2[r] \notin {"wait_tail", "wait_count", "post_count", "post_ready"}
    PROVE  SyncOK(pt2, lc2, B2, m)
  <1>1. Queued(pt2, m) = Queued(pt, m)
    BY DEF Queued, One, Moves
  <1>2. \A t : HandedOver(pt2, lc2, t) <=> HandedOver(pt, lc, t)
    BY DEF HandedOver, Moves
  <1>3. ValueOK(pt2, lc2, B2, m)
    <2>1. (\E t \in Threads : Adds(pt2, t)) <=> (\E t \in Threads : Adds(pt, t))
      BY DEF Moves, Adds
    <2>2. (\E t \in Threads : Holds(pt2, B2, t)) <=> (\E t \in Threads : Holds(pt, B, t))
      OBVIOUS
    <2>3. m.value = 1 - m.wait_count - One(\E t \in Threads : Holds(pt2, B2, t))
                   - One(\E t \in Threads : Adds(pt2, t))
      BY <2>1, <2>2 DEF SyncOK, ValueOK, One
    <2>4. \A t \in Threads : pt2[t] \in {"wait_store", "post_store"} => lc2[t] = m.value
      BY DEF SyncOK, ValueOK, Moves
    <2>5. \A t \in Threads :
             pt2[t] \in {"post_take", "post_head", "post_count"} => m.wait_count >= 1
      BY DEF SyncOK, ValueOK, Moves
    <2>6. \A t \in Threads :
             Sleeps(pt2, B2, t) \/ pt2[t] \in {"wait_enqueue", "wait_tail"} =>
               \E u \in Threads : Inside(pt2, B2, u)
      BY DEF SyncOK, ValueOK, Moves
    <2> QED
      BY <2>3, <2>4, <2>5, <2>6 DEF SyncOK, ValueOK
  <1>4. RingOK(pt2, lc2, B2, m)
    <2>1. \A p \in Threads : pt2[p] = "post_head" => lc2[p] = Waiter(m, 0)
      BY DEF SyncOK, RingOK, Moves
    <2>2. \A p \in Threads : pt2[p] \in {"post_count", "post_ready"} => lc2[p] \in B2
      BY DEF SyncOK, RingOK, Moves
    <2>3. \A t \in Threads : pt2[t] = "wait_tail" => m.wait_queue[m.tail] = t
      BY DEF SyncOK, RingOK, Moves
    <2> QED
      BY <1>1, <1>2, <2>1, <2>2, <2>3 DEF SyncOK, RingOK
  <1> QED
    BY <1>3, <1>4 DEF SyncOK

(* The same, by what the thread does: the statements of gt_sem_wait and    *)
(* gt_sem_post that only read, a call of gt_schedule and its return.       *)
LEMMA SilentStep ==
    ASSUME NEW pt, NEW lc, NEW pt2, NEW lc2, NEW B, NEW m, NEW r \in Threads,
           SyncOK(pt, lc, B, m), Moves(pt, lc, pt2, lc2, r),
           \/ pt[r] = "user" /\ pt2[r] \in {"wait_store", "returned"}
           \/ pt[r] = "critical" /\ pt2[r] = "post_store"
           \/ pt[r] = "wait_test" /\ pt2[r] = "wait_enqueue"
           \/ pt[r] = "post_test" /\ pt2[r] = "post_take"
           \/ pt[r] = "post_take" /\ pt2[r] = "post_head"
           \/ pt[r] = "wait_yield" /\ pt2[r] = "yielding"
           \/ pt[r] = "yielding" /\ pt2[r] = "critical" /\ r \notin B
           \/ pt[r] = "loop" /\ pt2[r] = "looping"
           \/ pt[r] = "looping" /\ pt2[r] = "loop",
           pt2[r] \in {"wait_store", "post_store"} => lc2[r] = m.value,
           pt2[r] = "wait_enqueue" => \E u \in Threads : Inside(pt, B, u),
           pt2[r] = "post_take" => m.wait_count >= 1,
           pt2[r] = "post_head" => lc2[r] = Waiter(m, 0)
    PROVE  SyncOK(pt2, lc2, B, m)
  <1>1. \A t \in B : t \in Threads /\ pt[t] \in {"wait_yield", "yielding"}
    BY DEF SyncOK, ValueOK
  <1>2. \A t \in B : t \in Threads /\ pt2[t] \in {"wait_yield", "yielding"}
    BY <1>1 DEF Moves
  <1>3. /\ Holds(pt2, B, r) <=> Holds(pt, B, r)
        /\ Inside(pt2, B, r) <=> Inside(pt, B, r)
        /\ Sleeps(pt2, B, r) <=> Sleeps(pt, B, r)
        /\ Adds(pt2, r) <=> Adds(pt, r)
    BY DEF Holds, Inside, Sleeps, Adds
  <1>4. \A t \in Threads : Holds(pt2, B, t) <=> Holds(pt, B, t)
    BY <1>3 DEF Holds, Moves
  <1>5. \A t \in Threads : Inside(pt2, B, t) <=> Inside(pt, B, t)
    BY <1>3, <1>4 DEF Inside, Moves
  <1>6. \A t \in Threads : Sleeps(pt2, B, t) <=> Sleeps(pt, B, t)
    BY <1>3 DEF Sleeps, Moves
  <1>7. /\ pt2[r] \in {"post_take", "post_head"} =>
               pt[r] \in {"post_take", "post_head"} \/ m.wait_count >= 1
        /\ pt[r] \notin {"wait_tail", "wait_count", "post_count", "post_ready"}
        /\ pt2[r] \notin {"wait_tail", "wait_count", "post_count", "post_ready"}
    OBVIOUS
  <1> QED
    BY <1>2, <1>3, <1>4, <1>5, <1>6, <1>7, SameMeaning

LEMMA StoreDecremented ==
    ASSUME NEW pt, NEW lc, NEW pt2, NEW lc2, NEW B, NEW m, NEW r \in Threads,
           SyncOK(pt, lc, B, m), Moves(pt, lc, pt2, lc2, r),
           pt[r] = "wait_store", pt2[r] = "wait_test"
    PROVE  SyncOK(pt2, lc2, B, [m EXCEPT !.value = lc[r] - 1])
  <1> DEFINE m2 == [m EXCEPT !.value = lc[r] - 1]
  <1>0. lc[r] = m.value
    BY DEF SyncOK, ValueOK
  <1>1. /\ m2.value = m.value - 1 /\ m2.wait_count = m.wait_count
        /\ m2.head = m.head /\ m2.tail = m.tail /\ m2.wait_queue = m.wait_queue
        /\ SemaphoreOK(m2)
    BY <1>0 DEF SyncOK, SemaphoreOK
  <1> HIDE DEF m2
  <1>2. Queued(pt2, m2) = Queued(pt, m)
    BY <1>1 DEF Queued, One, Moves
  <1>3. \A k : Waiter(m2, k) = Waiter(m, k)
    BY <1>1 DEF Waiter, Slot
  <1>4. /\ \A t \in Threads : Holds(pt2, B, t) <=> Holds(pt, B, t)
        /\ \A t \in Threads : Inside(pt2, B, t) <=> Inside(pt, B, t)
        /\ \A t \in Threads : Sleeps(pt2, B, t) <=> Sleeps(pt, B, t)
        /\ \A t : HandedOver(pt2, lc2, t) <=> HandedOver(pt, lc, t)
        /\ \A t \in Threads : ~Adds(pt, t)
        /\ Adds(pt2, r)
    BY DEF SyncOK, ValueOK, Holds, Inside, Sleeps, HandedOver, Adds, Moves, Atomic
  <1>5. m.value \in Int /\ m.wait_count \in Nat
    BY DEF SyncOK, SemaphoreOK
  <1>6. m2.value = 1 - m2.wait_count - One(\E t \in Threads : Holds(pt2, B, t))
                   - One(\E t \in Threads : Adds(pt2, t))
    BY <1>1, <1>4, <1>5 DEF SyncOK, ValueOK, One
  <1>7. ValueOK(pt2, lc2, B, m2)
    <2>1. \A t \in Threads : pt2[t] \notin {"wait_store", "post_store"}
      BY DEF Moves, Atomic
    <2>2. \A t \in Threads :
             pt2[t] \in {"post_take", "post_head", "post_count"} => m2.wait_count >= 1
      BY <1>1 DEF SyncOK, ValueOK, Moves
    <2>3. \A t \in Threads :
             Sleeps(pt2, B, t) \/ pt2[t] \in {"wait_enqueue", "wait_tail"} =>
               \E u \in Threads : Inside(pt2, B, u)
      BY <1>4 DEF SyncOK, ValueOK, Moves
    <2>4. \A t \in B : t \in Threads /\ pt2[t] \in {"wait_yield", "yielding"}
      BY DEF SyncOK, ValueOK, Moves
    <2> QED
      BY <1>4, <1>6, <2>1, <2>2, <2>3, <2>4 DEF SyncOK, ValueOK
  <1>8. RingOK(pt2, lc2, B, m2)
    BY <1>1, <1>2, <1>3, <1>4 DEF SyncOK, RingOK, Moves, Slot
  <1> QED
    BY <1>1, <1>7, <1>8 DEF SyncOK, m2

LEMMA StoreIncremented ==
    ASSUME NEW pt, NEW lc, NEW pt2, NEW lc2, NEW B, NEW m, NEW r \in Threads,
           SyncOK(pt, lc, B, m), Moves(pt, lc, pt2, lc2, r),
           pt[r] = "post_store", pt2[r] = "post_test"
    PROVE  SyncOK(pt2, lc2, B, [m EXCEPT !.value = lc[r] + 1])
  <1> DEFINE m2 == [m EXCEPT !.value = lc[r] + 1]
  <1>0. lc[r] = m.value
    BY DEF SyncOK, ValueOK
  <1>1. /\ m2.value = m.value + 1 /\ m2.wait_count = m.wait_count
        /\ m2.head = m.head /\ m2.tail = m.tail /\ m2.wait_queue = m.wait_queue
        /\ SemaphoreOK(m2)
    BY <1>0 DEF SyncOK, SemaphoreOK
  <1> HIDE DEF m2
  <1>2. Queued(pt2, m2) = Queued(pt, m)
    BY <1>1 DEF Queued, One, Moves
  <1>3. \A k : Waiter(m2, k) = Waiter(m, k)
    BY <1>1 DEF Waiter, Slot
  <1>4. /\ \A t \in Threads : ~Holds(pt2, B, t)
        /\ Holds(pt, B, r)
        /\ \A t \in Threads : Inside(pt2, B, t) <=> Inside(pt, B, t)
        /\ \A t \in Threads : Sleeps(pt2, B, t) <=> Sleeps(pt, B, t)
        /\ \A t : HandedOver(pt2, lc2, t) <=> HandedOver(pt, lc, t)
        /\ \A t \in Threads : Adds(pt2, t) <=> Adds(pt, t)
    BY DEF SyncOK, ValueOK, Holds, Inside, Sleeps, HandedOver, Adds, Moves, Atomic
  <1>5. m.value \in Int /\ m.wait_count \in Nat
    BY DEF SyncOK, SemaphoreOK
  <1>6. m2.value = 1 - m2.wait_count - One(\E t \in Threads : Holds(pt2, B, t))
                   - One(\E t \in Threads : Adds(pt2, t))
    BY <1>1, <1>4, <1>5 DEF SyncOK, ValueOK, One
  <1>7. ValueOK(pt2, lc2, B, m2)
    <2>1. \A t \in Threads : pt2[t] \notin {"wait_store", "post_store"}
      BY DEF Moves, Atomic
    <2>2. \A t \in Threads :
             pt2[t] \in {"post_take", "post_head", "post_count"} => m2.wait_count >= 1
      BY <1>1 DEF SyncOK, ValueOK, Moves
    <2>3. \A t \in Threads :
             Sleeps(pt2, B, t) \/ pt2[t] \in {"wait_enqueue", "wait_tail"} =>
               \E u \in Threads : Inside(pt2, B, u)
      BY <1>4 DEF Inside
    <2>4. \A t \in B : t \in Threads /\ pt2[t] \in {"wait_yield", "yielding"}
      BY DEF SyncOK, ValueOK, Moves
    <2> QED
      BY <1>4, <1>6, <2>1, <2>2, <2>3, <2>4 DEF SyncOK, ValueOK
  <1>8. RingOK(pt2, lc2, B, m2)
    BY <1>1, <1>2, <1>3, <1>4 DEF SyncOK, RingOK, Moves, Slot
  <1> QED
    BY <1>1, <1>7, <1>8 DEF SyncOK, m2

(* gt_sem_wait takes the mutex: nobody was inside.                         *)
LEMMA Enters ==
    ASSUME NEW pt, NEW lc, NEW pt2, NEW lc2, NEW B, NEW m, NEW r \in Threads,
           SyncOK(pt, lc, B, m), Moves(pt, lc, pt2, lc2, r),
           pt[r] = "wait_test", pt2[r] = "critical", ~(m.value < 0)
    PROVE  SyncOK(pt2, lc2, B, m)
  <1>1. m.value \in Int /\ m.wait_count \in Nat
    BY DEF SyncOK, SemaphoreOK
  <1>2. /\ m.value = 1 - m.wait_count - One(\E t \in Threads : Holds(pt, B, t)) - 1
        /\ \A t \in Threads : ~Holds(pt, B, t)
        /\ m.wait_count = 0
    BY <1>1 DEF SyncOK, ValueOK, One, Adds
  <1>3. \A t \in Threads : ~Inside(pt, B, t)
    BY <1>1, <1>2 DEF SyncOK, ValueOK, Inside, Moves, Atomic
  <1>4. Queued(pt2, m) = Queued(pt, m)
    BY DEF Queued, One, Moves
  <1>5. /\ \A t \in Threads : Holds(pt2, B, t) <=> t = r
        /\ \A t \in Threads : Inside(pt2, B, t) <=> t = r
        /\ \A t \in Threads : Sleeps(pt2, B, t) <=> Sleeps(pt, B, t)
        /\ \A t : HandedOver(pt2, lc2, t) <=> HandedOver(pt, lc, t)
        /\ \A t \in Threads : ~Adds(pt2, t)
    BY <1>3 DEF SyncOK, ValueOK, Holds, Inside, Sleeps, HandedOver, Adds, Moves, Atomic
  <1>6. m.value = 1 - m.wait_count - One(\E t \in Threads : Holds(pt2, B, t))
                   - One(\E t \in Threads : Adds(pt2, t))
    BY <1>1, <1>2, <1>5 DEF One
  <1>7. ValueOK(pt2, lc2, B, m)
    <2>1. \A t \in Threads : pt2[t] \notin {"wait_store", "post_store", "wait_enqueue", "wait_tail"}
      BY DEF Moves, Atomic
    <2>2. \A t \in Threads : pt2[t] \notin {"post_take", "post_head", "post_count"}
      BY <1>3 DEF Moves, Inside
    <2>3. \E u \in Threads : Inside(pt2, B, u)
      BY <1>5
    <2>4. \A t \in B : t \in Threads /\ pt2[t] \in {"wait_yield", "yielding"}
      BY DEF SyncOK, ValueOK, Moves
    <2> QED
      BY <1>5, <1>6, <2>1, <2>2, <2>3, <2>4 DEF ValueOK
  <1>8. RingOK(pt2, lc2, B, m)
    BY <1>4, <1>5 DEF SyncOK, RingOK, Moves
  <1> QED
    BY <1>7, <1>8 DEF SyncOK

(* gt_sem_post wakes nobody: nobody waits.                                 *)
LEMMA Leaves ==
    ASSUME NEW pt, NEW lc, NEW pt2, NEW lc2, NEW B, NEW m, NEW r \in Threads,
           SyncOK(pt, lc, B, m), Moves(pt, lc, pt2, lc2, r),
           pt[r] = "post_test", pt2[r] = "user", ~(m.value <= 0 /\ m.wait_count > 0)
    PROVE  SyncOK(pt2, lc2, B, m)
  <1>1. m.value \in Int /\ m.wait_count \in Nat
    BY DEF SyncOK, SemaphoreOK
  <1>2. \A t \in Threads : Inside(pt, B, t) <=> t = r
    BY DEF SyncOK, ValueOK, Inside
  <1>3. \A t \in Threads : ~Holds(pt, B, t) /\ ~Adds(pt, t)
    BY <1>2 DEF SyncOK, Holds, Inside, Adds, Moves, Atomic
  <1>4. m.wait_count = 0
    BY <1>1, <1>3 DEF SyncOK, ValueOK, One
  <1>5. Queued(pt, m) = 0 /\ Queued(pt2, m) = 0
    BY <1>2, <1>4 DEF Queued, One, Moves, Inside, Atomic
  <1>6. \A t \in Threads : ~Sleeps(pt, B, t)
    <2>1. \A t : ~HandedOver(pt, lc, t)
      BY <1>2 DEF HandedOver, Inside, Holds
    <2> QED
      BY <1>5, <2>1 DEF SyncOK, RingOK
  <1>7. /\ \A t \in Threads : ~Holds(pt2, B, t) /\ ~Adds(pt2, t)
        /\ \A t \in Threads : ~Inside(pt2, B, t)
        /\ \A t \in Threads : ~Sleeps(pt2, B, t)
        /\ \A t : ~HandedOver(pt2, lc2, t)
    BY <1>2, <1>3, <1>6 DEF Holds, Inside, Sleeps, Adds, HandedOver, Moves, Atomic
  <1>8. ValueOK(pt2, lc2, B, m)
    BY <1>1, <1>3, <1>7 DEF SyncOK, ValueOK, Moves, Atomic, One, Sleeps, Inside
  <1>9. RingOK(pt2, lc2, B, m)
    BY <1>5, <1>7 DEF SyncOK, RingOK, Moves, Inside, Holds
  <1> QED
    BY <1>8, <1>9 DEF SyncOK

LEMMA SlotFacts ==
    ASSUME NEW m, m.head \in Slots
    PROVE  /\ \A k \in 0 .. MAX_G_THREADS - 1 : Slot(m, k) \in Slots
           /\ \A k, l \in 0 .. MAX_G_THREADS - 1 : Slot(m, k) = Slot(m, l) => k = l
  BY Sizes DEF Slot, Slots

LEMMA NextSlot ==
    ASSUME NEW h \in Slots
    PROVE  /\ (h + 1) % MAX_G_THREADS = IF h + 1 < MAX_G_THREADS THEN h + 1 ELSE 0
           /\ (h + 1) % MAX_G_THREADS \in Slots
  <1>1. h \in Nat /\ h + 1 <= MAX_G_THREADS
    BY Sizes DEF Slots
  <1>2. CASE h + 1 < MAX_G_THREADS
    <2>1. (h + 1) % MAX_G_THREADS = h + 1
      BY <1>1, <1>2, Sizes
    <2> QED
      BY <1>1, <1>2, <2>1, Sizes DEF Slots
  <1>3. CASE h + 1 = MAX_G_THREADS
    <2>1. MAX_G_THREADS % MAX_G_THREADS = 0
      BY Sizes
    <2> QED
      BY <1>1, <1>3, <2>1, Sizes DEF Slots
  <1> QED
    BY <1>1, <1>2, <1>3, Sizes

LEMMA Enqueues ==
    ASSUME NEW pt, NEW lc, NEW pt2, NEW lc2, NEW B, NEW m, NEW r \in Threads,
           SyncOK(pt, lc, B, m), Moves(pt, lc, pt2, lc2, r),
           pt[r] = "wait_enqueue", pt2[r] = "wait_tail"
    PROVE  SyncOK(pt2, lc2, B, [m EXCEPT !.wait_queue[m.tail] = r])
  <1> DEFINE m2 == [m EXCEPT !.wait_queue[m.tail] = r]
  <1>0. SemaphoreOK(m) /\ m.tail \in Slots /\ m.head \in Slots
    BY DEF SyncOK, SemaphoreOK
  <1>1. /\ m2.value = m.value /\ m2.wait_count = m.wait_count
        /\ m2.head = m.head /\ m2.tail = m.tail
        /\ m2.wait_queue = [m.wait_queue EXCEPT ![m.tail] = r]
    BY <1>0 DEF SemaphoreOK
  <1>2. /\ m2.wait_queue[m.tail] = r
        /\ \A i \in Slots \ {m.tail} : m2.wait_queue[i] = m.wait_queue[i]
        /\ SemaphoreOK(m2)
    BY <1>0, <1>1 DEF SemaphoreOK
  <1> HIDE DEF m2
  <1>3. Queued(pt2, m2) = Queued(pt, m)
    BY <1>1 DEF Queued, One, Moves
  <1>4. Queued(pt, m) \in 0 .. MAX_G_THREADS - 1 /\ m.tail = Slot(m, Queued(pt, m))
    BY DEF SyncOK, RingOK
  <1>5. \A k \in 0 .. Queued(pt, m) - 1 : Waiter(m2, k) = Waiter(m, k)
    <2> SUFFICES ASSUME NEW k \in 0 .. Queued(pt, m) - 1
                 PROVE  Waiter(m2, k) = Waiter(m, k)
      OBVIOUS
    <2>1. k \in 0 .. MAX_G_THREADS - 1 /\ k # Queued(pt, m)
      BY <1>4, Sizes
    <2>2. Slot(m, k) \in Slots /\ Slot(m, k) # m.tail
      BY <1>0, <1>4, <2>1, SlotFacts
    <2>3. Slot(m2, k) = Slot(m, k)
      BY <1>1 DEF Slot
    <2> QED
      BY <1>2, <2>2, <2>3 DEF Waiter
  <1>6. /\ \A t \in Threads : Holds(pt2, B, t) <=> Holds(pt, B, t)
        /\ \A t \in Threads : Inside(pt2, B, t) <=> Inside(pt, B, t)
        /\ \A t \in Threads : Sleeps(pt2, B, t) <=> Sleeps(pt, B, t)
        /\ \A t : HandedOver(pt2, lc2, t) <=> HandedOver(pt, lc, t)
        /\ \A t \in Threads : Adds(pt2, t) <=> Adds(pt, t)
    BY DEF Holds, Inside, Sleeps, HandedOver, Adds, Moves
  <1>7. ValueOK(pt2, lc2, B, m2)
    <2>1. \A t \in Threads : pt2[t] \notin {"wait_store", "post_store"}
      BY DEF Moves, Atomic
    <2>2. \A t \in Threads :
             pt2[t] \in {"post_take", "post_head", "post_count"} => m2.wait_count >= 1
      BY <1>1 DEF SyncOK, ValueOK, Moves
    <2>3. \A t \in Threads :
             Sleeps(pt2, B, t) \/ pt2[t] \in {"wait_enqueue", "wait_tail"} =>
               \E u \in Threads : Inside(pt2, B, u)
      BY <1>6 DEF SyncOK, ValueOK, Moves
    <2>4. \A t \in B : t \in Threads /\ pt2[t] \in {"wait_yield", "yielding"}
      BY DEF SyncOK, ValueOK, Moves
    <2>5. m2.value = 1 - m2.wait_count - One(\E t \in Threads : Holds(pt2, B, t))
                   - One(\E t \in Threads : Adds(pt2, t))
      BY <1>1, <1>6 DEF SyncOK, ValueOK, One
    <2> QED
      BY <1>6, <2>1, <2>2, <2>3, <2>4, <2>5 DEF SyncOK, ValueOK
  <1>8. RingOK(pt2, lc2, B, m2)
    <2>1. \A p \in Threads : pt2[p] = "post_head" => lc2[p] = Waiter(m2, 0)
      <3> SUFFICES ASSUME NEW p \in Threads, pt2[p] = "post_head"
                   PROVE  lc2[p] = Waiter(m2, 0)
        OBVIOUS
      <3>1. pt[p] = "post_head" /\ lc2[p] = lc[p]
        BY DEF Moves
      <3>2. m.wait_count \in Nat /\ m.wait_count >= 1
        BY <1>0, <3>1 DEF SyncOK, ValueOK, SemaphoreOK
      <3>3. \A t \in Threads : pt[t] # "post_count"
        BY <3>1 DEF SyncOK, ValueOK, Inside
      <3>4. Queued(pt, m) >= 1
        BY <3>2, <3>3 DEF Queued, One
      <3> QED
        BY <1>4, <1>5, <3>1, <3>4 DEF SyncOK, RingOK
    <2>2. \A p \in Threads : pt2[p] \in {"post_count", "post_ready"} => lc2[p] \in B
      BY DEF SyncOK, RingOK, Moves
    <2>3. \A t \in Threads : pt2[t] = "wait_tail" => m2.wait_queue[m2.tail] = t
      BY <1>1, <1>2 DEF Moves, Atomic
    <2>4. m2.tail = Slot(m2, Queued(pt2, m2))
      BY <1>1, <1>3, <1>4 DEF Slot
    <2> QED
      BY <1>3, <1>4, <1>5, <1>6, <2>1, <2>2, <2>3, <2>4 DEF SyncOK, RingOK
  <1> QED
    BY <1>2, <1>7, <1>8 DEF SyncOK, m2

(* The ring never fills up: main does not wait, and nobody waits twice.    *)
LEMMA RoomInRing ==
    ASSUME NEW q \in Nat, NEW f \in [0 .. q -> Threads \ {Main}],
           \A k, l \in 0 .. q : f[k] = f[l] => k = l
    PROVE  q + 1 <= MAX_G_THREADS - 1
  <1>1. Threads \ {Main} = 1 .. MAX_G_THREADS - 1
    BY Sizes DEF Main
  <1>2. /\ IsFiniteSet(Threads \ {Main})
        /\ Cardinality(Threads \ {Main}) = MAX_G_THREADS - 1
    <2>1. 1 \in Int /\ MAX_G_THREADS - 1 \in Int /\ ~(1 > MAX_G_THREADS - 1 + 1)
      BY Sizes
    <2>2. Cardinality(1 .. MAX_G_THREADS - 1)
            = IF 1 > MAX_G_THREADS - 1 THEN 0 ELSE MAX_G_THREADS - 1 - 1 + 1
      BY <2>1, FS_Interval
    <2>3. Cardinality(1 .. MAX_G_THREADS - 1) = MAX_G_THREADS - 1
      BY <2>2, Sizes
    <2>4. IsFiniteSet(1 .. MAX_G_THREADS - 1)
      BY <2>1, FS_Interval
    <2> QED
      BY <1>1, <2>3, <2>4
  <1>3. IsFiniteSet(0 .. q) /\ Cardinality(0 .. q) = q + 1
    <2>1. Cardinality(0 .. q) = IF 0 > q THEN 0 ELSE q - 0 + 1
      BY FS_Interval
    <2> QED
      BY <2>1, FS_Interval
  <1>4. ~(Cardinality(Threads \ {Main}) < Cardinality(0 .. q))
    <2> SUFFICES ASSUME Cardinality(Threads \ {Main}) < Cardinality(0 .. q)
                 PROVE  FALSE
      OBVIOUS
    <2>1. \E k, l \in 0 .. q : k # l /\ f[k] = f[l]
      BY <1>2, <1>3, FS_PigeonHole
    <2> QED
      BY <2>1
  <1> QED
    BY <1>2, <1>3, <1>4, Sizes

LEMMA TailAdvances ==
    ASSUME NEW pt, NEW lc, NEW pt2, NEW lc2, NEW B, NEW m, NEW r \in Threads,
           SyncOK(pt, lc, B, m), Moves(pt, lc, pt2, lc2, r), pt[Main] \in MainPoints,
           pt[r] = "wait_tail", pt2[r] = "wait_count"
    PROVE  SyncOK(pt2, lc2, B, [m EXCEPT !.tail = (m.tail + 1) % MAX_G_THREADS])
  <1> DEFINE m2 == [m EXCEPT !.tail = (m.tail + 1) % MAX_G_THREADS]
             q == Queued(pt, m)
  <1>0. SemaphoreOK(m) /\ m.tail \in Slots /\ m.head \in Slots /\ m.wait_count \in Nat
    BY DEF SyncOK, SemaphoreOK
  <1>1. /\ m2.value = m.value /\ m2.wait_count = m.wait_count
        /\ m2.head = m.head /\ m2.tail = (m.tail + 1) % MAX_G_THREADS
        /\ m2.wait_queue = m.wait_queue
        /\ SemaphoreOK(m2)
    BY <1>0, NextSlot DEF SemaphoreOK
  <1> HIDE DEF m2
  <1>2. Queued(pt2, m2) = q + 1
    <2>1. \A t \in Threads : pt[t] # "wait_count"
      BY DEF Moves, Atomic
    <2>2. \E t \in Threads : pt2[t] = "wait_count"
      OBVIOUS
    <2>3. (\E t \in Threads : pt2[t] = "post_count") <=> (\E t \in Threads : pt[t] = "post_count")
      BY DEF Moves
    <2> QED
      BY <1>0, <1>1, <2>1, <2>2, <2>3 DEF Queued, One
  <1>3. q \in 0 .. MAX_G_THREADS - 1 /\ m.tail = Slot(m, q)
    BY DEF SyncOK, RingOK
  <1>4. \A k : Waiter(m2, k) = Waiter(m, k)
    BY <1>1 DEF Waiter, Slot
  <1>5. Waiter(m, q) = r
    BY <1>3 DEF SyncOK, RingOK, Waiter
  <1>6. ~Sleeps(pt, B, r) /\ r # Main
    BY DEF SyncOK, ValueOK, Sleeps, MainPoints
  <1>7. /\ \A t \in Threads : Holds(pt2, B, t) <=> Holds(pt, B, t)
        /\ \A t \in Threads : Inside(pt2, B, t) <=> Inside(pt, B, t)
        /\ \A t \in Threads : Sleeps(pt2, B, t) <=> Sleeps(pt, B, t) \/ t = r
        /\ \A t : HandedOver(pt2, lc2, t) <=> HandedOver(pt, lc, t)
        /\ \A t \in Threads : Adds(pt2, t) <=> Adds(pt, t)
        /\ ~HandedOver(pt, lc, r)
    BY <1>6 DEF Holds, Inside, Sleeps, HandedOver, Adds, Moves, SyncOK, RingOK
  <1>8. \A k \in 0 .. q - 1 :
           Waiter(m, k) \in Threads /\ Sleeps(pt, B, Waiter(m, k)) /\ Waiter(m, k) # r
    BY <1>6 DEF SyncOK, RingOK
  <1>9. \A k, l \in 0 .. q : Waiter(m, k) = Waiter(m, l) => k = l
    <2> SUFFICES ASSUME NEW k \in 0 .. q, NEW l \in 0 .. q, Waiter(m, k) = Waiter(m, l)
                 PROVE  k = l
      OBVIOUS
    <2>1. CASE k \in 0 .. q - 1 /\ l \in 0 .. q - 1
      BY <2>1 DEF SyncOK, RingOK
    <2>2. CASE k = q \/ l = q
      BY <1>3, <1>5, <1>8, <2>2
    <2> QED
      BY <1>3, <2>1, <2>2
  <1>10. q + 1 <= MAX_G_THREADS - 1
    <2> DEFINE f == [k \in 0 .. q |-> Waiter(m, k)]
    <2>1. \A t \in Threads : Sleeps(pt, B, t) => t # Main
      BY DEF SyncOK, ValueOK, Sleeps, MainPoints
    <2>2. \A k \in 0 .. q : Waiter(m, k) \in Threads \ {Main}
      <3> SUFFICES ASSUME NEW k \in 0 .. q
                   PROVE  Waiter(m, k) \in Threads \ {Main}
        OBVIOUS
      <3>1. CASE k \in 0 .. q - 1
        BY <1>8, <2>1, <3>1
      <3>2. CASE k = q
        BY <1>5, <1>6, <3>2
      <3> QED
        BY <1>3, <3>1, <3>2
    <2>3. q \in Nat /\ f \in [0 .. q -> Threads \ {Main}]
      BY <1>3, <2>2
    <2>4. \A k, l \in 0 .. q : f[k] = f[l] => k = l
      BY <1>9
    <2> QED
      BY <2>3, <2>4, RoomInRing
  <1>11. ValueOK(pt2, lc2, B, m2)
    <2>1. \A t \in Threads : pt2[t] \notin {"wait_store", "post_store"}
      BY DEF Moves, Atomic
    <2>2. \A t \in Threads :
             pt2[t] \in {"post_take", "post_head", "post_count"} => m2.wait_count >= 1
      BY <1>1 DEF SyncOK, ValueOK, Moves
    <2>3. \A t \in Threads :
             Sleeps(pt2, B, t) \/ pt2[t] \in {"wait_enqueue", "wait_tail"} =>
               \E u \in Threads : Inside(pt2, B, u)
      BY <1>7 DEF SyncOK, ValueOK, Moves
    <2>4. \A t \in B : t \in Threads /\ pt2[t] \in {"wait_yield", "yielding"}
      BY DEF SyncOK, ValueOK, Moves
    <2>5. m2.value = 1 - m2.wait_count - One(\E t \in Threads : Holds(pt2, B, t))
                   - One(\E t \in Threads : Adds(pt2, t))
      BY <1>1, <1>7 DEF SyncOK, ValueOK, One
    <2> QED
      BY <1>7, <2>1, <2>2, <2>3, <2>4, <2>5 DEF SyncOK, ValueOK
  <1>12. RingOK(pt2, lc2, B, m2)
    <2>1. \A p \in Threads : pt2[p] = "post_head" => lc2[p] = Waiter(m2, 0)
      BY <1>4 DEF SyncOK, RingOK, Moves
    <2>2. \A p \in Threads : pt2[p] \in {"post_count", "post_ready"} => lc2[p] \in B
      BY DEF SyncOK, RingOK, Moves
    <2>3. \A t \in Threads : pt2[t] # "wait_tail"
      BY DEF Moves, Atomic
    <2>4. m2.tail = Slot(m2, q + 1)
      <3>1. m2.tail = IF m.tail + 1 < MAX_G_THREADS THEN m.tail + 1 ELSE 0
        BY <1>0, <1>1, NextSlot
      <3>2. m.tail = IF m.head + q < MAX_G_THREADS THEN m.head + q
                     ELSE m.head + q - MAX_G_THREADS
        BY <1>3 DEF Slot
      <3>3. m.head \in 0 .. MAX_G_THREADS - 1 /\ q \in Nat /\ MAX_G_THREADS \in Nat
        BY <1>0, <1>3, Sizes
      <3> QED
        BY <1>1, <1>10, <3>1, <3>2, <3>3 DEF Slot
    <2>5. q + 1 \in 0 .. MAX_G_THREADS - 1
      BY <1>3, <1>10, Sizes
    <2>6. \A k \in 0 .. q :
             /\ Waiter(m, k) \in Threads
             /\ Sleeps(pt2, B, Waiter(m, k))
             /\ ~HandedOver(pt2, lc2, Waiter(m, k))
      <3> SUFFICES ASSUME NEW k \in 0 .. q
                   PROVE  /\ Waiter(m, k) \in Threads
                          /\ Sleeps(pt2, B, Waiter(m, k))
                          /\ ~HandedOver(pt2, lc2, Waiter(m, k))
        OBVIOUS
      <3>1. CASE k \in 0 .. q - 1
        BY <1>7, <3>1 DEF SyncOK, RingOK
      <3>2. CASE k = q
        BY <1>5, <1>7, <3>2
      <3> QED
        BY <1>3, <3>1, <3>2
    <2>7. \A t \in Threads : Sleeps(pt2, B, t) =>
             HandedOver(pt2, lc2, t) \/ \E k \in 0 .. q : Waiter(m, k) = t
      <3> SUFFICES ASSUME NEW t \in Threads, Sleeps(pt2, B, t), ~HandedOver(pt2, lc2, t)
                   PROVE  \E k \in 0 .. q : Waiter(m, k) = t
        OBVIOUS
      <3>1. CASE t = r
        <4>1. q \in 0 .. q
          BY <1>3
        <4> QED
          BY <1>5, <3>1, <4>1
      <3>2. CASE t # r
        <4>1. \E k \in 0 .. q - 1 : Waiter(m, k) = t
          BY <1>7, <3>2 DEF SyncOK, RingOK
        <4> QED
          BY <1>3, <4>1
      <3> QED
        BY <3>1, <3>2
    <2>8. 0 .. Queued(pt2, m2) - 1 = 0 .. q
      BY <1>2, <1>3
    <2> HIDE DEF q
    <2>9. \A k \in 0 .. Queued(pt2, m2) - 1 :
             /\ Waiter(m2, k) \in Threads
             /\ Sleeps(pt2, B, Waiter(m2, k))
             /\ ~HandedOver(pt2, lc2, Waiter(m2, k))
      BY <1>4, <2>6, <2>8
    <2>10. \A k, l \in 0 .. Queued(pt2, m2) - 1 : Waiter(m2, k) = Waiter(m2, l) => k = l
      BY <1>4, <1>9, <2>8
    <2>11. \A t \in Threads : Sleeps(pt2, B, t) =>
              \/ HandedOver(pt2, lc2, t)
              \/ \E k \in 0 .. Queued(pt2, m2) - 1 : Waiter(m2, k) = t
      BY <1>4, <2>7, <2>8
    <2>12. Queued(pt2, m2) \in 0 .. MAX_G_THREADS - 1 /\ m2.tail = Slot(m2, Queued(pt2, m2))
      BY <1>2, <2>4, <2>5
    <2> QED
      BY <2>1, <2>2, <2>3, <2>9, <2>10, <2>11, <2>12 DEF RingOK
  <1> QED
    BY <1>1, <1>11, <1>12 DEF SyncOK, m2

LEMMA CountsIn ==
    ASSUME NEW pt, NEW lc, NEW pt2, NEW lc2, NEW B, NEW m, NEW r \in Threads,
           SyncOK(pt, lc, B, m), Moves(pt, lc, pt2, lc2, r),
           pt[r] = "wait_count", pt2[r] = "wait_block"
    PROVE  SyncOK(pt2, lc2, B, [m EXCEPT !.wait_count = m.wait_count + 1])
  <1> DEFINE m2 == [m EXCEPT !.wait_count = m.wait_count + 1]
  <1>0. SemaphoreOK(m) /\ m.wait_count \in Nat /\ m.value \in Int
    BY DEF SyncOK, SemaphoreOK
  <1>1. /\ m2.value = m.value /\ m2.wait_count = m.wait_count + 1
        /\ m2.head = m.head /\ m2.tail = m.tail /\ m2.wait_queue = m.wait_queue
        /\ SemaphoreOK(m2)
    BY <1>0 DEF SemaphoreOK
  <1> HIDE DEF m2
  <1>2. Queued(pt2, m2) = Queued(pt, m)
    <2>1. \A t \in Threads : pt2[t] # "wait_count"
      BY DEF Moves, Atomic
    <2>2. (\E t \in Threads : pt2[t] = "post_count") <=> (\E t \in Threads : pt[t] = "post_count")
      BY DEF Moves
    <2> QED
      BY <1>0, <1>1, <2>1, <2>2 DEF Queued, One
  <1>3. \A k : Waiter(m2, k) = Waiter(m, k)
    BY <1>1 DEF Waiter, Slot
  <1>4. /\ \A t \in Threads : Holds(pt2, B, t) <=> Holds(pt, B, t)
        /\ \A t \in Threads : Inside(pt2, B, t) <=> Inside(pt, B, t)
        /\ \A t \in Threads : Sleeps(pt2, B, t) <=> Sleeps(pt, B, t)
        /\ \A t : HandedOver(pt2, lc2, t) <=> HandedOver(pt, lc, t)
        /\ \A t \in Threads : ~Adds(pt2, t)
        /\ Adds(pt, r)
    BY DEF Holds, Inside, Sleeps, HandedOver, Adds, Moves, Atomic
  <1>5. ValueOK(pt2, lc2, B, m2)
    <2>1. \A t \in Threads : pt2[t] \notin {"wait_store", "post_store"}
      BY DEF Moves, Atomic
    <2>2. \A t \in Threads :
             pt2[t] \in {"post_take", "post_head", "post_count"} => m2.wait_count >= 1
      BY <1>0, <1>1 DEF SyncOK, ValueOK, Moves
    <2>3. \A t \in Threads :
             Sleeps(pt2, B, t) \/ pt2[t] \in {"wait_enqueue", "wait_tail"} =>
               \E u \in Threads : Inside(pt2, B, u)
      BY <1>4 DEF SyncOK, ValueOK, Moves
    <2>4. \A t \in B : t \in Threads /\ pt2[t] \in {"wait_yield", "yielding"}
      BY DEF SyncOK, ValueOK, Moves
    <2>5. m2.value = 1 - m2.wait_count - One(\E t \in Threads : Holds(pt2, B, t))
                   - One(\E t \in Threads : Adds(pt2, t))
      BY <1>0, <1>1, <1>4 DEF SyncOK, ValueOK, One
    <2> QED
      BY <1>4, <2>1, <2>2, <2>3, <2>4, <2>5 DEF SyncOK, ValueOK
  <1>6. RingOK(pt2, lc2, B, m2)
    <2>1. \A t \in Threads : pt2[t] # "wait_tail"
      BY DEF Moves, Atomic
    <2>2. \A p \in Threads : pt2[p] = "post_head" => lc2[p] = Waiter(m2, 0)
      BY <1>3 DEF SyncOK, RingOK, Moves
    <2>3. \A p \in Threads : pt2[p] \in {"post_count", "post_ready"} => lc2[p] \in B
      BY DEF SyncOK, RingOK, Moves
    <2>4. m2.tail = Slot(m2, Queued(pt2, m2))
      BY <1>1, <1>2 DEF SyncOK, RingOK, Slot
    <2> QED
      BY <1>2, <1>3, <1>4, <2>1, <2>2, <2>3, <2>4 DEF SyncOK, RingOK
  <1> QED
    BY <1>1, <1>5, <1>6 DEF SyncOK, m2

(* Nobody but the thread that posts is at a statement of gt_sem_post, and  *)
(* it holds one waiter at most.                                            *)
LEMMA OnePoster ==
    ASSUME NEW pt, NEW lc, NEW B, NEW m, NEW r \in Threads, SyncOK(pt, lc, B, m),
           pt[r] \in {"post_take", "post_head", "post_count", "post_ready"}
    PROVE  \A t \in Threads \ {r} : ~Inside(pt, B, t)
  BY DEF SyncOK, ValueOK, Inside, Holds

LEMMA HeadAdvances ==
    ASSUME NEW pt, NEW lc, NEW pt2, NEW lc2, NEW B, NEW m, NEW r \in Threads,
           SyncOK(pt, lc, B, m), Moves(pt, lc, pt2, lc2, r),
           pt[r] = "post_head", pt2[r] = "post_count", lc2[r] = lc[r]
    PROVE  SyncOK(pt2, lc2, B, [m EXCEPT !.head = (m.head + 1) % MAX_G_THREADS])
  <1> DEFINE m2 == [m EXCEPT !.head = (m.head + 1) % MAX_G_THREADS]
             q == Queued(pt, m)
  <1>0. SemaphoreOK(m) /\ m.head \in Slots /\ m.wait_count \in Nat /\ m.value \in Int
    BY DEF SyncOK, SemaphoreOK
  <1>1. /\ m2.value = m.value /\ m2.wait_count = m.wait_count
        /\ m2.head = (m.head + 1) % MAX_G_THREADS
        /\ m2.tail = m.tail /\ m2.wait_queue = m.wait_queue
        /\ SemaphoreOK(m2)
    BY <1>0, NextSlot DEF SemaphoreOK
  <1> HIDE DEF m2
  <1>2. \A t \in Threads \ {r} : ~Inside(pt, B, t)
    BY OnePoster
  <1>3. \A t \in Threads : pt[t] # "post_count" /\ pt[t] # "post_ready"
    BY <1>2 DEF Inside, Holds
  <1>4. Queued(pt2, m2) = q - 1 /\ q >= 1
    <2>1. \E t \in Threads : pt2[t] = "post_count"
      OBVIOUS
    <2>2. (\E t \in Threads : pt2[t] = "wait_count") <=> (\E t \in Threads : pt[t] = "wait_count")
      BY DEF Moves
    <2>3. m.wait_count >= 1
      BY DEF SyncOK, ValueOK
    <2> QED
      BY <1>0, <1>1, <1>3, <2>1, <2>2, <2>3 DEF Queued, One
  <1>5. q \in 0 .. MAX_G_THREADS - 1 /\ m.tail = Slot(m, q)
    BY DEF SyncOK, RingOK
  <1>6. \A k \in 0 .. q - 1 : Slot(m2, k) = Slot(m, k + 1)
    <2> SUFFICES ASSUME NEW k \in 0 .. q - 1
                 PROVE  Slot(m2, k) = Slot(m, k + 1)
      OBVIOUS
    <2>1. m2.head = IF m.head + 1 < MAX_G_THREADS THEN m.head + 1 ELSE 0
      BY <1>0, <1>1, NextSlot
    <2>2. m.head \in 0 .. MAX_G_THREADS - 1 /\ MAX_G_THREADS \in Nat
      BY <1>0, Sizes
    <2>3. k \in Nat /\ k + 1 <= MAX_G_THREADS - 1
      BY <1>5, <2>2
    <2> QED
      BY <2>1, <2>2, <2>3 DEF Slot
  <1>7. \A k \in 0 .. q - 2 : Waiter(m2, k) = Waiter(m, k + 1)
    BY <1>1, <1>5, <1>6 DEF Waiter
  <1>8. /\ lc[r] = Waiter(m, 0) /\ 0 \in 0 .. q - 1
        /\ Waiter(m, 0) \in Threads /\ Sleeps(pt, B, Waiter(m, 0))
    BY <1>4, <1>5 DEF SyncOK, RingOK
  <1>9. \A t \in Threads : pt[t] \in {"wait_count", "wait_block"} => FALSE
    BY DEF Moves, Atomic
  <1>10. lc[r] \in B
    BY <1>8, <1>9 DEF Sleeps
  <1>11. /\ \A t \in Threads : Holds(pt2, B, t) <=> Holds(pt, B, t)
         /\ \A t \in Threads : Inside(pt2, B, t) <=> Inside(pt, B, t)
         /\ \A t \in Threads : Sleeps(pt2, B, t) <=> Sleeps(pt, B, t)
         /\ \A t \in Threads : Adds(pt2, t) <=> Adds(pt, t)
         /\ \A t : ~HandedOver(pt, lc, t)
         /\ \A t : HandedOver(pt2, lc2, t) <=> t = lc[r]
    BY <1>3 DEF Holds, Inside, Sleeps, HandedOver, Adds, Moves, Atomic
  <1>12. ValueOK(pt2, lc2, B, m2)
    <2>1. \A t \in Threads : pt2[t] \notin {"wait_store", "post_store"}
      BY DEF Moves, Atomic
    <2>2. \A t \in Threads :
             pt2[t] \in {"post_take", "post_head", "post_count"} => m2.wait_count >= 1
      BY <1>0, <1>1 DEF SyncOK, ValueOK, Moves
    <2>3. \A t \in Threads :
             Sleeps(pt2, B, t) \/ pt2[t] \in {"wait_enqueue", "wait_tail"} =>
               \E u \in Threads : Inside(pt2, B, u)
      BY <1>11 DEF SyncOK, ValueOK, Moves
    <2>4. \A t \in B : t \in Threads /\ pt2[t] \in {"wait_yield", "yielding"}
      BY DEF SyncOK, ValueOK, Moves
    <2>5. m2.value = 1 - m2.wait_count - One(\E t \in Threads : Holds(pt2, B, t))
                   - One(\E t \in Threads : Adds(pt2, t))
      BY <1>1, <1>11 DEF SyncOK, ValueOK, One
    <2> QED
      BY <1>11, <2>1, <2>2, <2>3, <2>4, <2>5 DEF SyncOK, ValueOK
  <1>13. RingOK(pt2, lc2, B, m2)
    <2>1. \A t \in Threads : pt2[t] # "wait_tail" /\ pt2[t] # "post_head"
      BY <1>2 DEF Moves, Atomic, Inside
    <2>2. \A p \in Threads : pt2[p] \in {"post_count", "post_ready"} => lc2[p] \in B
      BY <1>3, <1>10 DEF Moves
    <2>3. Queued(pt2, m2) \in 0 .. MAX_G_THREADS - 1
      BY <1>4, <1>5, Sizes
    <2>4. m2.tail = Slot(m2, Queued(pt2, m2))
      <3>1. q - 1 \in 0 .. q - 1 /\ q - 1 + 1 = q
        BY <1>4, <1>5
      <3> QED
        BY <1>1, <1>4, <1>5, <1>6, <3>1
    <2>5. 0 .. Queued(pt2, m2) - 1 = 0 .. q - 2
      BY <1>4, <1>5
    <2>6. \A k \in 0 .. q - 2 : k + 1 \in 0 .. q - 1 /\ k + 1 # 0
      BY <1>4, <1>5
    <2>7. \A k \in 0 .. q - 2 :
             /\ Waiter(m2, k) \in Threads
             /\ Sleeps(pt2, B, Waiter(m2, k))
             /\ ~HandedOver(pt2, lc2, Waiter(m2, k))
      <3> SUFFICES ASSUME NEW k \in 0 .. q - 2
                   PROVE  /\ Waiter(m2, k) \in Threads
                          /\ Sleeps(pt2, B, Waiter(m2, k))
                          /\ Waiter(m2, k) # lc[r]
        BY <1>11
      <3>1. Waiter(m, k + 1) # Waiter(m, 0)
        BY <1>8, <2>6 DEF SyncOK, RingOK
      <3> QED
        BY <1>7, <1>8, <1>11, <2>6, <3>1 DEF SyncOK, RingOK
    <2>8. \A k, l \in 0 .. q - 2 : Waiter(m2, k) = Waiter(m2, l) => k = l
      <3> SUFFICES ASSUME NEW k \in 0 .. q - 2, NEW l \in 0 .. q - 2,
                          Waiter(m2, k) = Waiter(m2, l)
                   PROVE  k = l
        OBVIOUS
      <3>1. k + 1 = l + 1
        BY <1>7, <2>6 DEF SyncOK, RingOK
      <3> QED
        BY <1>4, <1>5, <3>1
    <2>9. \A t \in Threads : Sleeps(pt2, B, t) =>
             HandedOver(pt2, lc2, t) \/ \E k \in 0 .. q - 2 : Waiter(m2, k) = t
      <3> SUFFICES ASSUME NEW t \in Threads, Sleeps(pt2, B, t), t # lc[r]
                   PROVE  \E k \in 0 .. q - 2 : Waiter(m2, k) = t
        BY <1>11
      <3>1. PICK k \in 0 .. q - 1 : Waiter(m, k) = t
        BY <1>11 DEF SyncOK, RingOK
      <3>2. k # 0
        BY <1>8, <3>1
      <3>3. k - 1 \in 0 .. q - 2 /\ k - 1 + 1 = k
        BY <1>5, <3>2
      <3>4. Waiter(m2, k - 1) = t
        BY <1>7, <3>1, <3>3
      <3> QED
        BY <3>3, <3>4
    <2> HIDE DEF q
    <2> QED
      BY <2>1, <2>2, <2>3, <2>4, <2>5, <2>7, <2>8, <2>9 DEF RingOK
  <1> QED
    BY <1>1, <1>12, <1>13 DEF SyncOK, m2

LEMMA CountsOut ==
    ASSUME NEW pt, NEW lc, NEW pt2, NEW lc2, NEW B, NEW m, NEW r \in Threads,
           SyncOK(pt, lc, B, m), Moves(pt, lc, pt2, lc2, r),
           pt[r] = "post_count", pt2[r] = "post_ready", lc2[r] = lc[r]
    PROVE  SyncOK(pt2, lc2, B, [m EXCEPT !.wait_count = m.wait_count - 1])
  <1> DEFINE m2 == [m EXCEPT !.wait_count = m.wait_count - 1]
  <1>0. SemaphoreOK(m) /\ m.wait_count \in Nat /\ m.value \in Int /\ m.wait_count >= 1
    BY DEF SyncOK, SemaphoreOK, ValueOK
  <1>1. /\ m2.value = m.value /\ m2.wait_count = m.wait_count - 1
        /\ m2.head = m.head /\ m2.tail = m.tail /\ m2.wait_queue = m.wait_queue
        /\ SemaphoreOK(m2)
    BY <1>0 DEF SemaphoreOK
  <1> HIDE DEF m2
  <1>2. \A t \in Threads \ {r} : ~Inside(pt, B, t)
    BY OnePoster
  <1>3. Queued(pt2, m2) = Queued(pt, m)
    <2>1. \A t \in Threads : pt2[t] # "post_count"
      BY <1>2 DEF Moves, Inside
    <2>2. (\E t \in Threads : pt2[t] = "wait_count") <=> (\E t \in Threads : pt[t] = "wait_count")
      BY DEF Moves
    <2> QED
      BY <1>0, <1>1, <2>1, <2>2 DEF Queued, One
  <1>4. \A k : Waiter(m2, k) = Waiter(m, k)
    BY <1>1 DEF Waiter, Slot
  <1>5. /\ \A t \in Threads : ~Holds(pt, B, t)
        /\ Holds(pt2, B, r)
        /\ \A t \in Threads : Inside(pt2, B, t) <=> Inside(pt, B, t)
        /\ \A t \in Threads : Sleeps(pt2, B, t) <=> Sleeps(pt, B, t)
        /\ \A t : HandedOver(pt2, lc2, t) <=> HandedOver(pt, lc, t)
        /\ \A t \in Threads : Adds(pt2, t) <=> Adds(pt, t)
    BY <1>2 DEF SyncOK, ValueOK, Holds, Inside, Sleeps, HandedOver, Adds, Moves, Atomic
  <1>6. ValueOK(pt2, lc2, B, m2)
    <2>1. \A t \in Threads : pt2[t] \notin {"wait_store", "post_store"}
      BY DEF Moves, Atomic
    <2>2. \A t \in Threads : pt2[t] \notin {"post_take", "post_head", "post_count"}
      BY <1>2 DEF Moves, Inside
    <2>3. \A t \in Threads :
             Sleeps(pt2, B, t) \/ pt2[t] \in {"wait_enqueue", "wait_tail"} =>
               \E u \in Threads : Inside(pt2, B, u)
      BY <1>5 DEF SyncOK, ValueOK, Moves
    <2>4. \A t \in B : t \in Threads /\ pt2[t] \in {"wait_yield", "yielding"}
      BY DEF SyncOK, ValueOK, Moves
    <2>5. m2.value = 1 - m2.wait_count - One(\E t \in Threads : Holds(pt2, B, t))
                   - One(\E t \in Threads : Adds(pt2, t))
      BY <1>0, <1>1, <1>5 DEF SyncOK, ValueOK, One
    <2> QED
      BY <1>5, <2>1, <2>2, <2>3, <2>4, <2>5 DEF SyncOK, ValueOK
  <1>7. RingOK(pt2, lc2, B, m2)
    <2>1. \A t \in Threads : pt2[t] # "wait_tail" /\ pt2[t] # "post_head"
      BY <1>2 DEF Moves, Atomic, Inside
    <2>2. \A p \in Threads : pt2[p] \in {"post_count", "post_ready"} => lc2[p] \in B
      BY DEF SyncOK, RingOK, Moves
    <2>3. m2.tail = Slot(m2, Queued(pt2, m2))
      BY <1>1, <1>3 DEF SyncOK, RingOK, Slot
    <2> QED
      BY <1>3, <1>4, <1>5, <2>1, <2>2, <2>3 DEF SyncOK, RingOK
  <1> QED
    BY <1>1, <1>6, <1>7 DEF SyncOK, m2

(* gt_sem_post wakes the waiter it took, which now holds the mutex.        *)
LEMMA Wakes ==
    ASSUME NEW pt, NEW lc, NEW pt2, NEW lc2, NEW B, NEW m, NEW r \in Threads,
           SyncOK(pt, lc, B, m), Moves(pt, lc, pt2, lc2, r),
           pt[r] = "post_ready", pt2[r] = "user"
    PROVE  SyncOK(pt2, lc2, B \ {lc[r]}, m)
  <1> DEFINE w == lc[r]
             B2 == B \ {w}
  <1>1. w \in B /\ w \in Threads /\ pt[w] \in {"wait_yield", "yielding"} /\ w # r
    BY DEF SyncOK, RingOK, ValueOK
  <1>2. \A t \in Threads \ {r} : ~Inside(pt, B, t)
    BY OnePoster
  <1>3. HandedOver(pt, lc, w) /\ \A t : HandedOver(pt, lc, t) => t = w
    BY <1>2 DEF HandedOver, Inside, Holds
  <1> HIDE DEF w
  <1>4. /\ \A t \in Threads : Holds(pt2, B2, t) <=> t = w
        /\ \A t \in Threads : Inside(pt2, B2, t) <=> t = w
        /\ \A t \in Threads : Sleeps(pt2, B2, t) <=> Sleeps(pt, B, t) /\ t # w
        /\ \A t : ~HandedOver(pt2, lc2, t)
        /\ \A t \in Threads : Adds(pt2, t) <=> Adds(pt, t)
        /\ Holds(pt, B, r)
    BY <1>1, <1>2 DEF Holds, Inside, Sleeps, HandedOver, Adds, Moves, Atomic
  <1>5. Queued(pt2, m) = Queued(pt, m)
    BY DEF Queued, One, Moves
  <1>6. ValueOK(pt2, lc2, B2, m)
    <2>1. \A t \in Threads : pt2[t] \notin {"wait_store", "post_store"}
      BY DEF Moves, Atomic
    <2>2. \A t \in Threads : pt2[t] \notin {"post_take", "post_head", "post_count"}
      BY <1>2 DEF Moves, Inside
    <2>3. \E u \in Threads : Inside(pt2, B2, u)
      BY <1>1, <1>4
    <2>4. \A t \in B2 : t \in Threads /\ pt2[t] \in {"wait_yield", "yielding"}
      BY DEF SyncOK, ValueOK, Moves
    <2>5. m.value = 1 - m.wait_count - One(\E t \in Threads : Holds(pt2, B2, t))
                   - One(\E t \in Threads : Adds(pt2, t))
      BY <1>1, <1>4 DEF SyncOK, ValueOK, One
    <2> QED
      BY <1>4, <2>1, <2>2, <2>3, <2>4, <2>5 DEF ValueOK
  <1>7. RingOK(pt2, lc2, B2, m)
    <2>1. \A t \in Threads : pt2[t] \notin {"wait_tail", "post_head", "post_count", "post_ready"}
      BY <1>2 DEF Moves, Atomic, Inside, Holds
    <2>2. \A k \in 0 .. Queued(pt, m) - 1 :
             /\ Waiter(m, k) \in Threads
             /\ Sleeps(pt2, B2, Waiter(m, k))
      <3>1. \A k \in 0 .. Queued(pt, m) - 1 :
               /\ Waiter(m, k) \in Threads
               /\ Sleeps(pt, B, Waiter(m, k))
               /\ ~HandedOver(pt, lc, Waiter(m, k))
        BY DEF SyncOK, RingOK
      <3> QED
        BY <1>3, <1>4, <3>1
    <2>3. \A t \in Threads : Sleeps(pt2, B2, t) =>
             \E k \in 0 .. Queued(pt, m) - 1 : Waiter(m, k) = t
      BY <1>3, <1>4 DEF SyncOK, RingOK
    <2> QED
      BY <1>4, <1>5, <2>1, <2>2, <2>3 DEF SyncOK, RingOK
  <1> QED
    BY <1>6, <1>7 DEF SyncOK, w

-----------------------------------------------------------------------------
(* The stacks, the switch and the table.                                   *)
AnyLocal == Threads \cup {NoThread} \cup Int \cup [old : Threads, new : Threads]
              \cup [thread : Threads \cup {NoThread}, loaded : Int]
AnyFrame == [at : AllPoints \cup Calls, local : AnyLocal]
Outermost(fs) == fs[Len(fs)]

FramesOK(t, fs) ==
    /\ fs \in Seq(AnyFrame) /\ Len(fs) >= 1
    /\ Outermost(fs).at \in IF t = Main THEN MainPoints ELSE WorkerPoints
    /\ Len(fs) = 1 => fs[1].at \notin Calls
    /\ Len(fs) >= 2 => fs[1].at \in SchedulePoints /\ Outermost(fs).at \in Interrupted
    /\ \A i \in 2 .. Len(fs) - 1 : fs[i].at \in {"pick", "resumed"}

(* A thread that does not run was created and never ran, or is in the      *)
(* gt_switch of its last gt_schedule.                                      *)
SuspendedAt(fs) == fs[1].at = IF Len(fs) = 1 THEN "user" ELSE "resumed"

StackInv ==
    /\ cpu \in [owner : Threads, frames : Seq(AnyFrame)]
    /\ FramesOK(cpu.owner, cpu.frames)
    /\ ctx \in [Threads -> [owner : Threads \cup {NoThread}, frames : Seq(AnyFrame)]]
    /\ ctx[cpu.owner] = Stale
    /\ \A t \in Threads \ {cpu.owner} :
          /\ ctx[t].owner = t
          /\ FramesOK(t, ctx[t].frames)
          /\ SuspendedAt(ctx[t].frames)

(* The locals of gt_schedule, and gt_current, which is ahead of the stack  *)
(* between its assignment and gt_switch.                                   *)
SwitchInv ==
    /\ gt_current \in Threads
    /\ Top.at # "switch" => gt_current = cpu.owner
    /\ Top.at \in {"park", "run", "set_current"} => Top.local \in Threads \ {cpu.owner}
    /\ Top.at \in {"park", "run"} => state[Top.local] = "Ready"
    /\ Top.at = "switch" =>
          gt_current # cpu.owner /\ Top.local = [old |-> cpu.owner, new |-> gt_current]

Chosen ==
    IF Top.at = "run" THEN NoThread
    ELSE IF Top.at = "set_current" THEN Top.local
    ELSE gt_current

Points == [t \in Threads |-> Outermost(Frames(t)).at]
Locals == [t \in Threads |-> Outermost(Frames(t)).local]
Asleep == {t \in Threads : state[t] = "Blocked"}

(* Between a load and its store the semaphore is as before the load.       *)
Stage(at) ==
    IF at = "wait_tail_store" THEN "wait_tail"
    ELSE IF at = "wait_count_store" THEN "wait_count"
    ELSE IF at = "post_head_store" THEN "post_head"
    ELSE IF at = "post_count_store" THEN "post_count"
    ELSE at
Carried(at, local) ==
    IF at \in {"wait_tail", "wait_tail_store", "wait_count", "wait_count_store"} THEN NoThread
    ELSE IF at \in {"post_head_store", "post_count_store"} THEN local.thread
    ELSE local
Stages == [t \in Threads |-> Stage(Points[t])]
Carries == [t \in Threads |-> Carried(Points[t], Locals[t])]

(* What was loaded is what the store will find.                            *)
Loaded(at, local, m) ==
    /\ at = "wait_tail_store" => local = m.tail
    /\ at = "wait_count_store" => local = m.wait_count
    /\ at = "post_head_store" => local = [thread |-> local.thread, loaded |-> m.head]
    /\ at = "post_count_store" => local = [thread |-> local.thread, loaded |-> m.wait_count]
LoadedInv == \A t \in Threads : Loaded(Points[t], Locals[t], mutex)

TableInv ==
    /\ state \in [Threads -> {"Unused", "Running", "Ready", "Blocked"}]
    /\ state[Main] \in {"Running", "Ready"}
    /\ \A t \in Threads : state[t] = "Unused" <=> Points[t] = "returned"
    /\ \A t \in Threads : state[t] = "Running" => t = Chosen
    /\ Top.at \in {"set_current", "switch", "resumed"} => state[Chosen] = "Running"
    /\ Top.at \notin {"run", "set_current", "switch"} => state[cpu.owner] # "Ready"

SyncInv == SyncOK(Stages, Carries, Asleep, mutex) /\ LoadedInv

PhaseInv ==
    /\ phase \in {"run", "exited", "crashed"}
    /\ phase = "exited" => \A t \in Threads \ {Main} : state[t] = "Unused"

PreemptInv == StackInv /\ SwitchInv /\ TableInv /\ SyncInv /\ PhaseInv

-----------------------------------------------------------------------------
(* What the stack operations do.                                           *)

LEMMA Replaces ==
    ASSUME NEW F, NEW fs \in Seq(F), Len(fs) >= 1, NEW f \in F,
           NEW g, g = <<f>> \o Tail(fs)
    PROVE  /\ g \in Seq(F) /\ Len(g) = Len(fs)
           /\ g[1] = f /\ Head(g) = f
           /\ \A i \in 2 .. Len(fs) : g[i] = fs[i]
  <1>1. /\ Tail(fs) \in Seq(F) /\ Len(Tail(fs)) = Len(fs) - 1
        /\ \A i \in 1 .. Len(fs) - 1 : Tail(fs)[i] = fs[i + 1]
    OBVIOUS
  <1>2. <<f>> \in Seq(F) /\ Len(<<f>>) = 1
    OBVIOUS
  <1>3. g \in Seq(F) /\ Len(g) = Len(fs)
    BY <1>1, <1>2
  <1>4. g[1] = f
    BY <1>1, <1>2
  <1>5. \A i \in 2 .. Len(fs) : g[i] = fs[i]
    <2> SUFFICES ASSUME NEW i \in 2 .. Len(fs)
                 PROVE  g[i] = fs[i]
      OBVIOUS
    <2>1. g[i] = Tail(fs)[i - 1]
      BY <1>1, <1>2
    <2>2. i - 1 \in 1 .. Len(fs) - 1 /\ i - 1 + 1 = i
      OBVIOUS
    <2> QED
      BY <1>1, <2>1, <2>2
  <1> QED
    BY <1>3, <1>4, <1>5

LEMMA Pushes ==
    ASSUME NEW F, NEW fs \in Seq(F), Len(fs) >= 1, NEW f \in F,
           NEW g, g = <<f>> \o fs
    PROVE  /\ g \in Seq(F) /\ Len(g) = Len(fs) + 1
           /\ g[1] = f /\ Head(g) = f
           /\ \A i \in 2 .. Len(g) : g[i] = fs[i - 1]
  <1>1. <<f>> \in Seq(F) /\ Len(<<f>>) = 1
    OBVIOUS
  <1> QED
    BY <1>1

LEMMA CallsOver ==
    ASSUME NEW F, NEW fs \in Seq(F), Len(fs) >= 1, NEW f \in F, NEW h \in F,
           NEW g, g = <<f, h>> \o Tail(fs)
    PROVE  /\ g \in Seq(F) /\ Len(g) = Len(fs) + 1
           /\ g[1] = f /\ Head(g) = f /\ g[2] = h
  <1>1. Tail(fs) \in Seq(F) /\ Len(Tail(fs)) = Len(fs) - 1
    OBVIOUS
  <1>2. /\ <<f, h>> \in Seq(F) /\ Len(<<f, h>>) = 2
        /\ <<f, h>>[1] = f /\ <<f, h>>[2] = h
    OBVIOUS
  <1>3. g \in Seq(F) /\ Len(g) = Len(fs) + 1
    BY <1>1, <1>2
  <1>4. g[1] = f /\ g[2] = h
    BY <1>1, <1>2
  <1> QED
    BY <1>3, <1>4

LEMMA Pops ==
    ASSUME NEW F, NEW fs \in Seq(F), Len(fs) >= 2, NEW f \in F,
           NEW ts \in Seq(F), Len(ts) = Len(fs) - 1,
           \A i \in 1 .. Len(fs) - 1 : ts[i] = fs[i + 1],
           NEW g, g = <<f>> \o Tail(ts)
    PROVE  /\ g \in Seq(F) /\ Len(g) = Len(fs) - 1
           /\ g[1] = f /\ Head(g) = f
           /\ \A i \in 2 .. Len(g) : g[i] = fs[i + 1]
  <1>1. Len(ts) >= 1
    OBVIOUS
  <1>2. /\ g \in Seq(F) /\ Len(g) = Len(ts) /\ g[1] = f /\ Head(g) = f
        /\ \A i \in 2 .. Len(ts) : g[i] = ts[i]
    BY <1>1, Replaces
  <1> QED
    BY <1>1, <1>2

-----------------------------------------------------------------------------
(* The stack in use, and where the threads are.                            *)

LEMMA OneOrMore == \A n \in Nat : n >= 1 => n = 1 \/ n >= 2
  OBVIOUS

LEMMA TwoOrMore == \A n \in Nat : n >= 2 => n > 2 \/ n = 2
  OBVIOUS

LEMMA Running ==
    ASSUME StackInv
    PROVE  /\ cpu.owner \in Threads
           /\ cpu.frames \in Seq(AnyFrame) /\ Len(cpu.frames) \in Nat /\ Len(cpu.frames) >= 1
           /\ Top = cpu.frames[1] /\ Top \in AnyFrame
           /\ Len(cpu.frames) >= 2 <=> Top.at \in SchedulePoints
           /\ Len(cpu.frames) = 1 =>
                 /\ Top = Outermost(cpu.frames)
                 /\ Top.at \in MainPoints \cup WorkerPoints
                 /\ Top.at \notin Calls
           /\ Points[cpu.owner] = Outermost(cpu.frames).at
           /\ Locals[cpu.owner] = Outermost(cpu.frames).local
  <1>1. FramesOK(cpu.owner, cpu.frames) /\ cpu.owner \in Threads
    BY DEF StackInv
  <1>2. cpu.frames \in Seq(AnyFrame) /\ Len(cpu.frames) \in Nat /\ Len(cpu.frames) >= 1
    BY <1>1 DEF FramesOK
  <1>3. Top = cpu.frames[1] /\ Top \in AnyFrame
    BY <1>2 DEF Top
  <1>4. Len(cpu.frames) = 1 => /\ Top = Outermost(cpu.frames)
                               /\ Top.at \in MainPoints \cup WorkerPoints
                               /\ Top.at \notin Calls
    BY <1>1, <1>2, <1>3 DEF FramesOK, Outermost
  <1>5. Len(cpu.frames) >= 2 => Top.at \in SchedulePoints
    BY <1>1, <1>3 DEF FramesOK
  <1>6. Len(cpu.frames) = 1 => Top.at \notin SchedulePoints
    BY <1>4 DEF SchedulePoints, MainPoints, WorkerPoints, ClientPoints, WaitPoints, PostPoints
  <1>7. Points[cpu.owner] = Outermost(cpu.frames).at /\ Locals[cpu.owner] = Outermost(cpu.frames).local
    BY <1>1 DEF Points, Locals, Frames
  <1>8. Len(cpu.frames) >= 2 <=> Top.at \in SchedulePoints
    BY <1>2, <1>5, <1>6, OneOrMore
  <1> QED
    BY <1>1, <1>2, <1>3, <1>4, <1>7, <1>8

LEMMA SuspendedPoints ==
    ASSUME StackInv
    PROVE  \A t \in Threads \ {cpu.owner} :
              /\ Points[t] = Outermost(ctx[t].frames).at
              /\ Locals[t] = Outermost(ctx[t].frames).local
              /\ Points[t] \notin Atomic
  <1> SUFFICES ASSUME NEW t \in Threads \ {cpu.owner}
               PROVE  /\ Points[t] = Outermost(ctx[t].frames).at
                      /\ Locals[t] = Outermost(ctx[t].frames).local
                      /\ Points[t] \notin Atomic
    OBVIOUS
  <1>1. FramesOK(t, ctx[t].frames) /\ SuspendedAt(ctx[t].frames)
    BY DEF StackInv
  <1>2. /\ Points[t] = Outermost(ctx[t].frames).at
        /\ Locals[t] = Outermost(ctx[t].frames).local
    BY DEF Points, Locals, Frames
  <1>3. CASE Len(ctx[t].frames) = 1
    BY <1>1, <1>2, <1>3 DEF SuspendedAt, Outermost, Atomic
  <1>4. CASE Len(ctx[t].frames) >= 2
    BY <1>1, <1>2, <1>4 DEF FramesOK, Interrupted, Atomic, SafePoints, ClientPoints, Calls
  <1>5. Len(ctx[t].frames) \in Nat /\ Len(ctx[t].frames) >= 1
    BY <1>1 DEF FramesOK
  <1>6. Len(ctx[t].frames) = 1 \/ Len(ctx[t].frames) >= 2
    BY <1>5, OneOrMore
  <1> QED
    BY <1>2, <1>3, <1>4, <1>6

LEMMA Roles ==
    ASSUME StackInv
    PROVE  /\ Points[Main] \in MainPoints
           /\ \A t \in Threads \ {Main} : Points[t] \in WorkerPoints
  <1> SUFFICES ASSUME NEW t \in Threads
               PROVE  Points[t] \in IF t = Main THEN MainPoints ELSE WorkerPoints
    BY Sizes DEF Main
  <1>1. CASE t = cpu.owner
    BY <1>1, Running DEF StackInv, FramesOK
  <1>2. CASE t # cpu.owner
    BY <1>2, SuspendedPoints DEF StackInv, FramesOK
  <1> QED
    BY <1>1, <1>2

LEMMA SameStack ==
    ASSUME StackInv, NEW g, cpu' = [cpu EXCEPT !.frames = g], ctx' = ctx,
           FramesOK(cpu.owner, g)
    PROVE  /\ StackInv'
           /\ cpu'.owner = cpu.owner /\ cpu'.frames = g
           /\ Points'[cpu.owner] = Outermost(g).at
           /\ Locals'[cpu.owner] = Outermost(g).local
           /\ \A t \in Threads \ {cpu.owner} : Points'[t] = Points[t] /\ Locals'[t] = Locals[t]
  <1>1. cpu'.owner = cpu.owner /\ cpu'.frames = g /\ cpu.owner \in Threads
        /\ cpu' \in [owner : Threads, frames : Seq(AnyFrame)]
    BY DEF StackInv, FramesOK
  <1>2. StackInv'
    BY <1>1 DEF StackInv
  <1>3. /\ Points'[cpu.owner] = Outermost(g).at
        /\ Locals'[cpu.owner] = Outermost(g).local
    BY <1>1 DEF Points, Locals, Frames
  <1>4. \A t \in Threads \ {cpu.owner} : Points'[t] = Points[t] /\ Locals'[t] = Locals[t]
    BY <1>1 DEF Points, Locals, Frames
  <1> QED
    BY <1>1, <1>2, <1>3, <1>4

LEMMA SamePoints ==
    ASSUME StackInv, Points'[cpu.owner] = Points[cpu.owner],
           Locals'[cpu.owner] = Locals[cpu.owner],
           \A t \in Threads \ {cpu.owner} : Points'[t] = Points[t] /\ Locals'[t] = Locals[t]
    PROVE  Points' = Points /\ Locals' = Locals
  <1>1. \A t \in Threads : Points'[t] = Points[t] /\ Locals'[t] = Locals[t]
    OBVIOUS
  <1>2. Points = [t \in Threads |-> Points[t]] /\ Locals = [t \in Threads |-> Locals[t]]
    BY DEF Points, Locals
  <1>3. Points' = [t \in Threads |-> Points'[t]] /\ Locals' = [t \in Threads |-> Locals'[t]]
    BY DEF Points, Locals
  <1> QED
    BY <1>1, <1>2, <1>3

LEMMA FrameIsOne ==
    ASSUME NEW at \in AllPoints \cup Calls, NEW local \in AnyLocal
    PROVE  Frame(at, local) \in AnyFrame /\ Frame(at, local).at = at
           /\ Frame(at, local).local = local
  BY DEF Frame, AnyFrame

LEMMA PointSets ==
    /\ SchedulePoints \subseteq AllPoints
    /\ MainPoints \subseteq AllPoints \cup Calls
    /\ WorkerPoints \subseteq AllPoints \cup Calls
    /\ MainPoints \cap WorkerPoints = {}
    /\ SchedulePoints \cap (MainPoints \cup WorkerPoints) = {}
    /\ Calls \cap SchedulePoints = {}
    /\ NoThread \in AnyLocal
  BY DEF AllPoints, SchedulePoints, MainPoints, WorkerPoints, Calls, ClientPoints, WaitPoints,
         PostPoints, AnyLocal

(* A step of a client's call.                                              *)
LEMMA ClientMove ==
    ASSUME StackInv, SwitchInv, NEW from, NEW to, NEW x \in AnyLocal,
           from \in WorkerPoints, to \in WorkerPoints \ Calls,
           Goto(from, to, x), ctx' = ctx
    PROVE  /\ StackInv' /\ cpu'.owner = cpu.owner
           /\ Top.at = from /\ Top'.at = to
           /\ Moves(Points, Locals, Points', Locals', cpu.owner)
           /\ Points[cpu.owner] = from /\ Points'[cpu.owner] = to
           /\ Locals[cpu.owner] = Top.local /\ Locals'[cpu.owner] = x
           /\ cpu.owner \in Threads \ {Main} /\ gt_current = cpu.owner
  <1> DEFINE fs == cpu.frames
             g == <<Frame(to, x)>> \o Tail(fs)
  <1>1. Top.at = from /\ cpu' = [cpu EXCEPT !.frames = g]
    BY DEF Goto, At
  <1>2. from \notin SchedulePoints /\ to \notin SchedulePoints /\ to \in AllPoints \cup Calls
    BY PointSets
  <1>3. Len(fs) = 1 /\ fs \in Seq(AnyFrame) /\ Top = Outermost(fs) /\ cpu.owner \in Threads
    BY <1>1, <1>2, Running, OneOrMore
  <1>4. Points[cpu.owner] = from /\ Locals[cpu.owner] = Top.local
    BY <1>1, <1>3, Running
  <1>5. cpu.owner # Main
    BY <1>4, Roles, PointSets
  <1>6. /\ g \in Seq(AnyFrame) /\ Len(g) = 1 /\ g[1] = Frame(to, x) /\ Head(g) = Frame(to, x)
    <2>1. Frame(to, x) \in AnyFrame /\ Len(fs) >= 1
      BY <1>2, <1>3, FrameIsOne
    <2>2. fs \in Seq(AnyFrame)
      BY <1>3
    <2>3. g \in Seq(AnyFrame) /\ Len(g) = Len(fs) /\ g[1] = Frame(to, x) /\ Head(g) = Frame(to, x)
      BY <2>1, <2>2, Replaces
    <2> QED
      BY <1>3, <2>3
  <1> HIDE DEF g
  <1>7. Outermost(g) = Frame(to, x) /\ Frame(to, x).at = to /\ Frame(to, x).local = x
    BY <1>2, <1>6, FrameIsOne DEF Outermost
  <1>8. FramesOK(cpu.owner, g)
    BY <1>5, <1>6, <1>7 DEF FramesOK
  <1>9. /\ StackInv' /\ cpu'.owner = cpu.owner /\ cpu'.frames = g
        /\ Points'[cpu.owner] = to /\ Locals'[cpu.owner] = x
        /\ \A t \in Threads \ {cpu.owner} : Points'[t] = Points[t] /\ Locals'[t] = Locals[t]
    BY <1>1, <1>7, <1>8, SameStack
  <1>10. Top'.at = to
    BY <1>6, <1>7, <1>9 DEF Top
  <1>11. Moves(Points, Locals, Points', Locals', cpu.owner)
    BY <1>9, SuspendedPoints DEF Moves
  <1>12. gt_current = cpu.owner
    BY <1>1, <1>2 DEF SwitchInv, SchedulePoints
  <1> QED
    BY <1>1, <1>3, <1>4, <1>5, <1>9, <1>10, <1>11, <1>12

(* A call of gt_schedule.                                                  *)
LEMMA CallMove ==
    ASSUME StackInv, SwitchInv, NEW from, NEW to,
           from \in MainPoints \cup WorkerPoints, to \in Calls,
           from \in MainPoints <=> to \in MainPoints,
           Call(from, to), ctx' = ctx
    PROVE  /\ StackInv' /\ cpu'.owner = cpu.owner
           /\ Top.at = from /\ Top'.at = "pick"
           /\ Moves(Points, Locals, Points', Locals', cpu.owner)
           /\ Points[cpu.owner] = from /\ Points'[cpu.owner] = to
           /\ cpu.owner \in Threads /\ gt_current = cpu.owner
  <1> DEFINE fs == cpu.frames
             g == <<Frame("pick", NoThread), Frame(to, NoThread)>> \o Tail(fs)
  <1>1. Top.at = from /\ cpu' = [cpu EXCEPT !.frames = g]
    BY DEF Call, At
  <1>2. from \notin SchedulePoints /\ to \notin SchedulePoints
    BY PointSets
  <1>3. Len(fs) = 1 /\ fs \in Seq(AnyFrame) /\ Top = Outermost(fs) /\ cpu.owner \in Threads
    BY <1>1, <1>2, Running, OneOrMore
  <1>4. Points[cpu.owner] = from
    BY <1>1, <1>3, Running
  <1>5. to \in IF cpu.owner = Main THEN MainPoints ELSE WorkerPoints
    <2>1. cpu.owner = Main <=> to \in MainPoints
      BY <1>3, <1>4, Roles, PointSets
    <2>2. to \in MainPoints \cup WorkerPoints
      BY DEF Calls, MainPoints, WorkerPoints
    <2> QED
      BY <2>1, <2>2
  <1>6. Frame("pick", NoThread) \in AnyFrame /\ Frame(to, NoThread) \in AnyFrame
    BY PointSets, FrameIsOne DEF SchedulePoints
  <1>7. /\ g \in Seq(AnyFrame) /\ Len(g) = 2 /\ g[1] = Frame("pick", NoThread)
        /\ Head(g) = Frame("pick", NoThread) /\ g[2] = Frame(to, NoThread)
    <2> DEFINE f == Frame("pick", NoThread)
               h == Frame(to, NoThread)
    <2>1. f \in AnyFrame /\ h \in AnyFrame /\ g = <<f, h>> \o Tail(fs)
      BY <1>6
    <2> HIDE DEF f, h, g, fs
    <2>2. fs \in Seq(AnyFrame) /\ Len(fs) >= 1
      BY <1>3 DEF fs
    <2>3. /\ g \in Seq(AnyFrame) /\ Len(g) = Len(fs) + 1
          /\ g[1] = f /\ Head(g) = f /\ g[2] = h
      BY <2>1, <2>2, CallsOver
    <2> QED
      BY <1>3, <2>3 DEF f, h, fs
  <1> HIDE DEF g
  <1>8. Outermost(g).at = to /\ g[1].at = "pick" /\ Head(g).at = "pick"
    BY <1>7 DEF Outermost, Frame
  <1>9. FramesOK(cpu.owner, g)
    BY <1>5, <1>7, <1>8 DEF FramesOK, SchedulePoints, Interrupted
  <1>10. /\ StackInv' /\ cpu'.owner = cpu.owner /\ cpu'.frames = g
         /\ Points'[cpu.owner] = to
         /\ \A t \in Threads \ {cpu.owner} : Points'[t] = Points[t] /\ Locals'[t] = Locals[t]
    BY <1>1, <1>8, <1>9, SameStack
  <1>11. Top'.at = "pick"
    BY <1>8, <1>10 DEF Top
  <1>12. Moves(Points, Locals, Points', Locals', cpu.owner)
    BY <1>10, SuspendedPoints DEF Moves
  <1>13. gt_current = cpu.owner
    BY <1>1, <1>2 DEF SwitchInv, SchedulePoints
  <1> QED
    BY <1>1, <1>3, <1>4, <1>10, <1>11, <1>12, <1>13

(* A step of gt_schedule on one stack.                                     *)
LEMMA ScheduleMove ==
    ASSUME StackInv, NEW from \in SchedulePoints, NEW to \in SchedulePoints, NEW x \in AnyLocal,
           Goto(from, to, x), ctx' = ctx
    PROVE  /\ StackInv' /\ cpu'.owner = cpu.owner
           /\ Top.at = from /\ Top'.at = to /\ Top'.local = x
           /\ Points' = Points /\ Locals' = Locals
  <1> DEFINE fs == cpu.frames
             g == <<Frame(to, x)>> \o Tail(fs)
  <1>1. Top.at = from /\ cpu' = [cpu EXCEPT !.frames = g]
    BY DEF Goto, At
  <1>2. Len(fs) >= 2 /\ fs \in Seq(AnyFrame) /\ cpu.owner \in Threads /\ Len(fs) \in Nat
    BY <1>1, Running
  <1>3. Frame(to, x) \in AnyFrame /\ Frame(to, x).at = to /\ Frame(to, x).local = x
    BY PointSets, FrameIsOne
  <1>4. /\ g \in Seq(AnyFrame) /\ Len(g) = Len(fs) /\ g[1] = Frame(to, x)
        /\ Head(g) = Frame(to, x) /\ \A i \in 2 .. Len(fs) : g[i] = fs[i]
    BY <1>2, <1>3, Replaces
  <1> HIDE DEF g
  <1>5. Outermost(g) = Outermost(fs)
    BY <1>2, <1>4 DEF Outermost
  <1>6. FramesOK(cpu.owner, g)
    <2>1. FramesOK(cpu.owner, fs)
      BY DEF StackInv
    <2>2. \A i \in 2 .. Len(fs) - 1 : g[i] = fs[i]
      BY <1>2, <1>4
    <2> QED
      BY <1>2, <1>3, <1>4, <1>5, <2>1, <2>2 DEF FramesOK
  <1>7. /\ StackInv' /\ cpu'.owner = cpu.owner /\ cpu'.frames = g
        /\ Points'[cpu.owner] = Outermost(fs).at /\ Locals'[cpu.owner] = Outermost(fs).local
        /\ \A t \in Threads \ {cpu.owner} : Points'[t] = Points[t] /\ Locals'[t] = Locals[t]
    BY <1>1, <1>5, <1>6, SameStack
  <1>8. Top'.at = to /\ Top'.local = x
    BY <1>3, <1>4, <1>7 DEF Top
  <1>9. Points' = Points /\ Locals' = Locals
    BY <1>7, Running, SamePoints
  <1> QED
    BY <1>1, <1>7, <1>8, <1>9

(* A handler starts.                                                       *)
LEMMA AlarmMove ==
    ASSUME StackInv, Alarm, Top.at \in SafePoints
    PROVE  /\ StackInv' /\ cpu'.owner = cpu.owner
           /\ Top'.at = "pick"
           /\ Points' = Points /\ Locals' = Locals
  <1> DEFINE fs == cpu.frames
             g == <<Frame("pick", NoThread)>> \o fs
  <1>1. Top.at \in SafePoints /\ cpu' = [cpu EXCEPT !.frames = g] /\ ctx' = ctx
    BY DEF Alarm, Unchanged
  <1>2. /\ Len(fs) >= 1 /\ fs \in Seq(AnyFrame) /\ cpu.owner \in Threads /\ Len(fs) \in Nat
        /\ Top = fs[1]
    BY Running
  <1>3. Frame("pick", NoThread) \in AnyFrame /\ Frame("pick", NoThread).at = "pick"
    BY PointSets, FrameIsOne DEF SchedulePoints
  <1>4. /\ g \in Seq(AnyFrame) /\ Len(g) = Len(fs) + 1 /\ g[1].at = "pick"
        /\ Head(g).at = "pick" /\ \A i \in 2 .. Len(g) : g[i] = fs[i - 1]
    BY <1>2, <1>3, Pushes
  <1> HIDE DEF g
  <1>5. Outermost(g) = Outermost(fs)
    <2>1. Len(g) \in 2 .. Len(g) /\ Len(g) - 1 = Len(fs)
      BY <1>2, <1>4
    <2> QED
      BY <1>4, <2>1 DEF Outermost
  <1>6. FramesOK(cpu.owner, g)
    <2>1. FramesOK(cpu.owner, fs)
      BY DEF StackInv
    <2>2. Outermost(fs).at \in Interrupted
      <3>1. CASE Len(fs) = 1
        <4>1. Top = Outermost(fs) /\ Top.at \notin {"pick", "resumed"}
          BY <3>1, Running, PointSets DEF SchedulePoints
        <4> QED
          BY <1>1, <4>1 DEF Interrupted
      <3>2. CASE Len(fs) >= 2
        BY <2>1, <3>2 DEF FramesOK
      <3> QED
        BY <1>2, <3>1, <3>2, OneOrMore
    <2>3. \A i \in 2 .. Len(g) - 1 : g[i].at \in {"pick", "resumed"}
      <3> SUFFICES ASSUME NEW i \in 2 .. Len(g) - 1
                   PROVE  g[i].at \in {"pick", "resumed"}
        OBVIOUS
      <3>1. g[i] = fs[i - 1] /\ i - 1 \in 1 .. Len(fs) - 1 /\ Len(fs) >= 2
        BY <1>2, <1>4
      <3>2. CASE i - 1 = 1
        <4>1. Top.at \in SchedulePoints
          BY <3>1, Running
        <4>2. Top.at \in {"pick", "resumed"}
          BY <1>1, <4>1 DEF SafePoints, SchedulePoints, ClientPoints
        <4> QED
          BY <1>2, <3>1, <3>2, <4>2
      <3>3. CASE i - 1 # 1
        <4>1. i - 1 \in 2 .. Len(fs) - 1
          BY <1>2, <3>1, <3>3
        <4> QED
          BY <2>1, <3>1, <4>1 DEF FramesOK
      <3> QED
        BY <3>2, <3>3
    <2> QED
      BY <1>2, <1>4, <1>5, <2>1, <2>2, <2>3 DEF FramesOK, SchedulePoints
  <1>7. /\ StackInv' /\ cpu'.owner = cpu.owner /\ cpu'.frames = g
        /\ Points'[cpu.owner] = Outermost(fs).at /\ Locals'[cpu.owner] = Outermost(fs).local
        /\ \A t \in Threads \ {cpu.owner} : Points'[t] = Points[t] /\ Locals'[t] = Locals[t]
    BY <1>1, <1>5, <1>6, SameStack
  <1>8. Top'.at = "pick"
    BY <1>4, <1>7 DEF Top
  <1>9. Points' = Points /\ Locals' = Locals
    BY <1>7, Running, SamePoints
  <1> QED
    BY <1>1, <1>7, <1>8, <1>9

LEMMA Continuations ==
    ASSUME NEW at
    PROVE  /\ at = "looping" => Continuation(at) = "loop"
           /\ at = "yielding" => Continuation(at) = "critical"
           /\ at \notin {"looping", "yielding"} => Continuation(at) = at
  BY DEF Continuation

LEMMA FrameAt ==
    ASSUME NEW fs \in Seq(AnyFrame), NEW i \in 1 .. Len(fs)
    PROVE  /\ fs[i] \in AnyFrame /\ fs[i].local \in AnyLocal /\ fs[i].at \in AllPoints \cup Calls
  <1>1. fs[i] \in AnyFrame
    OBVIOUS
  <1> QED
    BY <1>1 DEF AnyFrame

LEMMA PoppedFrames ==
    ASSUME NEW fs \in Seq(AnyFrame), Len(fs) >= 2,
           Continuation(fs[2].at) \in AllPoints \cup Calls,
           NEW g, g = Pop(fs)
    PROVE  /\ g \in Seq(AnyFrame) /\ Len(g) = Len(fs) - 1
           /\ g[1].at = Continuation(fs[2].at) /\ g[1].local = fs[2].local
           /\ Head(g) = g[1]
           /\ \A i \in 2 .. Len(g) : g[i] = fs[i + 1]
  <1>1. fs[2].local \in AnyLocal
    <2>1. 2 \in 1 .. Len(fs)
      OBVIOUS
    <2> QED
      BY <2>1, FrameAt
  <1>2. PICK f : f = Frame(Continuation(fs[2].at), fs[2].local)
    OBVIOUS
  <1>3. f \in AnyFrame /\ f.at = Continuation(fs[2].at) /\ f.local = fs[2].local
    BY <1>1, <1>2, FrameIsOne
  <1>4. PICK ts : ts = Tail(fs)
    OBVIOUS
  <1>5. /\ ts \in Seq(AnyFrame) /\ Len(ts) = Len(fs) - 1
        /\ \A i \in 1 .. Len(fs) - 1 : ts[i] = fs[i + 1]
    BY <1>4
  <1>6. PICK h : h = <<f>> \o Tail(ts)
    OBVIOUS
  <1>7. /\ h \in Seq(AnyFrame) /\ Len(h) = Len(fs) - 1
        /\ h[1] = f /\ Head(h) = f
        /\ \A i \in 2 .. Len(h) : h[i] = fs[i + 1]
    <2>1. f \in AnyFrame
      BY <1>3
    <2> QED
      BY <1>5, <1>6, <2>1, Pops
  <1>8. g = h
    BY <1>2, <1>4, <1>6 DEF Pop
  <1> QED
    BY <1>3, <1>7, <1>8

(* gt_schedule returns to a call, or to what an alarm interrupted.         *)
LEMMA PopToBase ==
    ASSUME NEW t \in Threads, NEW fs, FramesOK(t, fs), Len(fs) \in Nat,
           Len(fs) >= 2, ~(Len(fs) > 2), fs[2].at # "returned",
           NEW g, g = Pop(fs)
    PROVE  /\ FramesOK(t, g) /\ Outermost(g) = Head(g)
           /\ Head(g).at = Continuation(fs[2].at)
           /\ Outermost(fs) = fs[2] /\ Outermost(g).local = fs[2].local
           /\ fs[2].at \in Interrupted
           /\ \/ fs[2].at \in {"looping", "yielding"}
              \/ fs[2].at \notin Calls /\ Continuation(fs[2].at) = fs[2].at
  <1>1. fs \in Seq(AnyFrame) /\ Outermost(fs) = fs[2]
    <2>1. Len(fs) = 2
      BY TwoOrMore
    <2> QED
      BY <2>1 DEF FramesOK, Outermost
  <1>2. /\ fs[2].at \in Interrupted
        /\ fs[2].at \in IF t = Main THEN MainPoints ELSE WorkerPoints
    BY <1>1 DEF FramesOK
  <1>3. PICK at : at = Continuation(fs[2].at)
    OBVIOUS
  <1>4. /\ at \in IF t = Main THEN MainPoints ELSE WorkerPoints
        /\ at \notin Calls
        /\ \/ fs[2].at \in {"looping", "yielding"}
           \/ fs[2].at \notin Calls /\ at = fs[2].at
    <2>1. CASE fs[2].at = "looping"
      BY <1>2, <1>3, <2>1, Continuations
      DEF MainPoints, WorkerPoints, ClientPoints, WaitPoints, PostPoints, Calls
    <2>2. CASE fs[2].at = "yielding"
      BY <1>2, <1>3, <2>2, Continuations
      DEF MainPoints, WorkerPoints, ClientPoints, WaitPoints, PostPoints, Calls
    <2>3. CASE fs[2].at \notin Calls
      <3>1. at = fs[2].at
        BY <1>3, <2>3, Continuations DEF Calls
      <3> QED
        BY <1>2, <2>3, <3>1
    <2> QED
      BY <2>1, <2>2, <2>3 DEF Calls
  <1>5. at \in AllPoints \cup Calls
    BY <1>4, PointSets
  <1>6. /\ g \in Seq(AnyFrame) /\ Len(g) = Len(fs) - 1
        /\ g[1].at = at /\ g[1].local = fs[2].local /\ Head(g) = g[1]
    BY <1>1, <1>3, <1>5, PoppedFrames
  <1>7. Len(g) = 1 /\ Outermost(g) = g[1]
    <2>1. Len(fs) = 2
      BY TwoOrMore
    <2> QED
      BY <1>6, <2>1 DEF Outermost
  <1>8. FramesOK(t, g)
    <2>1. g[1].at \notin Calls /\ Outermost(g).at \in IF t = Main THEN MainPoints ELSE WorkerPoints
      BY <1>4, <1>6, <1>7
    <2>2. Len(g) >= 1 /\ ~(Len(g) >= 2) /\ 2 .. Len(g) - 1 = {}
      BY <1>7
    <2> QED
      BY <1>6, <2>1, <2>2 DEF FramesOK
  <1> QED
    BY <1>1, <1>2, <1>3, <1>4, <1>6, <1>7, <1>8

(* A handler returns to the gt_schedule it interrupted.                    *)
LEMMA PopToHandler ==
    ASSUME NEW t \in Threads, NEW fs, FramesOK(t, fs), Len(fs) \in Nat, Len(fs) > 2,
           NEW g, g = Pop(fs)
    PROVE  /\ FramesOK(t, g) /\ Outermost(g) = Outermost(fs)
           /\ Head(g).at = fs[2].at
           /\ fs[2].at \in {"pick", "resumed"}
  <1>1. fs \in Seq(AnyFrame)
    BY DEF FramesOK
  <1>2. fs[2].at \in {"pick", "resumed"}
    <2>1. 2 \in 2 .. Len(fs) - 1
      OBVIOUS
    <2> QED
      BY <2>1 DEF FramesOK
  <1>3. Continuation(fs[2].at) = fs[2].at /\ fs[2].at \in AllPoints \cup Calls
    BY <1>2, Continuations, PointSets DEF SchedulePoints
  <1>4. /\ g \in Seq(AnyFrame) /\ Len(g) = Len(fs) - 1
        /\ g[1].at = fs[2].at /\ Head(g) = g[1]
        /\ \A i \in 2 .. Len(g) : g[i] = fs[i + 1]
    BY <1>1, <1>3, PoppedFrames
  <1>5. Outermost(g) = Outermost(fs)
    <2>1. Len(g) \in 2 .. Len(g) /\ Len(g) + 1 = Len(fs)
      BY <1>4
    <2> QED
      BY <1>4, <2>1 DEF Outermost
  <1>6. FramesOK(t, g)
    <2>1. \A i \in 2 .. Len(g) - 1 : g[i].at \in {"pick", "resumed"}
      <3> SUFFICES ASSUME NEW i \in 2 .. Len(g) - 1
                   PROVE  g[i].at \in {"pick", "resumed"}
        OBVIOUS
      <3>1. g[i] = fs[i + 1] /\ i + 1 \in 2 .. Len(fs) - 1
        BY <1>4
      <3> QED
        BY <3>1 DEF FramesOK
    <2>2. Len(g) >= 2 /\ Len(g) # 1 /\ Len(g) >= 1
      BY <1>4
    <2>3. g[1].at \in SchedulePoints
      BY <1>2, <1>4 DEF SchedulePoints
    <2>4. /\ Outermost(fs).at \in Interrupted
          /\ Outermost(fs).at \in IF t = Main THEN MainPoints ELSE WorkerPoints
      BY DEF FramesOK
    <2> QED
      BY <1>4, <1>5, <2>1, <2>2, <2>3, <2>4 DEF FramesOK
  <1> QED
    BY <1>2, <1>4, <1>5, <1>6

(* gt_schedule returns to the frame below.                                 *)
LEMMA PopMove ==
    ASSUME StackInv, Len(cpu.frames) >= 2, Caller # "returned",
           cpu' = [cpu EXCEPT !.frames = Pop(@)], ctx' = ctx
    PROVE  /\ StackInv' /\ cpu'.owner = cpu.owner
           /\ Caller \in Interrupted \cup {"pick", "resumed"}
           /\ Top'.at = Continuation(Caller)
           /\ \/ /\ Caller \in {"looping", "yielding"}
                 /\ Moves(Points, Locals, Points', Locals', cpu.owner)
                 /\ Points[cpu.owner] = Caller /\ Points'[cpu.owner] = Continuation(Caller)
              \/ /\ Caller \notin Calls /\ Continuation(Caller) = Caller
                 /\ Points' = Points /\ Locals' = Locals
  <1>1. PICK fs : fs = cpu.frames
    OBVIOUS
  <1>2. PICK g : g = Pop(fs)
    OBVIOUS
  <1>3. /\ Len(fs) \in Nat /\ Len(fs) >= 2 /\ cpu.owner \in Threads /\ FramesOK(cpu.owner, fs)
        /\ Points[cpu.owner] = Outermost(fs).at /\ Locals[cpu.owner] = Outermost(fs).local
    BY <1>1, Running DEF StackInv
  <1>4. cpu' = [cpu EXCEPT !.frames = g] /\ Caller = fs[2].at
    BY <1>1, <1>2 DEF Caller
  <1>5. CASE ~(Len(fs) > 2)
    <2>1. /\ FramesOK(cpu.owner, g) /\ Outermost(g) = Head(g)
          /\ Head(g).at = Continuation(Caller)
          /\ Outermost(fs).at = Caller /\ Outermost(g).local = Outermost(fs).local
          /\ Caller \in Interrupted
          /\ \/ Caller \in {"looping", "yielding"}
             \/ Caller \notin Calls /\ Continuation(Caller) = Caller
      BY <1>2, <1>3, <1>4, <1>5, PopToBase
    <2>2. /\ StackInv' /\ cpu'.owner = cpu.owner /\ cpu'.frames = g
          /\ Points'[cpu.owner] = Continuation(Caller)
          /\ Locals'[cpu.owner] = Outermost(fs).local
          /\ \A t \in Threads \ {cpu.owner} : Points'[t] = Points[t] /\ Locals'[t] = Locals[t]
      BY <1>4, <2>1, SameStack
    <2>3. Top'.at = Continuation(Caller)
      BY <2>1, <2>2 DEF Top
    <2>4. Moves(Points, Locals, Points', Locals', cpu.owner)
      BY <2>2, SuspendedPoints DEF Moves
    <2>5. Continuation(Caller) = Caller => Points' = Points /\ Locals' = Locals
      BY <1>3, <2>1, <2>2, SamePoints
    <2> QED
      BY <1>3, <2>1, <2>2, <2>3, <2>4, <2>5
  <1>6. CASE Len(fs) > 2
    <2>1. /\ FramesOK(cpu.owner, g) /\ Outermost(g) = Outermost(fs)
          /\ Head(g).at = Caller /\ Caller \in {"pick", "resumed"}
      BY <1>2, <1>3, <1>4, <1>6, PopToHandler
    <2>2. /\ StackInv' /\ cpu'.owner = cpu.owner /\ cpu'.frames = g
          /\ Points'[cpu.owner] = Outermost(fs).at /\ Locals'[cpu.owner] = Outermost(fs).local
          /\ \A t \in Threads \ {cpu.owner} : Points'[t] = Points[t] /\ Locals'[t] = Locals[t]
      BY <1>4, <2>1, SameStack
    <2>3. Top'.at = Caller /\ Continuation(Caller) = Caller /\ Caller \notin Calls
      BY <2>1, <2>2, Continuations DEF Top, Calls
    <2>4. Points' = Points /\ Locals' = Locals
      BY <1>3, <2>2, SamePoints
    <2> QED
      BY <2>1, <2>2, <2>3, <2>4
  <1> QED
    BY <1>5, <1>6

(* gt_switch: the stack of the old thread is saved and the other's goes on. *)
LEMMA SwitchMove ==
    ASSUME StackInv, SwitchInv, gt_switch
    PROVE  /\ StackInv' /\ cpu'.owner = gt_current
           /\ Top.at = "switch" /\ Top'.at \in {"user", "resumed"}
           /\ Points' = Points /\ Locals' = Locals
           /\ phase' = phase
  <1> DEFINE old == cpu.owner
             new == gt_current
             f == Frame("resumed", NoThread)
             g == <<f>> \o Tail(cpu.frames)
             fs == cpu.frames
  <1>1. /\ Top.at = "switch" /\ Old = old /\ Top.local.new = new
        /\ old \in Threads /\ new \in Threads /\ new # old
    BY DEF gt_switch, At, SwitchInv, StackInv, Old
  <1>2. ctx[new].owner = new /\ ctx[new] # Stale
    BY <1>1, Sizes DEF StackInv, Stale, Stack
  <1>3. Suspended = [cpu EXCEPT !.frames = g]
    BY DEF Suspended
  <1>4. /\ [ctx EXCEPT ![Old] = Suspended][new] = ctx[new]
        /\ cpu' = ctx[new] /\ phase' = phase
        /\ ctx' = [[ctx EXCEPT ![old] = Suspended] EXCEPT ![new] = Stale]
    BY <1>1, <1>2 DEF gt_switch, StackInv
  <1>5. /\ Suspended.owner = old /\ Suspended.frames = g
        /\ ctx'[new] = Stale /\ ctx'[old] = Suspended
        /\ \A t \in Threads \ {old, new} : ctx'[t] = ctx[t]
    BY <1>1, <1>3, <1>4 DEF StackInv
  <1>6. /\ fs \in Seq(AnyFrame) /\ Len(fs) >= 2 /\ Len(fs) \in Nat /\ FramesOK(old, fs)
    BY <1>1, Running DEF StackInv, SchedulePoints
  <1>7. f \in AnyFrame /\ f.at = "resumed"
    BY PointSets, FrameIsOne DEF SchedulePoints
  <1> HIDE DEF f
  <1>8. /\ g \in Seq(AnyFrame) /\ Len(g) = Len(fs) /\ g[1] = f
        /\ \A i \in 2 .. Len(fs) : g[i] = fs[i]
    BY <1>6, <1>7, Replaces
  <1> HIDE DEF g
  <1>9. Outermost(g) = Outermost(fs)
    BY <1>6, <1>8 DEF Outermost
  <1>10. FramesOK(old, g) /\ SuspendedAt(g)
    <2>1. \A i \in 2 .. Len(fs) - 1 : g[i] = fs[i]
      BY <1>6, <1>8
    <2>2. FramesOK(old, g)
      BY <1>6, <1>7, <1>8, <1>9, <2>1 DEF FramesOK, SchedulePoints
    <2>3. SuspendedAt(g)
      BY <1>6, <1>7, <1>8 DEF SuspendedAt
    <2> QED
      BY <2>2, <2>3
  <1>11. cpu'.owner = new /\ cpu'.frames = ctx[new].frames
    BY <1>2, <1>4
  <1>12. /\ FramesOK(new, ctx[new].frames) /\ SuspendedAt(ctx[new].frames)
         /\ ctx[new] \in [owner : Threads \cup {NoThread}, frames : Seq(AnyFrame)]
    BY <1>1 DEF StackInv
  <1>13. StackInv'
    <2>1. cpu' \in [owner : Threads, frames : Seq(AnyFrame)]
      BY <1>1, <1>4, <1>11, <1>12
    <2>2. ctx' \in [Threads -> [owner : Threads \cup {NoThread}, frames : Seq(AnyFrame)]]
      <3>1. Suspended \in [owner : Threads \cup {NoThread}, frames : Seq(AnyFrame)]
        BY <1>3, <1>8 DEF StackInv
      <3>2. Stale \in [owner : Threads \cup {NoThread}, frames : Seq(AnyFrame)]
        BY DEF Stale, Stack
      <3> QED
        BY <1>4, <3>1, <3>2 DEF StackInv
    <2>3. \A t \in Threads \ {new} :
             /\ ctx'[t].owner = t
             /\ FramesOK(t, ctx'[t].frames)
             /\ SuspendedAt(ctx'[t].frames)
      <3> SUFFICES ASSUME NEW t \in Threads \ {new}
                   PROVE  /\ ctx'[t].owner = t
                          /\ FramesOK(t, ctx'[t].frames)
                          /\ SuspendedAt(ctx'[t].frames)
        OBVIOUS
      <3>1. CASE t = old
        BY <1>5, <1>10, <3>1
      <3>2. CASE t # old
        BY <1>5, <3>2 DEF StackInv
      <3> QED
        BY <3>1, <3>2
    <2> HIDE DEF new, old
    <2> QED
      BY <1>5, <1>11, <1>12, <2>1, <2>2, <2>3 DEF StackInv
  <1>14. \A t \in Threads : Outermost(Frames(t))' = Outermost(Frames(t))
    <2> SUFFICES ASSUME NEW t \in Threads
                 PROVE  Outermost(Frames(t))' = Outermost(Frames(t))
      OBVIOUS
    <2>1. CASE t = new
      BY <1>1, <1>11, <2>1 DEF Frames, Outermost
    <2>2. CASE t = old
      BY <1>1, <1>5, <1>9, <1>11, <2>2 DEF Frames, Outermost
    <2>3. CASE t \notin {old, new}
      BY <1>1, <1>5, <1>11, <2>3 DEF Frames, Outermost
    <2> QED
      BY <2>1, <2>2, <2>3
  <1>15. Points' = Points /\ Locals' = Locals
    BY <1>14 DEF Points, Locals
  <1>16. Top'.at \in {"user", "resumed"}
    <2>1. Top' = ctx[new].frames[1]
      BY <1>11, <1>12 DEF Top, FramesOK
    <2> QED
      BY <1>12, <2>1 DEF SuspendedAt
  <1> QED
    BY <1>1, <1>4, <1>11, <1>13, <1>15, <1>16

-----------------------------------------------------------------------------
(* The steps of gt_sem_wait and gt_sem_post.                               *)

LEMMA StagesMove ==
    ASSUME NEW r \in Threads, Moves(Points, Locals, Points', Locals', r)
    PROVE  Moves(Stages, Carries, Stages', Carries', r)
  <1>1. \A t \in Threads \ {r} : Stages'[t] = Stages[t] /\ Carries'[t] = Carries[t]
    BY DEF Moves, Stages, Carries
  <1>2. \A t \in Threads \ {r} : Stages[t] \notin Atomic
    <2> SUFFICES ASSUME NEW t \in Threads \ {r}
                 PROVE  Stages[t] \notin Atomic
      OBVIOUS
    <2>1. Points[t] \notin Atomic /\ Stages[t] = Stage(Points[t])
      BY DEF Moves, Stages
    <2> QED
      BY <2>1 DEF Stage, Atomic
  <1> QED
    BY <1>1, <1>2 DEF Moves

LEMMA LoadedKeeps ==
    ASSUME SyncInv, NEW r \in Threads, Moves(Points, Locals, Points', Locals', r),
           Loaded(Points'[r], Locals'[r], mutex'),
           mutex'.head = mutex.head \/ Points[r] = "post_head_store"
    PROVE  LoadedInv'
  <1> SUFFICES ASSUME NEW t \in Threads
               PROVE  Loaded(Points'[t], Locals'[t], mutex')
    BY DEF LoadedInv
  <1>1. CASE t = r
    BY <1>1
  <1>2. CASE t # r
    <2>1. /\ Points'[t] = Points[t] /\ Locals'[t] = Locals[t]
          /\ Points[t] \notin {"wait_tail_store", "wait_count_store", "post_count_store"}
      BY <1>2 DEF Moves, Atomic
    <2>2. Loaded(Points[t], Locals[t], mutex)
      BY DEF SyncInv, LoadedInv
    <2>3. Points[t] = "post_head_store" => Points[r] # "post_head_store"
      <3> SUFFICES ASSUME Points[t] = "post_head_store", Points[r] = "post_head_store"
                   PROVE  FALSE
        OBVIOUS
      <3>1. Stages[t] = "post_head" /\ Stages[r] = "post_head"
        BY DEF Stages, Stage
      <3>2. Inside(Stages, Asleep, t) /\ Inside(Stages, Asleep, r)
        BY <3>1 DEF Inside
      <3> QED
        BY <1>2, <3>2 DEF SyncInv, SyncOK, ValueOK
    <2> QED
      BY <2>1, <2>2, <2>3 DEF Loaded
  <1> QED
    BY <1>1, <1>2

LEMMA ClientKeeps ==
    ASSUME PreemptInv, NEW from, NEW to, NEW x \in AnyLocal,
           from \in WorkerPoints \ Calls, to \in WorkerPoints \ Calls,
           Goto(from, to, x), UNCHANGED <<state, gt_current, ctx, phase>>, SyncInv'
    PROVE  PreemptInv'
  <1>1. /\ StackInv' /\ cpu'.owner = cpu.owner
        /\ Top.at = from /\ Top'.at = to
        /\ Points[cpu.owner] = from /\ Points'[cpu.owner] = to
        /\ \A t \in Threads \ {cpu.owner} : Points'[t] = Points[t]
        /\ gt_current = cpu.owner /\ cpu.owner \in Threads
    BY ClientMove DEF PreemptInv, Moves
  <1>2. /\ from \notin SchedulePoints /\ to \notin SchedulePoints
        /\ from # "returned" /\ to # "returned"
    BY PointSets DEF Calls
  <1>3. SwitchInv'
    BY <1>1, <1>2 DEF PreemptInv, SwitchInv, SchedulePoints
  <1>4. Chosen' = Chosen /\ Chosen = gt_current
    BY <1>1, <1>2 DEF Chosen, SchedulePoints
  <1>5. \A t \in Threads : state'[t] = "Unused" <=> Points'[t] = "returned"
    BY <1>1, <1>2 DEF PreemptInv, TableInv
  <1>6. TableInv'
    BY <1>1, <1>2, <1>4, <1>5 DEF PreemptInv, TableInv, SchedulePoints
  <1>7. PhaseInv'
    BY DEF PreemptInv, PhaseInv
  <1> QED
    BY <1>1, <1>3, <1>6, <1>7 DEF PreemptInv

(* What a step of one thread may use of the semaphore.                     *)
LEMMA AtStep ==
    ASSUME PreemptInv, NEW from, NEW to, NEW x \in AnyLocal,
           from \in WorkerPoints \ Calls, to \in WorkerPoints \ Calls,
           Goto(from, to, x), ctx' = ctx
    PROVE  /\ SyncOK(Stages, Carries, Asleep, mutex) /\ SemaphoreOK(mutex)
           /\ Moves(Stages, Carries, Stages', Carries', cpu.owner)
           /\ Stages[cpu.owner] = Stage(from) /\ Stages'[cpu.owner] = Stage(to)
           /\ Carries[cpu.owner] = Carried(from, Top.local)
           /\ Carries'[cpu.owner] = Carried(to, x)
           /\ cpu.owner \in Threads \ {Main} /\ Stages[Main] \in MainPoints
           /\ gt_current = cpu.owner /\ Points[cpu.owner] = from
           /\ Loaded(from, Top.local, mutex)
  <1>1. /\ Moves(Points, Locals, Points', Locals', cpu.owner)
        /\ Points[cpu.owner] = from /\ Points'[cpu.owner] = to
        /\ Locals[cpu.owner] = Top.local /\ Locals'[cpu.owner] = x
        /\ cpu.owner \in Threads \ {Main} /\ Points[Main] \in MainPoints
        /\ gt_current = cpu.owner
    BY ClientMove, Roles DEF PreemptInv
  <1>2. Stages[Main] \in MainPoints
    BY <1>1, Sizes DEF Stages, Stage, MainPoints, Main
  <1>3. /\ Stages[cpu.owner] = Stage(from) /\ Stages'[cpu.owner] = Stage(to)
        /\ Carries[cpu.owner] = Carried(from, Top.local)
        /\ Carries'[cpu.owner] = Carried(to, x)
    BY <1>1 DEF Stages, Carries
  <1>4. Moves(Stages, Carries, Stages', Carries', cpu.owner)
    BY <1>1, StagesMove
  <1>5. Loaded(from, Top.local, mutex)
    BY <1>1 DEF PreemptInv, SyncInv, LoadedInv
  <1> QED
    BY <1>1, <1>2, <1>3, <1>4, <1>5 DEF PreemptInv, SyncInv, SyncOK

(* Its store leaves what the others have loaded.                           *)
LEMMA SyncKeeps ==
    ASSUME PreemptInv, NEW from, NEW to, NEW x \in AnyLocal,
           from \in WorkerPoints \ Calls, to \in WorkerPoints \ Calls,
           Goto(from, to, x), ctx' = ctx,
           SyncOK(Stages', Carries', Asleep', mutex'), Loaded(to, x, mutex'),
           mutex'.head = mutex.head \/ from = "post_head_store"
    PROVE  SyncInv'
  <1>1. /\ Moves(Points, Locals, Points', Locals', cpu.owner)
        /\ Points[cpu.owner] = from /\ Points'[cpu.owner] = to
        /\ Locals'[cpu.owner] = x /\ cpu.owner \in Threads
    BY ClientMove DEF PreemptInv
  <1>2. LoadedInv'
    BY <1>1, LoadedKeeps DEF PreemptInv
  <1> QED
    BY <1>2 DEF SyncInv

LEMMA SameAsleep ==
    ASSUME state' = state
    PROVE  Asleep' = Asleep
  BY DEF Asleep

LEMMA LocalTypes ==
    ASSUME PreemptInv
    PROVE  /\ NoThread \in AnyLocal /\ mutex.value \in AnyLocal
           /\ mutex.wait_queue[mutex.head] \in AnyLocal
           /\ mutex.tail \in AnyLocal /\ mutex.wait_count \in AnyLocal
           /\ Top.local \in AnyLocal
  <1>1. SemaphoreOK(mutex)
    BY DEF PreemptInv, SyncInv, SyncOK
  <1>2. Top \in AnyFrame
    BY Running DEF PreemptInv
  <1> QED
    BY <1>1, <1>2, Sizes DEF SemaphoreOK, AnyLocal, AnyFrame

LEMMA ClientPointsAre ==
    /\ ClientPoints \cup WaitPoints \cup PostPoints \subseteq WorkerPoints \ Calls
  BY DEF ClientPoints, WaitPoints, PostPoints, WorkerPoints, Calls


(* gt_sem_wait goes to sleep only while somebody is inside.                *)
LEMMA SomebodyInside ==
    ASSUME NEW pt, NEW lc, NEW B, NEW m, NEW r \in Threads, SyncOK(pt, lc, B, m),
           \A t \in Threads \ {r} : pt[t] \notin Atomic,
           pt[r] = "wait_test", m.value < 0
    PROVE  \E u \in Threads : Inside(pt, B, u)
  <1> SUFFICES ASSUME \A u \in Threads : ~Inside(pt, B, u)
               PROVE  FALSE
    OBVIOUS
  <1>1. m.value \in Int /\ m.wait_count \in Nat
    BY DEF SyncOK, SemaphoreOK
  <1>2. m.wait_count >= 1
    BY <1>1 DEF SyncOK, ValueOK, One, Inside
  <1>3. \A t \in Threads : pt[t] # "wait_count" /\ pt[t] # "post_count"
    BY DEF Inside, Atomic
  <1>4. Queued(pt, m) = m.wait_count
    BY <1>1, <1>3 DEF Queued, One
  <1>5. 0 \in 0 .. Queued(pt, m) - 1
    BY <1>1, <1>2, <1>4
  <1>6. Waiter(m, 0) \in Threads /\ Sleeps(pt, B, Waiter(m, 0))
    BY <1>5 DEF SyncOK, RingOK
  <1> QED
    BY <1>6 DEF SyncOK, ValueOK

LEMMA FirstWaiter ==
    ASSUME NEW m, SemaphoreOK(m)
    PROVE  Waiter(m, 0) = m.wait_queue[m.head]
  <1>1. m.head \in Slots
    BY DEF SemaphoreOK
  <1>2. Slot(m, 0) = m.head
    BY <1>1, Sizes DEF Slot, Slots
  <1> QED
    BY <1>2 DEF Waiter

(* The statements that only read.                                          *)
LEMMA ReadKeeps ==
    ASSUME PreemptInv, NEW from, NEW to, NEW x \in AnyLocal, Goto(from, to, x), Unchanged,
           \/ from = "user" /\ to = "wait_store" /\ x = mutex.value
           \/ from = "critical" /\ to = "post_store" /\ x = mutex.value
           \/ from = "wait_test" /\ to = "wait_enqueue" /\ mutex.value < 0
           \/ from = "post_test" /\ to = "post_take" /\ mutex.wait_count > 0
           \/ from = "post_take" /\ to = "post_head" /\ x = mutex.wait_queue[mutex.head]
    PROVE  PreemptInv'
  <1>1. /\ UNCHANGED <<state, gt_current, mutex, ctx, phase>>
        /\ from \in WorkerPoints \ Calls /\ to \in WorkerPoints \ Calls
    BY DEF Unchanged, WorkerPoints, ClientPoints, WaitPoints, PostPoints, Calls
  <1>2. Asleep' = Asleep
    BY <1>1, SameAsleep
  <1>3. /\ SyncOK(Stages, Carries, Asleep, mutex) /\ SemaphoreOK(mutex)
        /\ Moves(Stages, Carries, Stages', Carries', cpu.owner)
        /\ Stages[cpu.owner] = from /\ Stages'[cpu.owner] = to
        /\ Carries'[cpu.owner] = x /\ cpu.owner \in Threads
    BY <1>1, AtStep DEF Stage, Carried
  <1>4. to = "wait_enqueue" => \E u \in Threads : Inside(Stages, Asleep, u)
    <2> SUFFICES ASSUME to = "wait_enqueue"
                 PROVE  \E u \in Threads : Inside(Stages, Asleep, u)
      OBVIOUS
    <2>1. mutex.value < 0 /\ Stages[cpu.owner] = "wait_test"
      BY <1>3
    <2>2. \A t \in Threads \ {cpu.owner} : Stages[t] \notin Atomic
      BY <1>3 DEF Moves
    <2> QED
      BY <1>3, <2>1, <2>2, SomebodyInside
  <1>5. to = "post_take" => mutex.wait_count >= 1
    BY <1>3 DEF SemaphoreOK
  <1>6. to = "post_head" => x = Waiter(mutex, 0)
    BY <1>3, FirstWaiter
  <1>7. SyncOK(Stages', Carries', Asleep, mutex)
    <2>1. \/ from = "user" /\ to = "wait_store"
          \/ from = "critical" /\ to = "post_store"
          \/ from = "wait_test" /\ to = "wait_enqueue"
          \/ from = "post_test" /\ to = "post_take"
          \/ from = "post_take" /\ to = "post_head"
      OBVIOUS
    <2>2. to \in {"wait_store", "post_store"} => x = mutex.value
      OBVIOUS
    <2> QED
      BY <1>3, <1>4, <1>5, <1>6, <2>1, <2>2, SilentStep
  <1>8. SyncInv'
    BY <1>1, <1>2, <1>7, SyncKeeps DEF Loaded
  <1> QED
    BY <1>1, <1>8, ClientKeeps

LEMMA WaitLoadKeeps == ASSUME PreemptInv, WaitLoad PROVE PreemptInv'
  BY ReadKeeps, LocalTypes DEF WaitLoad

LEMMA PostLoadKeeps == ASSUME PreemptInv, PostLoad PROVE PreemptInv'
  BY ReadKeeps, LocalTypes DEF PostLoad

LEMMA PostTakeKeeps == ASSUME PreemptInv, PostTake PROVE PreemptInv'
  BY ReadKeeps, LocalTypes DEF PostTake

LEMMA WaitTestKeeps == ASSUME PreemptInv, WaitTest PROVE PreemptInv'
  <1>1. CASE mutex.value < 0
    BY <1>1, ReadKeeps, LocalTypes DEF WaitTest
  <1>2. CASE ~(mutex.value < 0)
    <2>1. /\ Goto("wait_test", "critical", NoThread)
          /\ UNCHANGED <<state, gt_current, mutex, ctx, phase>>
          /\ "wait_test" \in WorkerPoints \ Calls /\ "critical" \in WorkerPoints \ Calls
      BY <1>2, ClientPointsAre DEF WaitTest, Unchanged, ClientPoints, WaitPoints
    <2>2. Asleep' = Asleep
      BY <2>1, SameAsleep
    <2>3. /\ SyncOK(Stages, Carries, Asleep, mutex)
          /\ Moves(Stages, Carries, Stages', Carries', cpu.owner)
          /\ Stages[cpu.owner] = "wait_test" /\ Stages'[cpu.owner] = "critical"
          /\ cpu.owner \in Threads
      BY <2>1, AtStep, LocalTypes DEF Stage, Carried
    <2>4. SyncOK(Stages', Carries', Asleep, mutex)
      BY <1>2, <2>3, Enters
    <2>5. SyncInv'
      BY <2>1, <2>2, <2>4, SyncKeeps, LocalTypes DEF Loaded
    <2> QED
      BY <2>1, <2>5, ClientKeeps, LocalTypes
  <1> QED
    BY <1>1, <1>2

LEMMA PostTestKeeps == ASSUME PreemptInv, PostTest PROVE PreemptInv'
  <1>1. CASE mutex.value <= 0 /\ mutex.wait_count > 0
    BY <1>1, ReadKeeps, LocalTypes DEF PostTest
  <1>2. CASE ~(mutex.value <= 0 /\ mutex.wait_count > 0)
    <2>1. /\ Goto("post_test", "user", NoThread)
          /\ UNCHANGED <<state, gt_current, mutex, ctx, phase>>
          /\ "post_test" \in WorkerPoints \ Calls /\ "user" \in WorkerPoints \ Calls
      BY <1>2, ClientPointsAre DEF PostTest, Unchanged, ClientPoints, PostPoints
    <2>2. Asleep' = Asleep
      BY <2>1, SameAsleep
    <2>3. /\ SyncOK(Stages, Carries, Asleep, mutex)
          /\ Moves(Stages, Carries, Stages', Carries', cpu.owner)
          /\ Stages[cpu.owner] = "post_test" /\ Stages'[cpu.owner] = "user"
          /\ cpu.owner \in Threads
      BY <2>1, AtStep, LocalTypes DEF Stage, Carried
    <2>4. SyncOK(Stages', Carries', Asleep, mutex)
      BY <1>2, <2>3, Leaves
    <2>5. SyncInv'
      BY <2>1, <2>2, <2>4, SyncKeeps, LocalTypes DEF Loaded
    <2> QED
      BY <2>1, <2>5, ClientKeeps, LocalTypes
  <1> QED
    BY <1>1, <1>2

LEMMA WaitStoreKeeps == ASSUME PreemptInv, WaitStore PROVE PreemptInv'
  <1>1. /\ Goto("wait_store", "wait_test", NoThread)
        /\ mutex' = [mutex EXCEPT !.value = Top.local - 1]
        /\ UNCHANGED <<state, gt_current, ctx, phase>>
        /\ "wait_store" \in WorkerPoints \ Calls /\ "wait_test" \in WorkerPoints \ Calls
    BY ClientPointsAre DEF WaitStore, ClientPoints, WaitPoints
  <1>2. Asleep' = Asleep
    BY <1>1, SameAsleep
  <1>3. /\ SyncOK(Stages, Carries, Asleep, mutex) /\ SemaphoreOK(mutex)
        /\ Moves(Stages, Carries, Stages', Carries', cpu.owner)
        /\ Stages[cpu.owner] = "wait_store" /\ Stages'[cpu.owner] = "wait_test"
        /\ Carries[cpu.owner] = Top.local /\ Carries'[cpu.owner] = NoThread
        /\ cpu.owner \in Threads /\ Stages[Main] \in MainPoints /\ gt_current = cpu.owner
    BY <1>1, AtStep, LocalTypes DEF Stage, Carried
  <1>4. mutex' = [mutex EXCEPT !.value = Carries[cpu.owner] - 1]
    BY <1>1, <1>3 DEF SemaphoreOK
  <1>5. SyncOK(Stages', Carries', Asleep, mutex')
    BY <1>3, <1>4, StoreDecremented
  <1>6. mutex'.head = mutex.head
    BY <1>3, <1>4 DEF SemaphoreOK
  <1>7. SyncInv'
    BY <1>1, <1>2, <1>5, <1>6, SyncKeeps, LocalTypes DEF Loaded
  <1> QED
    BY <1>1, <1>7, ClientKeeps, LocalTypes

LEMMA WaitEnqueueKeeps == ASSUME PreemptInv, WaitEnqueue PROVE PreemptInv'
  <1>1. /\ Goto("wait_enqueue", "wait_tail", NoThread)
        /\ mutex' = [mutex EXCEPT !.wait_queue[mutex.tail] = gt_current]
        /\ UNCHANGED <<state, gt_current, ctx, phase>>
        /\ "wait_enqueue" \in WorkerPoints \ Calls /\ "wait_tail" \in WorkerPoints \ Calls
    BY ClientPointsAre DEF WaitEnqueue, ClientPoints, WaitPoints
  <1>2. Asleep' = Asleep
    BY <1>1, SameAsleep
  <1>3. /\ SyncOK(Stages, Carries, Asleep, mutex) /\ SemaphoreOK(mutex)
        /\ Moves(Stages, Carries, Stages', Carries', cpu.owner)
        /\ Stages[cpu.owner] = "wait_enqueue" /\ Stages'[cpu.owner] = "wait_tail"
        /\ Carries[cpu.owner] = Top.local /\ Carries'[cpu.owner] = NoThread
        /\ cpu.owner \in Threads /\ Stages[Main] \in MainPoints /\ gt_current = cpu.owner
    BY <1>1, AtStep, LocalTypes DEF Stage, Carried
  <1>4. mutex' = [mutex EXCEPT !.wait_queue[mutex.tail] = cpu.owner]
    BY <1>1, <1>3 DEF SemaphoreOK
  <1>5. SyncOK(Stages', Carries', Asleep, mutex')
    BY <1>3, <1>4, Enqueues
  <1>6. mutex'.head = mutex.head
    BY <1>3, <1>4 DEF SemaphoreOK
  <1>7. SyncInv'
    BY <1>1, <1>2, <1>5, <1>6, SyncKeeps, LocalTypes DEF Loaded
  <1> QED
    BY <1>1, <1>7, ClientKeeps, LocalTypes

LEMMA PostStoreKeeps == ASSUME PreemptInv, PostStore PROVE PreemptInv'
  <1>1. /\ Goto("post_store", "post_test", NoThread)
        /\ mutex' = [mutex EXCEPT !.value = Top.local + 1]
        /\ UNCHANGED <<state, gt_current, ctx, phase>>
        /\ "post_store" \in WorkerPoints \ Calls /\ "post_test" \in WorkerPoints \ Calls
    BY ClientPointsAre DEF PostStore, ClientPoints, PostPoints
  <1>2. Asleep' = Asleep
    BY <1>1, SameAsleep
  <1>3. /\ SyncOK(Stages, Carries, Asleep, mutex) /\ SemaphoreOK(mutex)
        /\ Moves(Stages, Carries, Stages', Carries', cpu.owner)
        /\ Stages[cpu.owner] = "post_store" /\ Stages'[cpu.owner] = "post_test"
        /\ Carries[cpu.owner] = Top.local /\ Carries'[cpu.owner] = NoThread
        /\ cpu.owner \in Threads /\ Stages[Main] \in MainPoints /\ gt_current = cpu.owner
    BY <1>1, AtStep, LocalTypes DEF Stage, Carried
  <1>4. mutex' = [mutex EXCEPT !.value = Carries[cpu.owner] + 1]
    BY <1>1, <1>3 DEF SemaphoreOK
  <1>5. SyncOK(Stages', Carries', Asleep, mutex')
    BY <1>3, <1>4, StoreIncremented
  <1>6. mutex'.head = mutex.head
    BY <1>3, <1>4 DEF SemaphoreOK
  <1>7. SyncInv'
    BY <1>1, <1>2, <1>5, <1>6, SyncKeeps, LocalTypes DEF Loaded
  <1> QED
    BY <1>1, <1>7, ClientKeeps, LocalTypes

(* The loads: the semaphore is as before them.                             *)
LEMMA LoadKeeps ==
    ASSUME PreemptInv, NEW from, NEW to, NEW x \in AnyLocal, Goto(from, to, x), Unchanged,
           \/ from = "wait_tail" /\ to = "wait_tail_store"
           \/ from = "wait_count" /\ to = "wait_count_store"
           \/ from = "post_head" /\ to = "post_head_store" /\ x.thread = Top.local
           \/ from = "post_count" /\ to = "post_count_store" /\ x.thread = Top.local,
           Loaded(to, x, mutex)
    PROVE  PreemptInv'
  <1>1. /\ UNCHANGED <<state, gt_current, mutex, ctx, phase>>
        /\ from \in WorkerPoints \ Calls /\ to \in WorkerPoints \ Calls
    BY DEF Unchanged, WorkerPoints, ClientPoints, WaitPoints, PostPoints, Calls
  <1>2. Asleep' = Asleep
    BY <1>1, SameAsleep
  <1>3. /\ SyncOK(Stages, Carries, Asleep, mutex)
        /\ \A t \in Threads \ {cpu.owner} :
              Stages'[t] = Stages[t] /\ Carries'[t] = Carries[t]
        /\ Stages[cpu.owner] = Stage(from) /\ Stages'[cpu.owner] = Stage(to)
        /\ Carries[cpu.owner] = Carried(from, Top.local)
        /\ Carries'[cpu.owner] = Carried(to, x)
    BY <1>1, AtStep DEF Moves
  <1>4. Stage(from) = Stage(to) /\ Carried(from, Top.local) = Carried(to, x)
    BY DEF Stage, Carried
  <1>5. Stages' = Stages /\ Carries' = Carries
    <2>1. \A t \in Threads : Stages'[t] = Stages[t] /\ Carries'[t] = Carries[t]
      BY <1>3, <1>4
    <2>2. /\ Stages = [t \in Threads |-> Stages[t]] /\ Carries = [t \in Threads |-> Carries[t]]
          /\ Stages' = [t \in Threads |-> Stages'[t]]
          /\ Carries' = [t \in Threads |-> Carries'[t]]
      BY DEF Stages, Carries
    <2> QED
      BY <2>1, <2>2
  <1>6. SyncInv'
    BY <1>1, <1>2, <1>3, <1>5, SyncKeeps
  <1> QED
    BY <1>1, <1>6, ClientKeeps

LEMMA WaitTailKeeps == ASSUME PreemptInv, WaitTail PROVE PreemptInv'
  BY LoadKeeps, LocalTypes DEF WaitTail, Loaded

LEMMA WaitCountKeeps == ASSUME PreemptInv, WaitCount PROVE PreemptInv'
  BY LoadKeeps, LocalTypes DEF WaitCount, Loaded

(* The thread that gt_sem_post took out of the ring.                       *)
LEMMA Taken ==
    ASSUME PreemptInv, Len(cpu.frames) = 1,
           Top.at \in {"post_head", "post_head_store", "post_count", "post_count_store"}
    PROVE  /\ Carried(Top.at, Top.local) \in Threads \cup {NoThread}
           /\ SemaphoreOK(mutex) /\ Loaded(Top.at, Top.local, mutex)
  <1>1. /\ SyncOK(Stages, Carries, Asleep, mutex) /\ SemaphoreOK(mutex) /\ LoadedInv
        /\ StackInv
    BY DEF PreemptInv, SyncInv, SyncOK
  <1>2. /\ cpu.owner \in Threads /\ Points[cpu.owner] = Top.at
        /\ Locals[cpu.owner] = Top.local
    BY <1>1, Running
  <1>3. Loaded(Top.at, Top.local, mutex)
    BY <1>1, <1>2 DEF LoadedInv
  <1>4. /\ Stages[cpu.owner] \in {"post_head", "post_count"}
        /\ Carries[cpu.owner] = Carried(Top.at, Top.local)
    BY <1>2 DEF Stages, Stage, Carries
  <1>5. Carries[cpu.owner] \in Threads \cup {NoThread}
    <2>1. CASE Stages[cpu.owner] = "post_head"
      <3>1. Carries[cpu.owner] = mutex.wait_queue[mutex.head]
        BY <1>1, <1>2, <2>1, FirstWaiter DEF SyncOK, RingOK
      <3> QED
        BY <1>1, <3>1 DEF SemaphoreOK
    <2>2. CASE Stages[cpu.owner] = "post_count"
      BY <1>1, <1>2, <2>2 DEF SyncOK, RingOK, Asleep
    <2> QED
      BY <1>4, <2>1, <2>2
  <1> QED
    BY <1>1, <1>3, <1>4, <1>5

LEMMA AtPost ==
    ASSUME PreemptInv, NEW from \in {"post_head", "post_head_store", "post_count",
                                     "post_count_store"}, Top.at = from
    PROVE  /\ Carried(from, Top.local) \in Threads \cup {NoThread}
           /\ SemaphoreOK(mutex) /\ Loaded(from, Top.local, mutex)
  <1>1. StackInv /\ Top.at \notin SchedulePoints
    BY DEF PreemptInv, SchedulePoints
  <1>2. Len(cpu.frames) = 1
    BY <1>1, Running, OneOrMore
  <1> QED
    BY <1>2, Taken

LEMMA PostHeadKeeps == ASSUME PreemptInv, PostHead PROVE PreemptInv'
  <1>1. PICK x : x = [thread |-> Top.local, loaded |-> mutex.head]
    OBVIOUS
  <1>2. Goto("post_head", "post_head_store", x) /\ Unchanged /\ Top.at = "post_head"
    BY <1>1 DEF PostHead, Goto, At
  <1>3. Top.local \in Threads \cup {NoThread} /\ SemaphoreOK(mutex)
    BY <1>2, AtPost DEF Carried
  <1>4. x \in AnyLocal
    BY <1>1, <1>3, Sizes DEF SemaphoreOK, AnyLocal
  <1>5. x.thread = Top.local /\ Loaded("post_head_store", x, mutex)
    BY <1>1 DEF Loaded
  <1> QED
    BY <1>2, <1>4, <1>5, LoadKeeps

LEMMA PostCountKeeps == ASSUME PreemptInv, PostCount PROVE PreemptInv'
  <1>1. PICK x : x = [thread |-> Top.local, loaded |-> mutex.wait_count]
    OBVIOUS
  <1>2. Goto("post_count", "post_count_store", x) /\ Unchanged /\ Top.at = "post_count"
    BY <1>1 DEF PostCount, Goto, At
  <1>3. Top.local \in Threads \cup {NoThread} /\ SemaphoreOK(mutex)
    BY <1>2, AtPost DEF Carried
  <1>4. x \in AnyLocal
    BY <1>1, <1>3 DEF SemaphoreOK, AnyLocal
  <1>5. x.thread = Top.local /\ Loaded("post_count_store", x, mutex)
    BY <1>1 DEF Loaded
  <1> QED
    BY <1>2, <1>4, <1>5, LoadKeeps

(* Their stores.                                                           *)
LEMMA WaitTailStoreKeeps == ASSUME PreemptInv, WaitTailStore PROVE PreemptInv'
  <1>1. /\ Goto("wait_tail_store", "wait_count", NoThread)
        /\ mutex' = [mutex EXCEPT !.tail = (Top.local + 1) % MAX_G_THREADS]
        /\ UNCHANGED <<state, gt_current, ctx, phase>>
        /\ "wait_tail_store" \in WorkerPoints \ Calls /\ "wait_count" \in WorkerPoints \ Calls
    BY ClientPointsAre DEF WaitTailStore, ClientPoints, WaitPoints
  <1>2. Asleep' = Asleep
    BY <1>1, SameAsleep
  <1>3. /\ SyncOK(Stages, Carries, Asleep, mutex) /\ SemaphoreOK(mutex)
        /\ Moves(Stages, Carries, Stages', Carries', cpu.owner)
        /\ Stages[cpu.owner] = "wait_tail" /\ Stages'[cpu.owner] = "wait_count"
        /\ cpu.owner \in Threads /\ Stages[Main] \in MainPoints
        /\ Top.local = mutex.tail
    BY <1>1, AtStep, LocalTypes DEF Stage, Loaded
  <1>4. mutex' = [mutex EXCEPT !.tail = (mutex.tail + 1) % MAX_G_THREADS]
    BY <1>1, <1>3
  <1>5. SyncOK(Stages', Carries', Asleep, mutex')
    BY <1>3, <1>4, TailAdvances
  <1>6. mutex'.head = mutex.head
    BY <1>3, <1>4 DEF SemaphoreOK
  <1>7. SyncInv'
    BY <1>1, <1>2, <1>5, <1>6, SyncKeeps, LocalTypes DEF Loaded
  <1> QED
    BY <1>1, <1>7, ClientKeeps, LocalTypes

LEMMA WaitCountStoreKeeps == ASSUME PreemptInv, WaitCountStore PROVE PreemptInv'
  <1>1. /\ Goto("wait_count_store", "wait_block", NoThread)
        /\ mutex' = [mutex EXCEPT !.wait_count = Top.local + 1]
        /\ UNCHANGED <<state, gt_current, ctx, phase>>
        /\ "wait_count_store" \in WorkerPoints \ Calls /\ "wait_block" \in WorkerPoints \ Calls
    BY ClientPointsAre DEF WaitCountStore, ClientPoints, WaitPoints
  <1>2. Asleep' = Asleep
    BY <1>1, SameAsleep
  <1>3. /\ SyncOK(Stages, Carries, Asleep, mutex) /\ SemaphoreOK(mutex)
        /\ Moves(Stages, Carries, Stages', Carries', cpu.owner)
        /\ Stages[cpu.owner] = "wait_count" /\ Stages'[cpu.owner] = "wait_block"
        /\ cpu.owner \in Threads /\ Stages[Main] \in MainPoints
        /\ Top.local = mutex.wait_count
    BY <1>1, AtStep, LocalTypes DEF Stage, Loaded
  <1>4. mutex' = [mutex EXCEPT !.wait_count = mutex.wait_count + 1]
    BY <1>1, <1>3
  <1>5. SyncOK(Stages', Carries', Asleep, mutex')
    BY <1>3, <1>4, CountsIn
  <1>6. mutex'.head = mutex.head
    BY <1>3, <1>4 DEF SemaphoreOK
  <1>7. SyncInv'
    BY <1>1, <1>2, <1>5, <1>6, SyncKeeps, LocalTypes DEF Loaded
  <1> QED
    BY <1>1, <1>7, ClientKeeps, LocalTypes

LEMMA PostHeadStoreKeeps == ASSUME PreemptInv, PostHeadStore PROVE PreemptInv'
  <1>1. PICK p : p = Top.local.thread
    OBVIOUS
  <1>2. /\ Goto("post_head_store", "post_count", p)
        /\ mutex' = [mutex EXCEPT !.head = (Top.local.loaded + 1) % MAX_G_THREADS]
        /\ UNCHANGED <<state, gt_current, ctx, phase>>
        /\ "post_head_store" \in WorkerPoints \ Calls /\ "post_count" \in WorkerPoints \ Calls
    BY <1>1, ClientPointsAre DEF PostHeadStore, ClientPoints, PostPoints
  <1>3. /\ SemaphoreOK(mutex) /\ p \in AnyLocal
        /\ Top.local = [thread |-> Top.local.thread, loaded |-> mutex.head]
    BY <1>1, <1>2, AtPost DEF Goto, At, Loaded, Carried, AnyLocal
  <1>4. /\ SyncOK(Stages, Carries, Asleep, mutex) /\ Asleep' = Asleep
        /\ Moves(Stages, Carries, Stages', Carries', cpu.owner)
        /\ Stages[cpu.owner] = "post_head" /\ Stages'[cpu.owner] = "post_count"
        /\ Carries[cpu.owner] = p /\ Carries'[cpu.owner] = p
        /\ cpu.owner \in Threads /\ Stages[Main] \in MainPoints
    BY <1>1, <1>2, <1>3, AtStep, SameAsleep DEF Stage, Carried
  <1>5. mutex' = [mutex EXCEPT !.head = (mutex.head + 1) % MAX_G_THREADS]
    BY <1>2, <1>3
  <1>6. SyncOK(Stages', Carries', Asleep, mutex')
    BY <1>4, <1>5, HeadAdvances
  <1>7. SyncInv'
    BY <1>2, <1>3, <1>4, <1>6, SyncKeeps DEF Loaded
  <1> QED
    BY <1>2, <1>3, <1>7, ClientKeeps

LEMMA PostCountStoreKeeps == ASSUME PreemptInv, PostCountStore PROVE PreemptInv'
  <1>1. PICK p : p = Top.local.thread
    OBVIOUS
  <1>2. /\ Goto("post_count_store", "post_ready", p)
        /\ mutex' = [mutex EXCEPT !.wait_count = Top.local.loaded - 1]
        /\ UNCHANGED <<state, gt_current, ctx, phase>>
        /\ "post_count_store" \in WorkerPoints \ Calls /\ "post_ready" \in WorkerPoints \ Calls
    BY <1>1, ClientPointsAre DEF PostCountStore, ClientPoints, PostPoints
  <1>3. /\ SemaphoreOK(mutex) /\ p \in AnyLocal
        /\ Top.local = [thread |-> Top.local.thread, loaded |-> mutex.wait_count]
    BY <1>1, <1>2, AtPost DEF Goto, At, Loaded, Carried, AnyLocal
  <1>4. /\ SyncOK(Stages, Carries, Asleep, mutex) /\ Asleep' = Asleep
        /\ Moves(Stages, Carries, Stages', Carries', cpu.owner)
        /\ Stages[cpu.owner] = "post_count" /\ Stages'[cpu.owner] = "post_ready"
        /\ Carries[cpu.owner] = p /\ Carries'[cpu.owner] = p
        /\ cpu.owner \in Threads /\ Stages[Main] \in MainPoints
    BY <1>1, <1>2, <1>3, AtStep, SameAsleep DEF Stage, Carried
  <1>5. mutex' = [mutex EXCEPT !.wait_count = mutex.wait_count - 1]
    BY <1>2, <1>3
  <1>6. SyncOK(Stages', Carries', Asleep, mutex')
    BY <1>4, <1>5, CountsOut
  <1>7. mutex'.head = mutex.head
    BY <1>3, <1>5 DEF SemaphoreOK
  <1>8. SyncInv'
    BY <1>2, <1>3, <1>4, <1>6, <1>7, SyncKeeps DEF Loaded
  <1> QED
    BY <1>2, <1>3, <1>8, ClientKeeps

(* A statement that marks a thread.                                        *)
LEMMA MarkKeeps ==
    ASSUME PreemptInv, NEW from, NEW to, NEW x \in AnyLocal,
           from \in WorkerPoints \ Calls, to \in WorkerPoints \ Calls,
           Goto(from, to, x), UNCHANGED <<gt_current, mutex, ctx, phase>>, SyncInv',
           state' \in [Threads -> {"Unused", "Running", "Ready", "Blocked"}],
           state'[Main] \in {"Running", "Ready"},
           \A t \in Threads : state'[t] = "Unused" <=> state[t] = "Unused",
           \A t \in Threads : state'[t] = "Running" => state[t] = "Running",
           state'[cpu.owner] # "Ready"
    PROVE  PreemptInv'
  <1>1. /\ StackInv' /\ cpu'.owner = cpu.owner
        /\ Top.at = from /\ Top'.at = to
        /\ Points[cpu.owner] = from /\ Points'[cpu.owner] = to
        /\ \A t \in Threads \ {cpu.owner} : Points'[t] = Points[t]
        /\ gt_current = cpu.owner /\ cpu.owner \in Threads
    BY ClientMove DEF PreemptInv, Moves
  <1>2. /\ from \notin SchedulePoints /\ to \notin SchedulePoints
        /\ from # "returned" /\ to # "returned"
    BY PointSets DEF Calls
  <1>3. SwitchInv'
    BY <1>1, <1>2 DEF PreemptInv, SwitchInv, SchedulePoints
  <1>4. Chosen' = Chosen /\ Chosen = gt_current
    BY <1>1, <1>2 DEF Chosen, SchedulePoints
  <1>5. \A t \in Threads : state'[t] = "Unused" <=> Points'[t] = "returned"
    BY <1>1, <1>2 DEF PreemptInv, TableInv
  <1>6. TableInv'
    BY <1>1, <1>2, <1>4, <1>5 DEF PreemptInv, TableInv, SchedulePoints
  <1>7. PhaseInv'
    BY DEF PreemptInv, PhaseInv, Goto, At
  <1> QED
    BY <1>1, <1>3, <1>6, <1>7 DEF PreemptInv

(* A worker marks itself Blocked only while somebody is inside.            *)
LEMMA Blocks ==
    ASSUME NEW pt, NEW lc, NEW pt2, NEW lc2, NEW B, NEW m, NEW r \in Threads,
           SyncOK(pt, lc, B, m), Moves(pt, lc, pt2, lc2, r),
           pt[r] = "wait_block", pt2[r] = "wait_yield"
    PROVE  SyncOK(pt2, lc2, B \cup {r}, m)
  <1> DEFINE B2 == B \cup {r}
  <1>1. \A t \in B : t \in Threads /\ pt[t] \in {"wait_yield", "yielding"}
    BY DEF SyncOK, ValueOK
  <1>2. \A t \in B2 : t \in Threads /\ pt2[t] \in {"wait_yield", "yielding"}
    BY <1>1 DEF Moves
  <1>3. /\ Holds(pt2, B2, r) <=> Holds(pt, B, r)
        /\ Inside(pt2, B2, r) <=> Inside(pt, B, r)
        /\ Sleeps(pt2, B2, r) <=> Sleeps(pt, B, r)
        /\ Adds(pt2, r) <=> Adds(pt, r)
    BY DEF Holds, Inside, Sleeps, Adds
  <1>4. \A t \in Threads : Holds(pt2, B2, t) <=> Holds(pt, B, t)
    BY <1>3 DEF Holds, Moves
  <1>5. \A t \in Threads : Inside(pt2, B2, t) <=> Inside(pt, B, t)
    BY <1>3, <1>4 DEF Inside, Moves
  <1>6. \A t \in Threads : Sleeps(pt2, B2, t) <=> Sleeps(pt, B, t)
    BY <1>3 DEF Sleeps, Moves
  <1>7. /\ pt2[r] \notin {"wait_store", "post_store", "post_take", "post_head", "wait_enqueue"}
        /\ pt[r] \notin {"wait_tail", "wait_count", "post_count", "post_ready"}
        /\ pt2[r] \notin {"wait_tail", "wait_count", "post_count", "post_ready"}
        /\ B \subseteq B2
    OBVIOUS
  <1> HIDE DEF B2
  <1>8. SyncOK(pt2, lc2, B2, m)
    BY <1>2, <1>3, <1>4, <1>5, <1>6, <1>7, SameMeaning
  <1> QED
    BY <1>8 DEF B2

LEMMA WaitBlockKeeps == ASSUME PreemptInv, WaitBlock PROVE PreemptInv'
  <1>1. /\ Goto("wait_block", "wait_yield", NoThread)
        /\ state' = [state EXCEPT ![gt_current] = "Blocked"]
        /\ UNCHANGED <<gt_current, mutex, ctx, phase>>
        /\ "wait_block" \in WorkerPoints \ Calls /\ "wait_yield" \in WorkerPoints \ Calls
    BY ClientPointsAre DEF WaitBlock, WaitPoints
  <1>2. /\ SyncOK(Stages, Carries, Asleep, mutex)
        /\ Moves(Stages, Carries, Stages', Carries', cpu.owner)
        /\ Stages[cpu.owner] = "wait_block" /\ Stages'[cpu.owner] = "wait_yield"
        /\ Points[cpu.owner] = "wait_block"
        /\ cpu.owner \in Threads \ {Main} /\ gt_current = cpu.owner
    BY <1>1, AtStep, LocalTypes DEF Stage, Carried
  <1>3. TableInv
    BY DEF PreemptInv
  <1>4. /\ state' \in [Threads -> {"Unused", "Running", "Ready", "Blocked"}]
        /\ state'[cpu.owner] = "Blocked"
        /\ \A t \in Threads \ {cpu.owner} : state'[t] = state[t]
    BY <1>1, <1>2, <1>3 DEF TableInv
  <1>5. Asleep' = Asleep \cup {cpu.owner}
    BY <1>2, <1>4 DEF Asleep
  <1>6. SyncInv'
    BY <1>1, <1>2, <1>5, Blocks, SyncKeeps, LocalTypes DEF Loaded
  <1>7. state[cpu.owner] # "Unused"
    BY <1>2, <1>3 DEF TableInv
  <1>8. Main \in Threads /\ state'[Main] \in {"Running", "Ready"}
    BY <1>2, <1>3, <1>4, Sizes DEF TableInv, Main
  <1> QED
    BY <1>1, <1>2, <1>4, <1>6, <1>7, <1>8, MarkKeeps, LocalTypes

LEMMA PostReadyKeeps == ASSUME PreemptInv, PostReady PROVE PreemptInv'
  <1>1. /\ Goto("post_ready", "user", NoThread)
        /\ state' = [state EXCEPT ![Top.local] = "Ready"]
        /\ UNCHANGED <<gt_current, mutex, ctx, phase>>
        /\ "post_ready" \in WorkerPoints \ Calls /\ "user" \in WorkerPoints \ Calls
    BY ClientPointsAre DEF PostReady, PostPoints, ClientPoints
  <1>2. /\ SyncOK(Stages, Carries, Asleep, mutex)
        /\ Moves(Stages, Carries, Stages', Carries', cpu.owner)
        /\ Stages[cpu.owner] = "post_ready" /\ Stages'[cpu.owner] = "user"
        /\ Carries[cpu.owner] = Top.local
        /\ cpu.owner \in Threads \ {Main} /\ gt_current = cpu.owner
    BY <1>1, AtStep, LocalTypes DEF Stage, Carried
  <1>3. TableInv
    BY DEF PreemptInv
  <1>4. PICK w : w = Carries[cpu.owner]
    OBVIOUS
  <1>5. w \in Asleep /\ Stages[w] \in {"wait_yield", "yielding"}
    BY <1>2, <1>4 DEF SyncOK, RingOK, ValueOK
  <1>6. w \in Threads /\ state[w] = "Blocked" /\ w # cpu.owner /\ w # Main
    BY <1>2, <1>3, <1>5 DEF Asleep, TableInv
  <1>7. /\ state' \in [Threads -> {"Unused", "Running", "Ready", "Blocked"}]
        /\ state'[w] = "Ready"
        /\ \A t \in Threads \ {w} : state'[t] = state[t]
    BY <1>1, <1>2, <1>3, <1>4, <1>6 DEF TableInv
  <1>8. Asleep' = Asleep \ {Carries[cpu.owner]}
    BY <1>4, <1>6, <1>7 DEF Asleep
  <1>9. SyncInv'
    BY <1>1, <1>2, <1>8, Wakes, SyncKeeps, LocalTypes DEF Loaded
  <1>10. state'[cpu.owner] # "Ready"
    <2>1. Top.at = "post_ready"
      BY <1>1 DEF Goto, At
    <2> QED
      BY <1>2, <1>3, <1>6, <1>7, <2>1 DEF TableInv
  <1>11. state'[Main] \in {"Running", "Ready"}
    BY <1>3, <1>6, <1>7, Sizes DEF TableInv, Main
  <1> QED
    BY <1>1, <1>6, <1>7, <1>9, <1>10, <1>11, MarkKeeps, LocalTypes

(* Nothing changes but the statement at the top of the stack in use.       *)
LEMMA SameSync ==
    ASSUME PreemptInv, Points' = Points, Locals' = Locals, Asleep' = Asleep, mutex' = mutex
    PROVE  SyncInv'
  <1>1. Stages' = Stages /\ Carries' = Carries
    BY DEF Stages, Carries
  <1> QED
    BY <1>1 DEF PreemptInv, SyncInv, LoadedInv

-----------------------------------------------------------------------------
(* Calls of gt_schedule and their returns.                                 *)

LEMMA CallKeeps ==
    ASSUME PreemptInv, NEW from, NEW to, Call(from, to),
           \/ from = "user" /\ to = "returned"
           \/ from = "wait_yield" /\ to = "yielding"
           \/ from = "loop" /\ to = "looping",
           UNCHANGED <<gt_current, mutex, ctx, phase>>,
           state' = IF to = "returned" THEN [state EXCEPT ![gt_current] = "Unused"] ELSE state
    PROVE  PreemptInv'
  <1>1. /\ from \in MainPoints \cup WorkerPoints /\ to \in Calls
        /\ from \in MainPoints <=> to \in MainPoints
        /\ from \notin SchedulePoints
    BY DEF MainPoints, WorkerPoints, ClientPoints, WaitPoints, Calls, SchedulePoints
  <1>2. /\ StackInv' /\ cpu'.owner = cpu.owner
        /\ Top.at = from /\ Top'.at = "pick"
        /\ Moves(Points, Locals, Points', Locals', cpu.owner)
        /\ Points[cpu.owner] = from /\ Points'[cpu.owner] = to
        /\ cpu.owner \in Threads /\ gt_current = cpu.owner
    <2>1. StackInv /\ SwitchInv /\ ctx' = ctx
      BY DEF PreemptInv
    <2> QED
      BY <1>1, <2>1, CallMove
  <1>3. /\ SyncOK(Stages, Carries, Asleep, mutex) /\ TableInv
        /\ \A t \in Asleep : Stages[t] \in {"wait_yield", "yielding"}
        /\ Moves(Stages, Carries, Stages', Carries', cpu.owner)
        /\ Stages[cpu.owner] = from /\ Stages'[cpu.owner] = to
    <2>1. Moves(Stages, Carries, Stages', Carries', cpu.owner)
      BY <1>2, StagesMove
    <2>2. Stages[cpu.owner] = from /\ Stages'[cpu.owner] = to
      BY <1>2 DEF Stages, Stage
    <2> QED
      BY <2>1, <2>2 DEF PreemptInv, SyncInv, SyncOK, ValueOK
  <1>4. /\ state' \in [Threads -> {"Unused", "Running", "Ready", "Blocked"}]
        /\ \A t \in Threads \ {cpu.owner} : state'[t] = state[t]
        /\ state'[cpu.owner] = IF to = "returned" THEN "Unused" ELSE state[cpu.owner]
    BY <1>2, <1>3 DEF TableInv
  <1>5. Asleep' = Asleep
    <2>1. to = "returned" => cpu.owner \notin Asleep
      BY <1>2, <1>3
    <2> QED
      BY <1>2, <1>4, <2>1 DEF Asleep
  <1>6. SyncInv'
    <2>1. SyncOK(Stages', Carries', Asleep, mutex)
      BY <1>2, <1>3, SilentStep
    <2>2. LoadedInv'
      BY <1>2, LoadedKeeps DEF PreemptInv, Loaded
    <2> QED
      BY <1>5, <2>1, <2>2 DEF SyncInv
  <1>7. SwitchInv'
    BY <1>2 DEF PreemptInv, SwitchInv
  <1>8. Chosen' = gt_current /\ Chosen = gt_current
    BY <1>1, <1>2 DEF Chosen, SchedulePoints
  <1>9. \A t \in Threads : state'[t] = "Unused" <=> Points'[t] = "returned"
    BY <1>2, <1>3, <1>4 DEF TableInv, Moves
  <1>10. state'[Main] \in {"Running", "Ready"}
    <2>1. to = "returned" => cpu.owner # Main
      BY <1>2, Roles DEF PreemptInv, MainPoints
    <2> QED
      BY <1>3, <1>4, <2>1, Sizes DEF TableInv, Main
  <1>11. /\ \A t \in Threads : state'[t] = "Running" => t = Chosen'
         /\ state'[cpu.owner] # "Ready"
    BY <1>1, <1>2, <1>3, <1>4, <1>8 DEF TableInv, SchedulePoints
  <1>12. TableInv'
    BY <1>2, <1>4, <1>9, <1>10, <1>11 DEF TableInv
  <1>13. PhaseInv'
    BY DEF PreemptInv, PhaseInv, Call, At
  <1> QED
    BY <1>2, <1>6, <1>7, <1>12, <1>13 DEF PreemptInv

LEMMA WaitYieldKeeps == ASSUME PreemptInv, WaitYield PROVE PreemptInv'
  BY CallKeeps DEF WaitYield, Unchanged

LEMMA ReturnKeeps == ASSUME PreemptInv, Return PROVE PreemptInv'
  BY CallKeeps DEF Return

LEMMA MainLoopKeeps == ASSUME PreemptInv, MainLoop PROVE PreemptInv'
  BY CallKeeps DEF MainLoop, Unchanged

(* The thread whose gt_schedule returns is marked Running.                 *)
LEMMA PopKeeps ==
    ASSUME PreemptInv, Top.at \in {"pick", "resumed"}, state[cpu.owner] = "Running",
           cpu' = [cpu EXCEPT !.frames = Pop(@)],
           UNCHANGED <<state, gt_current, mutex, ctx>>,
           Caller # "returned" => PhaseInv'
    PROVE  PreemptInv'
  <1>1. /\ StackInv /\ SwitchInv /\ TableInv
        /\ SyncInv /\ SyncOK(Stages, Carries, Asleep, mutex)
    BY DEF PreemptInv, SyncInv
  <1>2. /\ Len(cpu.frames) >= 2 /\ Len(cpu.frames) \in Nat /\ cpu.owner \in Threads
        /\ FramesOK(cpu.owner, cpu.frames) /\ Points[cpu.owner] = Outermost(cpu.frames).at
    BY <1>1, Running DEF SchedulePoints, StackInv
  <1>3. Points[cpu.owner] # "returned"
    BY <1>1, <1>2 DEF TableInv
  <1>4. Caller # "returned"
    <2>1. CASE Len(cpu.frames) > 2
      <3>1. 2 \in 2 .. Len(cpu.frames) - 1
        BY <1>2, <2>1
      <3> QED
        BY <1>2, <3>1 DEF FramesOK, Caller
    <2>2. CASE Len(cpu.frames) = 2
      BY <1>2, <1>3, <2>2 DEF Caller, Outermost
    <2>3. Len(cpu.frames) > 2 \/ Len(cpu.frames) = 2
      BY <1>2, TwoOrMore
    <2> QED
      BY <2>1, <2>2, <2>3
  <1>5. /\ StackInv' /\ cpu'.owner = cpu.owner
        /\ Caller \in Interrupted \cup {"pick", "resumed"}
        /\ Top'.at = Continuation(Caller)
        /\ \/ /\ Caller \in {"looping", "yielding"}
              /\ Moves(Points, Locals, Points', Locals', cpu.owner)
              /\ Points[cpu.owner] = Caller /\ Points'[cpu.owner] = Continuation(Caller)
           \/ /\ Caller \notin Calls /\ Continuation(Caller) = Caller
              /\ Points' = Points /\ Locals' = Locals
    BY <1>1, <1>2, <1>4, PopMove
  <1>6. Asleep' = Asleep /\ cpu.owner \notin Asleep
    BY SameAsleep DEF Asleep
  <1>7. Continuation("looping") = "loop" /\ Continuation("yielding") = "critical"
    BY Continuations
  <1>8. SyncInv'
    <2>1. CASE Caller \in {"looping", "yielding"} /\ Caller \in Calls
      <3>1. \/ Points[cpu.owner] = "looping" /\ Points'[cpu.owner] = "loop"
            \/ Points[cpu.owner] = "yielding" /\ Points'[cpu.owner] = "critical"
        BY <1>5, <1>7, <2>1
      <3>2. \/ Stages[cpu.owner] = "looping" /\ Stages'[cpu.owner] = "loop"
            \/ Stages[cpu.owner] = "yielding" /\ Stages'[cpu.owner] = "critical"
        BY <1>2, <3>1 DEF Stages, Stage
      <3>3. /\ Moves(Points, Locals, Points', Locals', cpu.owner)
            /\ Moves(Stages, Carries, Stages', Carries', cpu.owner)
        BY <1>2, <1>5, <2>1, StagesMove
      <3>4. SyncOK(Stages', Carries', Asleep, mutex)
        BY <1>1, <1>2, <1>6, <3>2, <3>3, SilentStep
      <3>5. LoadedInv'
        BY <1>1, <1>2, <3>1, <3>3, LoadedKeeps DEF Loaded
      <3> QED
        BY <1>6, <3>4, <3>5 DEF SyncInv
    <2>2. CASE Points' = Points /\ Locals' = Locals
      BY <1>6, <2>2, SameSync
    <2> QED
      BY <1>5, <2>1, <2>2 DEF Calls
  <1>9. Top'.at \notin {"park", "run", "set_current", "switch"}
    <2>1. Continuation(Caller) \in Interrupted \cup {"pick", "resumed", "loop", "critical"}
      BY <1>5, <1>7
    <2> QED
      BY <1>5, <2>1 DEF Interrupted, SafePoints, ClientPoints, Calls
  <1>10. gt_current = cpu.owner
    BY <1>1 DEF SwitchInv
  <1>11. SwitchInv'
    BY <1>1, <1>5, <1>9, <1>10 DEF SwitchInv
  <1>12. Chosen' = gt_current /\ Chosen = gt_current
    BY <1>9 DEF Chosen
  <1>13. \A t \in Threads : state'[t] = "Unused" <=> Points'[t] = "returned"
    <2>1. Points'[cpu.owner] # "returned"
      BY <1>3, <1>5, <1>7
    <2>2. \A t \in Threads \ {cpu.owner} : Points'[t] = Points[t]
      BY <1>5 DEF Moves
    <2> QED
      BY <1>1, <1>3, <2>1, <2>2 DEF TableInv
  <1>14. TableInv'
    BY <1>1, <1>5, <1>9, <1>10, <1>12, <1>13 DEF TableInv
  <1> QED
    BY <1>4, <1>5, <1>8, <1>11, <1>14 DEF PreemptInv

LEMMA ResumedKeeps == ASSUME PreemptInv, Resumed PROVE PreemptInv'
  <1>1. /\ phase = "run" /\ Top.at = "resumed" /\ phase' = Outcome(TRUE)
        /\ cpu' = [cpu EXCEPT !.frames = Pop(@)]
        /\ UNCHANGED <<state, gt_current, mutex, ctx>>
    BY DEF Resumed, At
  <1>2. gt_current = cpu.owner /\ state[Chosen] = "Running" /\ Chosen = gt_current
    BY <1>1 DEF PreemptInv, SwitchInv, TableInv, Chosen
  <1>3. Caller # "returned" => PhaseInv'
    BY <1>1 DEF Outcome, PhaseInv
  <1> QED
    BY <1>1, <1>2, <1>3, PopKeeps

(* With nobody Ready, main runs; a Blocked worker would need another that  *)
(* is inside, and not asleep.                                              *)
LEMMA OthersReturned ==
    ASSUME PreemptInv, Top.at = "pick", \A p \in Threads : state[p] # "Ready"
    PROVE  /\ cpu.owner = Main /\ state[Main] = "Running"
           /\ \A t \in Threads \ {Main} : state[t] = "Unused"
  <1>1. /\ SwitchInv /\ TableInv /\ SyncOK(Stages, Carries, Asleep, mutex)
        /\ state \in [Threads -> {"Unused", "Running", "Ready", "Blocked"}]
    BY DEF PreemptInv, SyncInv, TableInv
  <1>2. Main \in Threads
    BY Sizes DEF Main
  <1>3. gt_current = cpu.owner /\ Chosen = gt_current
    BY <1>1 DEF SwitchInv, Chosen
  <1>4. state[Main] = "Running" /\ cpu.owner = Main
    BY <1>1, <1>2, <1>3 DEF TableInv
  <1>5. \A t \in Threads \ {Main} : state[t] \in {"Unused", "Blocked"}
    BY <1>1, <1>3, <1>4 DEF TableInv
  <1>6. \A u \in Threads : ~Inside(Stages, Asleep, u)
    <2> SUFFICES ASSUME NEW u \in Threads, Inside(Stages, Asleep, u)
                 PROVE  FALSE
      OBVIOUS
    <2>1. Points[u] \notin {"loop", "looping", "returned"}
      BY DEF Inside, Holds, Stages, Stage
    <2>2. u # Main
      BY <2>1, Roles DEF PreemptInv, MainPoints
    <2>3. state[u] = "Blocked"
      BY <1>1, <1>5, <2>1, <2>2 DEF TableInv
    <2>4. u \in Asleep
      BY <2>3 DEF Asleep
    <2> QED
      BY <1>1, <2>4 DEF SyncOK, ValueOK, Inside, Holds
  <1>7. \A t \in Threads \ {Main} : state[t] # "Blocked"
    <2> SUFFICES ASSUME NEW t \in Threads \ {Main}, state[t] = "Blocked"
                 PROVE  FALSE
      OBVIOUS
    <2>1. Sleeps(Stages, Asleep, t)
      BY DEF Sleeps, Asleep
    <2> QED
      BY <1>1, <1>6, <2>1 DEF SyncOK, ValueOK
  <1> QED
    BY <1>4, <1>5, <1>7

LEMMA PickNoneKeeps == ASSUME PreemptInv, PickNone PROVE PreemptInv'
  <1>1. /\ phase = "run" /\ Top.at = "pick" /\ phase' = Outcome(FALSE)
        /\ \A p \in Threads : state[p] # "Ready"
        /\ cpu' = [cpu EXCEPT !.frames = Pop(@)]
        /\ UNCHANGED <<state, gt_current, mutex, ctx>>
    BY DEF PickNone, At
  <1>2. /\ state[cpu.owner] = "Running"
        /\ \A t \in Threads \ {Main} : state'[t] = "Unused"
    BY <1>1, OthersReturned
  <1>3. Caller # "returned" => PhaseInv'
    BY <1>1, <1>2 DEF Outcome, PhaseInv
  <1> QED
    BY <1>1, <1>2, <1>3, PopKeeps

-----------------------------------------------------------------------------
(* The steps of gt_schedule, and the handler's start.                      *)

LEMMA AlarmKeeps == ASSUME PreemptInv, Alarm, Top.at \in SafePoints PROVE PreemptInv'
  <1>1. /\ StackInv' /\ cpu'.owner = cpu.owner
        /\ Top.at \in SafePoints /\ Top'.at = "pick"
        /\ Points' = Points /\ Locals' = Locals
    BY AlarmMove DEF PreemptInv
  <1>2. UNCHANGED <<state, gt_current, mutex, ctx, phase>>
    BY DEF Alarm, Unchanged
  <1>3. SyncInv'
    BY <1>1, <1>2, SameAsleep, SameSync
  <1>4. Top.at \notin {"park", "run", "set_current", "switch"}
    BY <1>1 DEF SafePoints, ClientPoints
  <1>5. SwitchInv'
    BY <1>1, <1>2, <1>4 DEF PreemptInv, SwitchInv
  <1>6. Chosen' = gt_current /\ Chosen = gt_current
    BY <1>1, <1>2, <1>4 DEF Chosen
  <1>7. TableInv'
    BY <1>1, <1>2, <1>4, <1>6 DEF PreemptInv, TableInv
  <1>8. PhaseInv'
    BY <1>2 DEF PreemptInv, PhaseInv
  <1> QED
    BY <1>1, <1>3, <1>5, <1>7, <1>8 DEF PreemptInv

LEMMA PickKeeps == ASSUME PreemptInv, Pick PROVE PreemptInv'
  <1>1. PICK p \in Threads : state[p] = "Ready" /\ Goto("pick", "park", p) /\ Unchanged
    BY DEF Pick
  <1>2. UNCHANGED <<state, gt_current, mutex, ctx, phase>> /\ p \in AnyLocal
    BY <1>1 DEF Unchanged, AnyLocal
  <1>3. /\ StackInv' /\ cpu'.owner = cpu.owner
        /\ Top.at = "pick" /\ Top'.at = "park" /\ Top'.local = p
        /\ Points' = Points /\ Locals' = Locals
    BY <1>1, <1>2, ScheduleMove DEF PreemptInv, SchedulePoints
  <1>4. SyncInv'
    BY <1>2, <1>3, SameAsleep, SameSync
  <1>5. p # cpu.owner
    BY <1>1, <1>3 DEF PreemptInv, TableInv
  <1>6. SwitchInv'
    BY <1>1, <1>2, <1>3, <1>5 DEF PreemptInv, SwitchInv
  <1>7. Chosen' = gt_current /\ Chosen = gt_current
    BY <1>2, <1>3 DEF Chosen
  <1>8. TableInv'
    BY <1>2, <1>3, <1>7 DEF PreemptInv, TableInv
  <1>9. PhaseInv'
    BY <1>2 DEF PreemptInv, PhaseInv
  <1> QED
    BY <1>3, <1>4, <1>6, <1>8, <1>9 DEF PreemptInv

LEMMA ParkKeeps == ASSUME PreemptInv, Park PROVE PreemptInv'
  <1>1. /\ Goto("park", "run", Top.local)
        /\ state' = [state EXCEPT ![gt_current] =
                       IF @ \in {"Unused", "Blocked"} THEN @ ELSE "Ready"]
        /\ UNCHANGED <<gt_current, mutex, ctx, phase>>
    BY DEF Park
  <1>2. /\ StackInv' /\ cpu'.owner = cpu.owner
        /\ Top.at = "park" /\ Top'.at = "run" /\ Top'.local = Top.local
        /\ Points' = Points /\ Locals' = Locals
    BY <1>1, LocalTypes, ScheduleMove DEF PreemptInv, SchedulePoints
  <1>3. /\ gt_current = cpu.owner /\ cpu.owner \in Threads
        /\ Top.local \in Threads \ {cpu.owner} /\ state[Top.local] = "Ready"
    BY <1>2 DEF PreemptInv, SwitchInv
  <1>4. /\ TableInv /\ Chosen = gt_current /\ Chosen' = NoThread
    BY <1>2 DEF PreemptInv, Chosen
  <1>5. /\ state' \in [Threads -> {"Unused", "Running", "Ready", "Blocked"}]
        /\ state'[cpu.owner] =
              IF state[cpu.owner] \in {"Unused", "Blocked"} THEN state[cpu.owner] ELSE "Ready"
        /\ \A t \in Threads \ {cpu.owner} : state'[t] = state[t]
    BY <1>1, <1>3, <1>4 DEF TableInv
  <1>6. Asleep' = Asleep
    BY <1>3, <1>5 DEF Asleep
  <1>7. SyncInv'
    BY <1>1, <1>2, <1>6, SameSync
  <1>8. SwitchInv'
    BY <1>1, <1>2, <1>3, <1>5 DEF PreemptInv, SwitchInv
  <1>9. \A t \in Threads : state'[t] # "Running"
    BY <1>3, <1>4, <1>5 DEF TableInv
  <1>10. \A t \in Threads : state'[t] = "Unused" <=> Points'[t] = "returned"
    BY <1>2, <1>3, <1>4, <1>5 DEF TableInv
  <1>11. state'[Main] \in {"Running", "Ready"}
    BY <1>3, <1>4, <1>5, Sizes DEF TableInv, Main
  <1>12. TableInv'
    BY <1>2, <1>5, <1>9, <1>10, <1>11 DEF TableInv
  <1>13. PhaseInv'
    BY <1>1 DEF PreemptInv, PhaseInv, Goto, At
  <1> QED
    BY <1>2, <1>7, <1>8, <1>12, <1>13 DEF PreemptInv

LEMMA RunKeeps == ASSUME PreemptInv, Run PROVE PreemptInv'
  <1>1. /\ Goto("run", "set_current", Top.local)
        /\ state' = [state EXCEPT ![Top.local] = "Running"]
        /\ UNCHANGED <<gt_current, mutex, ctx, phase>>
    BY DEF Run
  <1>2. /\ StackInv' /\ cpu'.owner = cpu.owner
        /\ Top.at = "run" /\ Top'.at = "set_current" /\ Top'.local = Top.local
        /\ Points' = Points /\ Locals' = Locals
    BY <1>1, LocalTypes, ScheduleMove DEF PreemptInv, SchedulePoints
  <1>3. PICK p : p = Top.local
    OBVIOUS
  <1>4. gt_current = cpu.owner /\ p \in Threads \ {cpu.owner} /\ state[p] = "Ready"
    BY <1>2, <1>3 DEF PreemptInv, SwitchInv
  <1>5. TableInv /\ Chosen = NoThread /\ Chosen' = p
    BY <1>2, <1>3 DEF PreemptInv, Chosen
  <1>6. /\ state' \in [Threads -> {"Unused", "Running", "Ready", "Blocked"}]
        /\ state'[p] = "Running"
        /\ \A t \in Threads \ {p} : state'[t] = state[t]
    BY <1>1, <1>3, <1>4, <1>5 DEF TableInv
  <1>7. Asleep' = Asleep
    BY <1>4, <1>6 DEF Asleep
  <1>8. SyncInv'
    BY <1>1, <1>2, <1>7, SameSync
  <1>9. SwitchInv'
    BY <1>1, <1>2, <1>3, <1>4 DEF PreemptInv, SwitchInv
  <1>10. \A t \in Threads : state'[t] = "Running" => t = p
    BY <1>5, <1>6, Sizes DEF TableInv
  <1>11. \A t \in Threads : state'[t] = "Unused" <=> Points'[t] = "returned"
    BY <1>2, <1>4, <1>5, <1>6 DEF TableInv
  <1>12. state'[Main] \in {"Running", "Ready"}
    BY <1>5, <1>6, Sizes DEF TableInv, Main
  <1>13. TableInv'
    BY <1>2, <1>5, <1>6, <1>10, <1>11, <1>12 DEF TableInv
  <1>14. PhaseInv'
    BY <1>1 DEF PreemptInv, PhaseInv, Goto, At
  <1> QED
    BY <1>2, <1>8, <1>9, <1>13, <1>14 DEF PreemptInv

LEMMA SetCurrentKeeps == ASSUME PreemptInv, SetCurrent PROVE PreemptInv'
  <1>1. PICK x : x = [old |-> gt_current, new |-> Top.local]
    OBVIOUS
  <1>2. /\ Goto("set_current", "switch", x) /\ gt_current' = Top.local
        /\ UNCHANGED <<state, mutex, ctx, phase>>
    BY <1>1 DEF SetCurrent
  <1>3. Top.at = "set_current"
    BY <1>2 DEF Goto, At
  <1>4. /\ gt_current = cpu.owner /\ cpu.owner \in Threads
        /\ Top.local \in Threads \ {cpu.owner}
    BY <1>3 DEF PreemptInv, SwitchInv
  <1>5. x \in AnyLocal
    BY <1>1, <1>4 DEF AnyLocal
  <1>6. /\ StackInv' /\ cpu'.owner = cpu.owner
        /\ Top'.at = "switch" /\ Top'.local = x
        /\ Points' = Points /\ Locals' = Locals
    BY <1>2, <1>5, ScheduleMove DEF PreemptInv, SchedulePoints
  <1>7. SyncInv'
    BY <1>2, <1>6, SameAsleep, SameSync
  <1>8. SwitchInv'
    BY <1>1, <1>2, <1>4, <1>6 DEF SwitchInv
  <1>9. Chosen' = Top.local /\ Chosen = Top.local
    BY <1>2, <1>3, <1>6 DEF Chosen
  <1>10. TableInv'
    BY <1>2, <1>3, <1>6, <1>9 DEF PreemptInv, TableInv
  <1>11. PhaseInv'
    BY <1>2 DEF PreemptInv, PhaseInv
  <1> QED
    BY <1>6, <1>7, <1>8, <1>10, <1>11 DEF PreemptInv

LEMMA SwitchKeeps == ASSUME PreemptInv, gt_switch PROVE PreemptInv'
  <1>1. UNCHANGED <<state, gt_current, mutex>>
    BY DEF gt_switch
  <1>2. /\ StackInv' /\ cpu'.owner = gt_current
        /\ Top.at = "switch" /\ Top'.at \in {"user", "resumed"}
        /\ Points' = Points /\ Locals' = Locals /\ phase' = phase
    BY SwitchMove DEF PreemptInv
  <1>3. SyncInv'
    BY <1>1, <1>2, SameAsleep, SameSync
  <1>4. SwitchInv'
    BY <1>1, <1>2 DEF PreemptInv, SwitchInv
  <1>5. Chosen' = gt_current /\ Chosen = gt_current
    BY <1>1, <1>2 DEF Chosen
  <1>6. TableInv'
    BY <1>1, <1>2, <1>5 DEF PreemptInv, TableInv
  <1>7. PhaseInv'
    BY <1>1, <1>2 DEF PreemptInv, PhaseInv
  <1> QED
    BY <1>2, <1>3, <1>4, <1>6, <1>7 DEF PreemptInv

LEMMA StopKeeps ==
    ASSUME PreemptInv, UNCHANGED <<state, gt_current, mutex, ctx, cpu>>,
           phase' \in {phase, "crashed"}
    PROVE  PreemptInv'
  <1>1. Top' = Top /\ Points' = Points /\ Locals' = Locals /\ Chosen' = Chosen
    BY DEF Top, Points, Locals, Frames, Chosen
  <1>2. SyncInv'
    BY <1>1, SameAsleep, SameSync
  <1>3. StackInv' /\ SwitchInv' /\ TableInv'
    BY <1>1 DEF PreemptInv, StackInv, SwitchInv, TableInv
  <1>4. PhaseInv'
    BY DEF PreemptInv, PhaseInv
  <1> QED
    BY <1>2, <1>3, <1>4 DEF PreemptInv

-----------------------------------------------------------------------------
(* The inductive invariant.                                                *)

LEMMA InitHolds == ASSUME Init PROVE PreemptInv
  <1> DEFINE first == <<Frame("loop", NoThread)>>
             later == <<Frame("user", NoThread)>>
  <1>1. /\ Main \in Threads /\ NoThread \notin Threads /\ 0 \in Slots
        /\ MAX_G_THREADS \in Nat \ {0}
    BY Sizes DEF Main
  <1>2. /\ Frame("loop", NoThread) \in AnyFrame /\ Frame("user", NoThread) \in AnyFrame
        /\ first[1].at = "loop" /\ later[1].at = "user"
        /\ Len(first) = 1 /\ Len(later) = 1
    BY DEF Frame, AnyFrame, AllPoints, ClientPoints, AnyLocal
  <1>3. /\ first \in Seq(AnyFrame) /\ later \in Seq(AnyFrame)
        /\ Outermost(first).at = "loop" /\ Outermost(later).at = "user"
    BY <1>2 DEF Outermost
  <1>4. FramesOK(Main, first)
    BY <1>2, <1>3 DEF FramesOK, MainPoints, Calls
  <1>5. \A t \in Threads \ {Main} : FramesOK(t, later) /\ SuspendedAt(later)
    BY <1>2, <1>3 DEF FramesOK, SuspendedAt, WorkerPoints, ClientPoints, Calls
  <1>6. /\ cpu.owner = Main /\ cpu.frames = first
        /\ cpu = [owner |-> Main, frames |-> first]
        /\ ctx[Main] = Stale
        /\ \A t \in Threads \ {Main} : ctx[t].owner = t /\ ctx[t].frames = later
    BY <1>1 DEF Init, Stack
  <1>7. Top.at = "loop"
    BY <1>2, <1>6 DEF Top
  <1>8. /\ Points[Main] = "loop"
        /\ \A t \in Threads \ {Main} : Points[t] = "user"
    BY <1>1, <1>3, <1>6 DEF Points, Frames
  <1> HIDE DEF first, later
  <1>9. StackInv
    <2>1. cpu \in [owner : Threads, frames : Seq(AnyFrame)]
      BY <1>1, <1>3, <1>6
    <2>2. ctx \in [Threads -> [owner : Threads \cup {NoThread}, frames : Seq(AnyFrame)]]
      <3>1. Stale \in [owner : Threads \cup {NoThread}, frames : Seq(AnyFrame)]
        BY DEF Stale, Stack
      <3>2. \A t \in Threads :
               Stack(t, later) \in [owner : Threads \cup {NoThread}, frames : Seq(AnyFrame)]
        BY <1>3 DEF Stack
      <3> QED
        BY <3>1, <3>2 DEF Init, later
    <2> QED
      BY <1>4, <1>5, <1>6, <2>1, <2>2 DEF StackInv
  <1>10. SwitchInv
    BY <1>1, <1>6, <1>7 DEF Init, SwitchInv
  <1>11. Chosen = Main
    BY <1>7 DEF Init, Chosen
  <1>12. TableInv
    BY <1>1, <1>6, <1>7, <1>8, <1>11 DEF Init, TableInv
  <1>13. /\ Asleep = {}
         /\ \A t \in Threads : /\ ~Holds(Stages, Asleep, t) /\ ~Inside(Stages, Asleep, t)
                               /\ ~Sleeps(Stages, Asleep, t) /\ ~Adds(Stages, t)
                               /\ Stages[t] \in {"loop", "user"}
         /\ LoadedInv
    <2>1. Asleep = {}
      BY DEF Init, Asleep
    <2>2. \A t \in Threads : Points[t] \in {"loop", "user"}
      BY <1>1, <1>8
    <2>3. \A t \in Threads : Stages[t] \in {"loop", "user"}
      BY <2>2 DEF Stages, Stage
    <2>4. LoadedInv
      BY <2>2 DEF LoadedInv, Loaded
    <2> QED
      BY <2>1, <2>3, <2>4 DEF Holds, Inside, Sleeps, Adds
  <1>14. SemaphoreOK(mutex) /\ mutex.value = 1 /\ mutex.wait_count = 0
         /\ mutex.head = 0 /\ mutex.tail = 0
    BY <1>1 DEF Init, SemaphoreOK
  <1>15. ValueOK(Stages, Carries, Asleep, mutex)
    BY <1>13, <1>14 DEF ValueOK, One
  <1>16. Queued(Stages, mutex) = 0 /\ Slot(mutex, 0) = 0
    BY <1>1, <1>13, <1>14 DEF Queued, Slot, One
  <1>17. RingOK(Stages, Carries, Asleep, mutex)
    BY <1>1, <1>13, <1>14, <1>16 DEF RingOK
  <1>18. PhaseInv
    BY DEF Init, PhaseInv
  <1> QED
    BY <1>9, <1>10, <1>12, <1>13, <1>14, <1>15, <1>17, <1>18 DEF PreemptInv, SyncInv, SyncOK

LEMMA StatementKeeps == ASSUME PreemptInv, Statement PROVE PreemptInv'
  <1>1. CASE WaitLoad \/ WaitStore \/ WaitTest \/ WaitEnqueue
    BY <1>1, WaitLoadKeeps, WaitStoreKeeps, WaitTestKeeps, WaitEnqueueKeeps
  <1>2. CASE WaitTail \/ WaitTailStore \/ WaitCount \/ WaitCountStore
    BY <1>2, WaitTailKeeps, WaitTailStoreKeeps, WaitCountKeeps, WaitCountStoreKeeps
  <1>3. CASE WaitBlock \/ WaitYield
    BY <1>3, WaitBlockKeeps, WaitYieldKeeps
  <1>4. CASE PostLoad \/ PostStore \/ PostTest \/ PostTake
    BY <1>4, PostLoadKeeps, PostStoreKeeps, PostTestKeeps, PostTakeKeeps
  <1>5. CASE PostHead \/ PostHeadStore \/ PostCount \/ PostCountStore \/ PostReady
    BY <1>5, PostHeadKeeps, PostHeadStoreKeeps, PostCountKeeps, PostCountStoreKeeps,
       PostReadyKeeps
  <1>6. CASE Return \/ MainLoop
    BY <1>6, ReturnKeeps, MainLoopKeeps
  <1>7. CASE FreeTraps
    BY <1>7, StopKeeps DEF FreeTraps
  <1>8. CASE Pick \/ PickNone \/ Park \/ Run
    BY <1>8, PickKeeps, PickNoneKeeps, ParkKeeps, RunKeeps
  <1>9. CASE SetCurrent \/ gt_switch \/ Resumed
    BY <1>9, SetCurrentKeeps, SwitchKeeps, ResumedKeeps
  <1>10. CASE Stopped
    BY <1>10, StopKeeps DEF Stopped, program
  <1> QED
    BY <1>1, <1>2, <1>3, <1>4, <1>5, <1>6, <1>7, <1>8, <1>9, <1>10 DEF Statement

(* The alarms that disturb are those before the other statements.          *)
LEMMA AlarmDisturbs ==
    ASSUME Alarm, ~disturbed'
    PROVE  ~disturbed /\ Top.at \in SafePoints
  BY DEF Alarm

LibraryInv == ~disturbed => PreemptInv

LEMMA StepKeeps == ASSUME LibraryInv, [Next]_vars PROVE LibraryInv'
  <1> SUFFICES ASSUME ~disturbed'
               PROVE  PreemptInv'
    BY DEF LibraryInv
  <1>1. CASE Statement /\ UNCHANGED disturbed
    BY <1>1, StatementKeeps DEF LibraryInv
  <1>2. CASE Alarm
    BY <1>2, AlarmDisturbs, AlarmKeeps DEF LibraryInv
  <1>3. CASE UNCHANGED vars
    BY <1>3, StopKeeps DEF LibraryInv, vars, program
  <1> QED
    BY <1>1, <1>2, <1>3 DEF Next

(* Whatever the alarms, the library's invariant holds until one has come   *)
(* before a statement that is not among SafePoints (gthr.c:52-99, 435-507). *)
THEOREM LibraryUntilDisturbed == Spec => []LibraryInv
  <1>1. Init => LibraryInv
    BY InitHolds DEF LibraryInv
  <1>2. LibraryInv /\ [Next]_vars => LibraryInv'
    BY StepKeeps
  <1> QED
    BY <1>1, <1>2, PTL DEF Spec

(* gt_sem_wait and gt_sem_post exclude: whatever the handlers do to the    *)
(* threads in between, one at a time is between its wait and its post      *)
(* (semaphore_test.c:18), until an alarm disturbs.                         *)
THEOREM MutexExcludes == Spec => []ExclusionUntilDisturbed
  <1>1. LibraryInv => ExclusionUntilDisturbed
    <2> SUFFICES ASSUME PreemptInv, NEW t \in Threads, NEW u \in Threads,
                        InCritical(t), InCritical(u)
                 PROVE  t = u
      BY DEF LibraryInv, ExclusionUntilDisturbed, MutualExclusion
    <2>1. Points[t] = "critical" /\ Points[u] = "critical"
      BY DEF InCritical, Points, Outermost
    <2>2. Inside(Stages, Asleep, t) /\ Inside(Stages, Asleep, u)
      BY <2>1 DEF Inside, Holds, Stages, Stage
    <2> QED
      BY <2>2 DEF PreemptInv, SyncInv, SyncOK, ValueOK
  <1> QED
    BY <1>1, LibraryUntilDisturbed, PTL

(* What changes the mark of a thread that is Blocked.                      *)
LEMMA StatementBlocked == ASSUME PreemptInv, Statement PROVE BlockedStays
  <1> SUFFICES ASSUME NEW t \in Threads, state[t] = "Blocked", state'[t] # "Blocked"
               PROVE  Top.at = "post_ready"
    BY DEF BlockedStays
  <1>1. StackInv /\ SwitchInv /\ TableInv /\ SyncOK(Stages, Carries, Asleep, mutex)
    BY DEF PreemptInv, SyncInv
  <1>2. CASE state' = state
    BY <1>2
  <1>3. CASE WaitBlock
    BY <1>1, <1>3 DEF WaitBlock, TableInv, SwitchInv
  <1>4. CASE PostReady
    BY <1>4 DEF PostReady, Goto, At
  <1>5. CASE Return
    <2>1. Call("user", "returned") /\ state' = [state EXCEPT ![gt_current] = "Unused"]
          /\ ctx' = ctx
      BY <1>5 DEF Return
    <2>2. Points[cpu.owner] = "user" /\ gt_current = cpu.owner /\ cpu.owner \in Threads
      BY <1>1, <2>1, CallMove DEF MainPoints, WorkerPoints, ClientPoints, Calls
    <2>3. t = cpu.owner
      BY <1>1, <2>1, <2>2 DEF TableInv
    <2>4. Stages[t] \in {"wait_yield", "yielding"} /\ Stages[t] = "user"
      BY <1>1, <2>2, <2>3 DEF Asleep, SyncOK, ValueOK, Stages, Stage
    <2> QED
      BY <2>4
  <1>6. CASE Park
    BY <1>1, <1>6 DEF Park, TableInv, SwitchInv
  <1>7. CASE Run
    <2>1. /\ Top.at = "run" /\ state' = [state EXCEPT ![Top.local] = "Running"]
      BY <1>7 DEF Run, Goto, At
    <2>2. Top.local \in Threads /\ state[Top.local] = "Ready"
      BY <1>1, <2>1 DEF SwitchInv
    <2> QED
      BY <1>1, <2>1, <2>2 DEF TableInv
  <1> QED
    BY <1>2, <1>3, <1>4, <1>5, <1>6, <1>7
    DEF Statement, Unchanged, WaitLoad, WaitStore, WaitTest, WaitEnqueue, WaitTail,
        WaitTailStore, WaitCount, WaitCountStore, WaitYield, PostLoad, PostStore, PostTest,
        PostTake, PostHead, PostHeadStore, PostCount, PostCountStore, FreeTraps, MainLoop,
        Pick, PickNone, SetCurrent, gt_switch, Resumed, Stopped, program

(* A thread that gt_sem_wait has marked Blocked is woken by posts alone    *)
(* (gthr.c:476), with gt_schedule entered again by handlers, until an      *)
(* alarm disturbs.                                                         *)
THEOREM BlockedWaitForPosts == Spec => WakingUntilDisturbed
  <1>1. LibraryInv /\ [Next]_vars => [~disturbed => BlockedStays]_vars
    <2> SUFFICES ASSUME PreemptInv, Next
                 PROVE  BlockedStays
      BY DEF LibraryInv
    <2>1. CASE Statement
      BY <2>1, StatementBlocked
    <2>2. CASE Alarm
      BY <2>2 DEF Alarm, Unchanged, BlockedStays
    <2> QED
      BY <2>1, <2>2 DEF Next
  <1> QED
    BY <1>1, LibraryUntilDisturbed, PTL DEF Spec, WakingUntilDisturbed

(* gt_switch saves each thread's stack in the thread's own context, and    *)
(* outside gt_schedule the stack in use is gt_current's, with as many      *)
(* calls of gt_schedule on it as handlers interrupted one another          *)
(* (gthr.c:487), until an alarm disturbs.                                  *)
THEOREM StacksAreTheirOwn == Spec => []StacksUntilDisturbed
  <1>1. LibraryInv => StacksUntilDisturbed
    <2> SUFFICES ASSUME PreemptInv
                 PROVE  OwnStack
      BY DEF LibraryInv, StacksUntilDisturbed
    <2>1. StackInv /\ SwitchInv
      BY DEF PreemptInv
    <2>2. \A t \in Threads : ctx[t] # Stale => ctx[t].owner = t
      BY <2>1 DEF StackInv
    <2>3. Top.at \notin SchedulePoints => cpu.owner = gt_current
      BY <2>1 DEF SwitchInv, SchedulePoints
    <2> QED
      BY <2>2, <2>3 DEF OwnStack
  <1> QED
    BY <1>1, LibraryUntilDisturbed, PTL

(* gt_return's assertion is not reached: a thread that returned is never   *)
(* switched to again (gthr.c:425), until an alarm disturbs.                *)
THEOREM ReturnedStayOut == Spec => []ReturnUntilDisturbed
  <1>1. LibraryInv => ReturnUntilDisturbed
    BY DEF LibraryInv, PreemptInv, PhaseInv, ReturnUntilDisturbed, NeverAborted
  <1> QED
    BY <1>1, LibraryUntilDisturbed, PTL

(* The loop of gt_return leaves only when every other thread has returned: *)
(* none of them is asleep at the semaphore (gthr.c:428), until an alarm    *)
(* disturbs.                                                               *)
THEOREM MainLeavesLast == Spec => []MainUntilDisturbed
  <1>1. LibraryInv => MainUntilDisturbed
    BY DEF LibraryInv, PreemptInv, PhaseInv, MainUntilDisturbed, MainWaitsForAll
  <1> QED
    BY <1>1, LibraryUntilDisturbed, PTL
=============================================================================
