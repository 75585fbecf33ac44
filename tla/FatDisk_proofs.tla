--------------------------- MODULE FatDisk_proofs ---------------------------
(* Facts about the operators of FatDisk, for every geometry of the volume. *)
EXTENDS FatDisk, FiniteSetTheorems, SequenceTheorems, WellFoundedInduction, TLAPS

-----------------------------------------------------------------------------
(* Induction and recursion over an interval.                               *)

LEMMA LeastElement ==
    ASSUME NEW T, T \subseteq Nat, T # {}
    PROVE  \E x \in T : \A y \in T : x <= y
  <1>1. \E x \in T : \A y \in T : ~ (<<y, x>> \in OpToRel(<, Nat))
    BY WFMin, NatLessThanWellFounded
  <1>2. ASSUME NEW x \in T, NEW y \in T, <<y, x>> \notin OpToRel(<, Nat)
        PROVE  x <= y
    BY <1>2 DEF OpToRel
  <1> QED
    BY <1>1, <1>2

(* A set that holds 0 and with each number up to n the next holds them all. *)
LEMMA UpTo ==
    ASSUME NEW n \in Nat, NEW T, 0 \in T,
           \A k \in 0 .. n - 1 : k \in T => k + 1 \in T
    PROVE  \A k \in 0 .. n : k \in T
  <1> DEFINE Missing == {k \in 0 .. n : k \notin T}
  <1> SUFFICES ASSUME Missing # {} PROVE FALSE
    OBVIOUS
  <1>1. PICK x \in Missing : \A y \in Missing : x <= y
    <2>1. Missing \subseteq Nat
      OBVIOUS
    <2> HIDE DEF Missing
    <2> QED
      BY <2>1, LeastElement
  <1>2. x - 1 \in 0 .. n - 1 /\ x - 1 \notin Missing
    BY <1>1
  <1> QED
    BY <1>1, <1>2

(* A function is defined by its value at 0 and a step h.                   *)
Iterates(f, n, S, v, h) ==
    /\ f \in [0 .. n -> S]
    /\ f[0] = v
    /\ \A k \in 1 .. n : f[k] = h[k][f[k - 1]]

IsStep(h, n, S) == h \in [1 .. n -> [S -> S]]

LEMMA Recursion ==
    ASSUME NEW n \in Nat, NEW S, NEW v, v \in S, NEW h, IsStep(h, n, S)
    PROVE  \E f : Iterates(f, n, S, v, h)
  <1> DEFINE T == {m \in 0 .. n :
                     \E f \in [0 .. m -> S] :
                       f[0] = v /\ \A k \in 1 .. m : f[k] = h[k][f[k - 1]]}
  <1> h \in [1 .. n -> [S -> S]]
    BY DEF IsStep
  <1>1. 0 \in T
    <2> DEFINE f == [k \in 0 .. 0 |-> v]
    <2>1. f \in [0 .. 0 -> S] /\ f[0] = v /\ \A k \in 1 .. 0 : FALSE
      OBVIOUS
    <2> HIDE DEF f
    <2> QED
      BY <2>1
  <1>2. ASSUME NEW m \in 0 .. n - 1, m \in T
        PROVE  m + 1 \in T
    <2>1. PICK f \in [0 .. m -> S] :
            f[0] = v /\ \A k \in 1 .. m : f[k] = h[k][f[k - 1]]
      BY <1>2
    <2> DEFINE g == [k \in 0 .. m + 1 |->
                       IF k <= m THEN f[k] ELSE h[m + 1][f[m]]]
    <2>2. h[m + 1][f[m]] \in S
      OBVIOUS
    <2>3. g \in [0 .. m + 1 -> S]
      BY <2>2
    <2>4. \A k \in 0 .. m : g[k] = f[k]
      OBVIOUS
    <2>5. g[m + 1] = h[m + 1][f[m]]
      OBVIOUS
    <2> HIDE DEF g
    <2>6. ASSUME NEW k \in 1 .. m + 1
          PROVE  g[k] = h[k][g[k - 1]]
      <3>1. CASE k <= m
        <4>1. k \in 1 .. m /\ k - 1 \in 0 .. m /\ k \in 0 .. m
          BY <3>1
        <4> QED
          BY <4>1, <2>4, <2>1
      <3>2. CASE k = m + 1
        <4>1. k - 1 = m /\ m \in 0 .. m
          BY <3>2
        <4> QED
          BY <4>1, <3>2, <2>4, <2>5
      <3> QED
        BY <3>1, <3>2
    <2>7. g[0] = v
      BY <2>1, <2>4
    <2> QED
      BY <2>3, <2>6, <2>7
  <1> HIDE DEF T
  <1>3. \A m \in 0 .. n : m \in T
    BY <1>1, <1>2, UpTo
  <1>4. n \in T
    BY <1>3
  <1> QED
    BY <1>4 DEF T, Iterates

(* Two functions with the same start and the same step are the same.       *)
LEMMA RecursionIsUnique ==
    ASSUME NEW n \in Nat, NEW f, NEW g,
           f[0] = g[0],
           \A k \in 1 .. n : f[k - 1] = g[k - 1] => f[k] = g[k]
    PROVE  \A k \in 0 .. n : f[k] = g[k]
  <1> DEFINE T == {k \in 0 .. n : f[k] = g[k]}
  <1>1. 0 \in T
    OBVIOUS
  <1>2. ASSUME NEW k \in 0 .. n - 1, k \in T
        PROVE  k + 1 \in T
    <2>1. k + 1 \in 1 .. n /\ (k + 1) - 1 = k
      OBVIOUS
    <2> QED
      BY <1>2, <2>1
  <1> QED
    BY <1>1, <1>2, UpTo

-----------------------------------------------------------------------------
(* FlattenSeq: the concatenation of n blocks, block by block.              *)
Blocks(b, s, n, S) ==
    /\ b \in [0 .. n -> Seq(S)]
    /\ b[0] = <<>>
    /\ \A k \in 1 .. n : b[k] = b[k - 1] \o s[k]
    /\ FlattenSeq(s) = b[n]

LEMMA Flatten ==
    ASSUME NEW S, NEW n \in Nat, NEW s, s \in [1 .. n -> Seq(S)]
    PROVE  \E b : Blocks(b, s, n, S)
  <1> DEFINE h == [k \in 1 .. n |-> [q \in Seq(S) |-> q \o s[k]]]
  <1>1. h \in [1 .. n -> [Seq(S) -> Seq(S)]]
    OBVIOUS
  <1>2. \A k \in 1 .. n, q \in Seq(S) : h[k][q] = q \o s[k]
    OBVIOUS
  <1> HIDE DEF h
  <1>3. PICK b \in [0 .. n -> Seq(S)] :
          b[0] = <<>> /\ \A k \in 1 .. n : b[k] = h[k][b[k - 1]]
    <2> DEFINE Q == Seq(S)
               none == <<>>
    <2>1. none \in Q /\ IsStep(h, n, Q)
      BY <1>1 DEF IsStep
    <2> HIDE DEF Q, none
    <2>2. \E b : Iterates(b, n, Q, none, h)
      BY <2>1, Recursion
    <2> QED
      BY <2>2 DEF Q, none, Iterates
  <1>4. \A k \in 1 .. n : b[k] = b[k - 1] \o s[k]
    <2> TAKE k \in 1 .. n
    <2>1. k - 1 \in 0 .. n
      OBVIOUS
    <2> QED
      BY <1>2, <1>3, <2>1
  <1>5. Len(s) = n
    OBVIOUS
  <1>6. FlattenSeq(s) = b[n]
    <2>1. CASE n = 0
      <3>1. s = <<>>
        BY <2>1
      <3> QED
        BY <2>1, <1>5, <1>3, <3>1 DEF FlattenSeq
    <2>2. CASE n # 0
      <3> DEFINE f == [i \in 1 .. n |-> b[i]]
      <3>1. \A i \in 1 .. n : f[i] = IF i = 1 THEN s[i] ELSE f[i - 1] \o s[i]
        <4> TAKE i \in 1 .. n
        <4>1. CASE i = 1
          <5>3. 1 \in 1 .. n /\ 1 - 1 = 0
            BY <2>2
          <5>4. b[1] = b[0] \o s[1]
            BY <5>3, <1>4
          <5>1. b[1] = <<>> \o s[1]
            BY <5>4, <1>3
          <5>2. s[1] \in Seq(S)
            BY <2>2
          <5> QED
            BY <4>1, <5>1, <5>2
        <4>2. CASE i # 1
          <5>1. i - 1 \in 1 .. n
            BY <4>2
          <5> QED
            BY <4>2, <5>1, <1>4
        <4> QED
          BY <4>1, <4>2
      <3>2. f = [i \in 1 .. n |-> IF i = 1 THEN s[i] ELSE f[i - 1] \o s[i]]
        BY <3>1
      <3>3. ASSUME NEW g,
                   g = [i \in 1 .. n |-> IF i = 1 THEN s[i] ELSE g[i - 1] \o s[i]]
            PROVE  g = f
        <4> HIDE DEF f
        <4>1. \A i \in 1 .. n : g[i] = IF i = 1 THEN s[i] ELSE g[i - 1] \o s[i]
          BY <3>3
        <4> DEFINE T == {k \in 0 .. n : k # 0 => g[k] = f[k]}
        <4>2. 0 \in T
          OBVIOUS
        <4>3. ASSUME NEW k \in 0 .. n - 1, k \in T
              PROVE  k + 1 \in T
          <5>1. k + 1 \in 1 .. n /\ (k + 1) - 1 = k
            OBVIOUS
          <5>2. CASE k = 0
            <6>1. g[1] = s[1] /\ f[1] = s[1]
              BY <5>1, <5>2, <4>1, <3>1
            <6> QED
              BY <5>1, <5>2, <6>1
          <5>3. CASE k # 0
            <6>1. g[k] = f[k]
              BY <4>3, <5>3
            <6>2. k + 1 # 1
              BY <5>3
            <6>3. g[k + 1] = g[k] \o s[k + 1] /\ f[k + 1] = f[k] \o s[k + 1]
              BY <6>2, <5>1, <4>1, <3>1
            <6>4. g[k + 1] = f[k + 1]
              BY <6>1, <6>3
            <6> QED
              BY <5>1, <6>4
          <5> QED
            BY <5>2, <5>3
        <4>4. \A k \in 0 .. n : k \in T
          <5> HIDE DEF T
          <5> QED
            BY <4>2, <4>3, UpTo
        <4>5. \A k \in 1 .. n : g[k] = f[k]
          <5> TAKE k \in 1 .. n
          <5>1. k \in T /\ k # 0
            BY <4>4
          <5> QED
            BY <5>1
        <4>6. DOMAIN g = 1 .. n /\ DOMAIN f = 1 .. n
          BY <3>3 DEF f
        <4>7. g = [i \in 1 .. n |-> g[i]] /\ f = [i \in 1 .. n |-> f[i]]
          BY <3>3, <4>6 DEF f
        <4> QED
          BY <4>5, <4>7
      <3> HIDE DEF f
      <3>4. FlattenSeq(s) = f[n]
        BY <1>5, <2>2, <3>2, <3>3 DEF FlattenSeq
      <3> QED
        BY <2>2, <3>4 DEF f
    <2> QED
      BY <2>1, <2>2
  <1> QED
    BY <1>3, <1>4, <1>6 DEF Blocks

-----------------------------------------------------------------------------
(* What a queue of writes makes of a disk.  V is the set of the values a   *)
(* cell can hold.                                                          *)

Disks(V) ==
    [fat : [Copies -> [Clusters -> Nat]],
     root : [1 .. RootDirEntries -> V],
     area : [Clusters -> Seq(V)]]

Disk == [fat |-> fat, root |-> root, area |-> area]

Writes(V) ==
    [to : {"fat"}, copy : Copies, cluster : Clusters, value : Nat]
    \cup [to : {"slot"}, dir : Nat, slot : Nat, value : V]
    \cup [to : {"area"}, cluster : Clusters, value : Seq(V)]

(* One write, as Apply makes it.                                           *)
After(v, x) ==
    [fat |-> IF x.to = "fat"
             THEN [v.fat EXCEPT ![x.copy] = [@ EXCEPT ![x.cluster] = x.value]]
             ELSE v.fat,
     root |-> IF x.to = "slot" /\ x.dir = RootDir
              THEN [v.root EXCEPT ![x.slot] = x.value] ELSE v.root,
     area |-> IF x.to = "slot" /\ x.dir # RootDir
              THEN [v.area EXCEPT ![x.dir] = [@ EXCEPT ![x.slot] = x.value]]
              ELSE IF x.to = "area"
              THEN [v.area EXCEPT ![x.cluster] = x.value] ELSE v.area]

LEMMA ApplyIsAfter ==
    ASSUME NEW x, Apply(x)
    PROVE  Disk' = After(Disk, x)
  <1>1. CASE x.to = "fat"
    BY <1>1 DEF Apply, After, Disk
  <1>2. CASE x.to = "slot" /\ x.dir = RootDir
    BY <1>2 DEF Apply, After, Disk
  <1>3. CASE x.to = "slot" /\ x.dir # RootDir
    BY <1>3 DEF Apply, After, Disk
  <1>4. CASE x.to = "area"
    BY <1>4 DEF Apply, After, Disk
  <1> QED
    BY <1>1, <1>2, <1>3, <1>4 DEF Apply

LEMMA AfterType ==
    ASSUME NEW V, NEW v \in Disks(V), NEW x \in Writes(V)
    PROVE  After(v, x) \in Disks(V)
  <1>1. /\ v.fat \in [Copies -> [Clusters -> Nat]]
        /\ v.root \in [1 .. RootDirEntries -> V]
        /\ v.area \in [Clusters -> Seq(V)]
    BY DEF Disks
  <1>2. CASE x \in [to : {"fat"}, copy : Copies, cluster : Clusters, value : Nat]
    <2>1. x.to = "fat" /\ x.copy \in Copies /\ x.cluster \in Clusters /\ x.value \in Nat
      BY <1>2
    <2> QED
      BY <1>1, <2>1 DEF After, Disks
  <1>3. CASE x \in [to : {"slot"}, dir : Nat, slot : Nat, value : V]
    <2>1. x.to = "slot" /\ x.dir \in Nat /\ x.slot \in Nat /\ x.value \in V
      BY <1>3
    <2>2. CASE x.dir = RootDir
      BY <1>1, <2>1, <2>2 DEF After, Disks
    <2>3. CASE x.dir # RootDir
      <3>1. ASSUME NEW q \in Seq(V)
            PROVE  [q EXCEPT ![x.slot] = x.value] \in Seq(V)
        <4>1. PICK n \in Nat : q \in [1 .. n -> V]
          <5>1. q \in [1 .. Len(q) -> V] /\ Len(q) \in Nat
            OBVIOUS
          <5> QED
            BY <5>1
        <4>2. [q EXCEPT ![x.slot] = x.value] \in [1 .. n -> V]
          BY <2>1, <4>1
        <4>3. \A f \in [1 .. n -> V] : f \in Seq(V)
          OBVIOUS
        <4> QED
          BY <4>2, <4>3
      <3>2. [v.area EXCEPT ![x.dir] = [@ EXCEPT ![x.slot] = x.value]]
              \in [Clusters -> Seq(V)]
        BY <1>1, <3>1
      <3> QED
        BY <1>1, <2>1, <2>3, <3>2 DEF After, Disks
    <2> QED
      BY <2>2, <2>3
  <1>4. CASE x \in [to : {"area"}, cluster : Clusters, value : Seq(V)]
    <2>1. x.to = "area" /\ x.cluster \in Clusters /\ x.value \in Seq(V)
      BY <1>4
    <2> QED
      BY <1>1, <2>1 DEF After, Disks
  <1> QED
    BY <1>2, <1>3, <1>4 DEF Writes

(* The writes q lead from disk v to disk w and no further than P.          *)
Runs(q, v, w, P) ==
    \E g \in [0 .. Len(q) -> P] :
       /\ g[0] = v /\ g[Len(q)] = w
       /\ \A k \in 1 .. Len(q) : g[k] = After(g[k - 1], q[k])

LEMMA RunsNone ==
    ASSUME NEW P, NEW v \in P
    PROVE  Runs(<<>>, v, v, P)
  <1> DEFINE g == [k \in 0 .. 0 |-> v]
  <1>1. g \in [0 .. 0 -> P] /\ g[0] = v /\ \A k \in 1 .. 0 : FALSE
    OBVIOUS
  <1> HIDE DEF g
  <1>2. Len(<<>>) = 0
    OBVIOUS
  <1> QED
    BY <1>1, <1>2 DEF Runs

LEMMA RunsNothing ==
    ASSUME NEW P, NEW v, NEW w, Runs(<<>>, v, w, P)
    PROVE  v = w /\ v \in P
  <1>1. Len(<<>>) = 0
    OBVIOUS
  <1>2. PICK g \in [0 .. 0 -> P] : g[0] = v /\ g[0] = w
    BY <1>1 DEF Runs
  <1> QED
    BY <1>2

LEMMA RunsOne ==
    ASSUME NEW P, NEW v \in P, NEW x, After(v, x) \in P
    PROVE  Runs(<<x>>, v, After(v, x), P)
  <1> DEFINE g == [k \in 0 .. 1 |-> IF k = 0 THEN v ELSE After(v, x)]
             q == <<x>>
  <1>1. g \in [0 .. 1 -> P] /\ g[0] = v /\ g[1] = After(v, x)
    OBVIOUS
  <1>2. Len(q) = 1 /\ q[1] = x
    OBVIOUS
  <1> HIDE DEF g, q
  <1>3. \A k \in 1 .. 1 : g[k] = After(g[k - 1], q[k])
    BY <1>1, <1>2
  <1>4. Runs(q, v, After(v, x), P)
    BY <1>1, <1>2, <1>3 DEF Runs
  <1> QED
    BY <1>4 DEF q

LEMMA RunsMore ==
    ASSUME NEW P, NEW Q, P \subseteq Q, NEW v, NEW w, NEW q, Runs(q, v, w, P)
    PROVE  Runs(q, v, w, Q)
  BY DEF Runs

LEMMA RunsConcat ==
    ASSUME NEW W, NEW a, a \in Seq(W), NEW b, b \in Seq(W), NEW P,
           NEW u, NEW v, NEW w, Runs(a, u, v, P), Runs(b, v, w, P)
    PROVE  Runs(a \o b, u, w, P)
  <1>1. PICK m \in Nat, n \in Nat : m = Len(a) /\ n = Len(b)
    OBVIOUS
  <1>2. PICK g \in [0 .. m -> P] :
          g[0] = u /\ g[m] = v /\ \A k \in 1 .. m : g[k] = After(g[k - 1], a[k])
    BY <1>1 DEF Runs
  <1>3. PICK h \in [0 .. n -> P] :
          h[0] = v /\ h[n] = w /\ \A k \in 1 .. n : h[k] = After(h[k - 1], b[k])
    BY <1>1 DEF Runs
  <1> DEFINE q == a \o b
             f == [k \in 0 .. m + n |-> IF k <= m THEN g[k] ELSE h[k - m]]
  <1>4. /\ Len(q) = m + n
        /\ \A k \in 1 .. m : q[k] = a[k]
        /\ \A k \in 1 .. n : q[m + k] = b[k]
    BY <1>1
  <1>5. f \in [0 .. m + n -> P]
    <2>1. ASSUME NEW k \in 0 .. m + n
          PROVE  (IF k <= m THEN g[k] ELSE h[k - m]) \in P
      <3>1. CASE k <= m
        <4>1. k \in 0 .. m
          BY <3>1
        <4> QED
          BY <3>1, <4>1
      <3>2. CASE ~(k <= m)
        <4>1. k - m \in 0 .. n
          BY <3>2
        <4> QED
          BY <3>2, <4>1
      <3> QED
        BY <3>1, <3>2
    <2> QED
      BY <2>1
  <1>6. \A k \in 0 .. m : f[k] = g[k]
    OBVIOUS
  <1>7. \A k \in 0 .. n : f[m + k] = h[k]
    <2> TAKE k \in 0 .. n
    <2>1. m + k \in 0 .. m + n /\ (m + k) - m = k
      OBVIOUS
    <2>2. CASE k = 0
      BY <2>1, <2>2, <1>2, <1>3
    <2>3. CASE k # 0
      <3>1. ~(m + k <= m)
        BY <2>3
      <3> QED
        BY <2>1, <3>1
    <2> QED
      BY <2>2, <2>3
  <1> HIDE DEF f, q
  <1>8. ASSUME NEW k \in 1 .. m + n
        PROVE  f[k] = After(f[k - 1], q[k])
    <2>1. CASE k <= m
      <3>1. k \in 1 .. m /\ k - 1 \in 0 .. m /\ k \in 0 .. m
        BY <2>1
      <3> QED
        BY <3>1, <1>2, <1>4, <1>6
    <2>2. CASE ~(k <= m)
      <3>1. PICK i \in 1 .. n : k = m + i
        <4>1. k - m \in 1 .. n /\ k = m + (k - m)
          BY <2>2
        <4> QED
          BY <4>1
      <3>2. i - 1 \in 0 .. n /\ i \in 0 .. n /\ k - 1 = m + (i - 1)
        BY <3>1
      <3>3. f[k] = h[i] /\ f[k - 1] = h[i - 1] /\ q[k] = b[i]
        BY <3>1, <3>2, <1>4, <1>7
      <3> QED
        BY <3>3, <1>3
    <2> QED
      BY <2>1, <2>2
  <1>9. f[0] = u /\ f[m + n] = w
    BY <1>2, <1>3, <1>6, <1>7
  <1>10. Runs(q, u, w, P)
    BY <1>4, <1>5, <1>8, <1>9 DEF Runs
  <1> QED
    BY <1>10 DEF q

LEMMA ConcatEnd ==
    ASSUME NEW W, NEW a, a \in Seq(W), NEW b, b \in Seq(W),
           NEW m \in Nat, m = Len(a), NEW n \in Nat \ {0}, n = Len(b),
           NEW q, q = a \o b
    PROVE  q \in Seq(W) /\ Len(q) = m + n /\ q[m + n] = b[n]
  <1> DEFINE c == a \o b
  <1>1. c \in Seq(W) /\ Len(c) = m + n
    OBVIOUS
  <1>2. \A k \in 1 .. n : c[m + k] = b[k]
    OBVIOUS
  <1>3. q = c /\ n \in 1 .. n
    OBVIOUS
  <1> HIDE DEF c
  <1> QED
    BY <1>1, <1>2, <1>3

(* A queue ends with the write that was appended last.                     *)
LEMMA LastOf ==
    ASSUME NEW W, NEW a, a \in Seq(W), NEW b, b \in Seq(W), Len(b) = 1
    PROVE  /\ a \o b \in Seq(W) /\ a \o b # <<>>
           /\ Last(a \o b) = b[1]
  <1>1. PICK m \in Nat, n \in Nat \ {0} : m = Len(a) /\ n = Len(b)
    OBVIOUS
  <1>2. PICK q : q = a \o b
    OBVIOUS
  <1>3. q \in Seq(W) /\ Len(q) = m + n /\ q[m + n] = b[n]
    <2>1. a \in Seq(W) /\ b \in Seq(W)
      OBVIOUS
    <2> QED
      BY ONLY <1>1, <1>2, <2>1, ConcatEnd
  <1>4. n = 1
    BY <1>1
  <1>5. Last(q) = b[1] /\ q # <<>>
    BY <1>3, <1>4 DEF Last
  <1> QED
    BY <1>2, <1>3, <1>5

LEMMA TailLast ==
    ASSUME NEW V, NEW q, q \in Seq(V), q # <<>>, Tail(q) # <<>>
    PROVE  Last(Tail(q)) = Last(q)
  <1>1. PICK n \in Nat : n = Len(q) /\ n # 0
    OBVIOUS
  <1>2. PICK t : t = Tail(q)
    OBVIOUS
  <1>3. t \in Seq(V) /\ Len(t) = n - 1 /\ \A k \in 1 .. n - 1 : t[k] = q[k + 1]
    BY <1>1, <1>2
  <1>4. n - 1 # 0
    BY <1>2, <1>3
  <1>5. n - 1 \in 1 .. n - 1 /\ (n - 1) + 1 = n
    BY <1>1, <1>4
  <1>6. t[n - 1] = q[n]
    BY <1>3, <1>5
  <1> QED
    BY <1>1, <1>2, <1>3, <1>6 DEF Last

LEMMA RunsFlush ==
    ASSUME NEW W, NEW q, q \in Seq(W), q # <<>>, NEW P, NEW v, NEW w,
           Runs(q, v, w, P)
    PROVE  /\ v \in P /\ After(v, Head(q)) \in P
           /\ Runs(Tail(q), After(v, Head(q)), w, P)
  <1>1. PICK n \in Nat : n = Len(q) /\ n # 0
    OBVIOUS
  <1>2. PICK g \in [0 .. n -> P] :
          g[0] = v /\ g[n] = w /\ \A k \in 1 .. n : g[k] = After(g[k - 1], q[k])
    BY <1>1 DEF Runs
  <1> DEFINE t == Tail(q)
             f == [k \in 0 .. n - 1 |-> g[k + 1]]
  <1>3. Len(t) = n - 1 /\ Head(q) = q[1] /\ \A k \in 1 .. n - 1 : t[k] = q[k + 1]
    BY <1>1
  <1>4. f \in [0 .. n - 1 -> P]
    <2>1. \A k \in 0 .. n - 1 : k + 1 \in 0 .. n
      OBVIOUS
    <2> QED
      BY <2>1
  <1>5. \A k \in 0 .. n - 1 : f[k] = g[k + 1]
    OBVIOUS
  <1> HIDE DEF f, t
  <1>6. g[1] = After(v, Head(q)) /\ g[1] \in P /\ g[0] \in P
    <2>1. 1 \in 1 .. n /\ 1 - 1 = 0 /\ 1 \in 0 .. n /\ 0 \in 0 .. n
      BY <1>1
    <2> QED
      BY <2>1, <1>2, <1>3
  <1>7. f[0] = After(v, Head(q)) /\ f[n - 1] = w
    <2>1. 0 \in 0 .. n - 1 /\ n - 1 \in 0 .. n - 1 /\ 0 + 1 = 1 /\ (n - 1) + 1 = n
      BY <1>1
    <2> QED
      BY <2>1, <1>2, <1>5, <1>6
  <1>8. ASSUME NEW k \in 1 .. n - 1
        PROVE  f[k] = After(f[k - 1], t[k])
    <2>1. /\ k \in 0 .. n - 1 /\ k - 1 \in 0 .. n - 1 /\ k + 1 \in 1 .. n
          /\ (k - 1) + 1 = k /\ (k + 1) - 1 = k
      OBVIOUS
    <2>2. g[k + 1] = After(g[k], q[k + 1])
      BY <2>1, <1>2
    <2>3. f[k] = g[k + 1] /\ f[k - 1] = g[k]
      BY <2>1, <1>5
    <2> QED
      BY <2>2, <2>3, <1>3
  <1>9. Runs(t, After(v, Head(q)), w, P)
    BY <1>3, <1>4, <1>7, <1>8 DEF Runs
  <1> QED
    BY <1>2, <1>6, <1>9 DEF t

(* A queue built of blocks.                                                *)
LEMMA RunsBlocks ==
    ASSUME NEW W, NEW n \in Nat, NEW s, s \in [1 .. n -> Seq(W)], NEW P,
           NEW d, d \in [0 .. n -> P],
           \A k \in 1 .. n : Runs(s[k], d[k - 1], d[k], P)
    PROVE  /\ FlattenSeq(s) \in Seq(W)
           /\ Runs(FlattenSeq(s), d[0], d[n], P)
  <1>1. PICK b \in [0 .. n -> Seq(W)] :
          /\ b[0] = <<>>
          /\ \A k \in 1 .. n : b[k] = b[k - 1] \o s[k]
          /\ FlattenSeq(s) = b[n]
    <2>1. \E b : Blocks(b, s, n, W)
      BY Flatten
    <2> QED
      BY <2>1 DEF Blocks
  <1> DEFINE T == {k \in 0 .. n : Runs(b[k], d[0], d[k], P)}
  <1>2. 0 \in T
    <2>1. d[0] \in P
      OBVIOUS
    <2> QED
      BY <2>1, <1>1, RunsNone
  <1>3. ASSUME NEW k \in 0 .. n - 1, k \in T
        PROVE  k + 1 \in T
    <2>1. k + 1 \in 1 .. n /\ (k + 1) - 1 = k /\ k \in 0 .. n /\ k + 1 \in 0 .. n
      OBVIOUS
    <2>2. Runs(s[k + 1], d[k], d[k + 1], P)
      BY <2>1
    <2>3. b[k + 1] = b[k] \o s[k + 1] /\ b[k] \in Seq(W) /\ s[k + 1] \in Seq(W)
      BY <2>1, <1>1
    <2>4. Runs(b[k], d[0], d[k], P)
      BY <1>3
    <2>5. Runs(b[k] \o s[k + 1], d[0], d[k + 1], P)
      BY <2>2, <2>3, <2>4, RunsConcat
    <2> QED
      BY <2>1, <2>3, <2>5
  <1> HIDE DEF T
  <1>4. \A k \in 0 .. n : k \in T
    BY <1>2, <1>3, UpTo
  <1>5. n \in T /\ n \in 0 .. n
    BY <1>4
  <1> QED
    BY <1>1, <1>5 DEF T

-----------------------------------------------------------------------------
(* The writes to the FAT: m copies of the entry of cluster c are written.  *)
PartFat(v, c, x, m) ==
    [fat |-> [f \in Copies |-> IF f <= m THEN [v.fat[f] EXCEPT ![c] = x]
                                         ELSE v.fat[f]],
     root |-> v.root, area |-> v.area]

SetFat(v, c, x) ==
    [fat |-> [f \in Copies |-> [v.fat[f] EXCEPT ![c] = x]],
     root |-> v.root, area |-> v.area]

LEMMA FatWritesType ==
    ASSUME NEW V, NEW c \in Clusters, NEW x \in Nat
    PROVE  /\ FatWrites(c, x) \in Seq(Writes(V))
           /\ Len(FatWrites(c, x)) = NumberOfFats
  <1>1. \A f \in Copies :
          [to |-> "fat", copy |-> f, cluster |-> c, value |-> x] \in Writes(V)
    BY DEF Writes
  <1>2. FatWrites(c, x) \in [1 .. NumberOfFats -> Writes(V)]
    BY <1>1 DEF FatWrites, Copies
  <1>3. NumberOfFats \in Nat
    BY Geometry
  <1>4. \A f \in [1 .. NumberOfFats -> Writes(V)] :
          f \in Seq(Writes(V)) /\ Len(f) = NumberOfFats
    BY <1>3
  <1> QED
    BY <1>2, <1>4

LEMMA PartFatType ==
    ASSUME NEW V, NEW v \in Disks(V), NEW c \in Clusters, NEW x \in Nat, NEW m \in Nat
    PROVE  /\ PartFat(v, c, x, m) \in Disks(V)
           /\ SetFat(v, c, x) \in Disks(V)
  <1>1. /\ v.fat \in [Copies -> [Clusters -> Nat]]
        /\ v.root \in [1 .. RootDirEntries -> V]
        /\ v.area \in [Clusters -> Seq(V)]
    BY DEF Disks
  <1>2. \A f \in Copies : [v.fat[f] EXCEPT ![c] = x] \in [Clusters -> Nat]
    BY <1>1
  <1> QED
    BY <1>1, <1>2 DEF PartFat, SetFat, Disks

LEMMA RunsFat ==
    ASSUME NEW V, NEW v \in Disks(V), NEW c \in Clusters, NEW x \in Nat, NEW P,
           \A m \in 0 .. NumberOfFats : PartFat(v, c, x, m) \in P
    PROVE  Runs(FatWrites(c, x), v, SetFat(v, c, x), P)
  <1> DEFINE q == FatWrites(c, x)
             g == [m \in 0 .. NumberOfFats |-> PartFat(v, c, x, m)]
  <1>1. v.fat \in [Copies -> [Clusters -> Nat]]
    BY DEF Disks
  <1>2. v = [fat |-> v.fat, root |-> v.root, area |-> v.area]
    BY DEF Disks
  <1>3. NumberOfFats \in Nat /\ Copies = 1 .. NumberOfFats
    BY Geometry DEF Copies
  <1>4. Len(q) = NumberOfFats
    BY FatWritesType
  <1>5. g \in [0 .. NumberOfFats -> P]
    OBVIOUS
  <1>6. \A m \in 0 .. NumberOfFats : g[m] = PartFat(v, c, x, m)
    OBVIOUS
  <1>7. \A k \in 1 .. NumberOfFats :
          q[k] = [to |-> "fat", copy |-> k, cluster |-> c, value |-> x]
    BY <1>3 DEF FatWrites
  <1> HIDE DEF g, q
  <1>8. g[0] = v
    <2>1. [f \in Copies |-> IF f <= 0 THEN [v.fat[f] EXCEPT ![c] = x]
                                      ELSE v.fat[f]] = v.fat
      <3>1. \A f \in Copies : ~(f <= 0)
        BY <1>3
      <3> QED
        BY <1>1, <3>1
    <2>2. g[0] = PartFat(v, c, x, 0)
      BY <1>3, <1>6
    <2> QED
      BY <1>2, <2>1, <2>2 DEF PartFat
  <1>9. g[NumberOfFats] = SetFat(v, c, x)
    <2>1. \A f \in Copies : f <= NumberOfFats
      BY <1>3
    <2>2. g[NumberOfFats] = PartFat(v, c, x, NumberOfFats)
      BY <1>3, <1>6
    <2> QED
      BY <2>1, <2>2 DEF PartFat, SetFat
  <1>10. ASSUME NEW k \in 1 .. NumberOfFats
         PROVE  g[k] = After(g[k - 1], q[k])
    <2>1. k \in 0 .. NumberOfFats /\ k - 1 \in 0 .. NumberOfFats /\ k \in Copies
      BY <1>3
    <2>2. g[k] = PartFat(v, c, x, k) /\ g[k - 1] = PartFat(v, c, x, k - 1)
      BY <2>1, <1>6
    <2> DEFINE old == PartFat(v, c, x, k - 1).fat
               new == PartFat(v, c, x, k).fat
    <2>3. new = [old EXCEPT ![k] = [@ EXCEPT ![c] = x]]
      <3>1. /\ old = [f \in Copies |-> IF f <= k - 1 THEN [v.fat[f] EXCEPT ![c] = x]
                                                     ELSE v.fat[f]]
            /\ new = [f \in Copies |-> IF f <= k THEN [v.fat[f] EXCEPT ![c] = x]
                                                 ELSE v.fat[f]]
        BY DEF PartFat
      <3>2. \A f \in Copies : f <= k <=> (f <= k - 1 \/ f = k)
        BY <1>3
      <3>3. ~(k <= k - 1)
        OBVIOUS
      <3> HIDE DEF old, new
      <3>4. old[k] = v.fat[k] /\ new[k] = [v.fat[k] EXCEPT ![c] = x]
        BY <3>1, <3>3, <2>1
      <3>5. \A f \in Copies : f # k => new[f] = old[f]
        BY <3>1, <3>2
      <3>6. [old EXCEPT ![k] = [@ EXCEPT ![c] = x]]
              = [f \in Copies |-> IF f = k THEN [old[k] EXCEPT ![c] = x] ELSE old[f]]
        BY <3>1, <2>1
      <3>7. new = [f \in Copies |-> IF f = k THEN [old[k] EXCEPT ![c] = x] ELSE old[f]]
        <4>1. new = [f \in Copies |-> new[f]]
          BY <3>1
        <4>2. \A f \in Copies :
                new[f] = IF f = k THEN [old[k] EXCEPT ![c] = x] ELSE old[f]
          BY <3>4, <3>5
        <4> QED
          BY <4>1, <4>2
      <3> QED
        BY <3>6, <3>7
    <2>4. q[k] = [to |-> "fat", copy |-> k, cluster |-> c, value |-> x]
      BY <1>7
    <2>5. /\ g[k] = [fat |-> new, root |-> v.root, area |-> v.area]
          /\ g[k - 1] = [fat |-> old, root |-> v.root, area |-> v.area]
      BY <2>2 DEF PartFat
    <2> HIDE DEF old, new
    <2>6. After(g[k - 1], q[k])
            = [fat |-> [old EXCEPT ![k] = [@ EXCEPT ![c] = x]],
               root |-> v.root, area |-> v.area]
      BY <2>4, <2>5 DEF After
    <2> QED
      BY <2>3, <2>5, <2>6
  <1>11. Runs(q, v, SetFat(v, c, x), P)
    BY <1>4, <1>5, <1>8, <1>9, <1>10 DEF Runs
  <1> QED
    BY <1>11 DEF q

(* The chain is freed cluster by cluster: Q holds between two clusters, P  *)
(* at every write.                                                         *)
Freed(v, C) ==
    [fat |-> [f \in Copies |-> [c \in Clusters |->
                IF c \in C THEN Free ELSE v.fat[f][c]]],
     root |-> v.root, area |-> v.area]

LEMMA FreedType ==
    ASSUME NEW V, NEW v \in Disks(V), NEW C
    PROVE  Freed(v, C) \in Disks(V)
  <1>1. /\ v.fat \in [Copies -> [Clusters -> Nat]]
        /\ v.root \in [1 .. RootDirEntries -> V]
        /\ v.area \in [Clusters -> Seq(V)]
    BY DEF Disks
  <1>2. \A f \in Copies, c \in Clusters :
          (IF c \in C THEN Free ELSE v.fat[f][c]) \in Nat
    BY <1>1 DEF Free
  <1> QED
    BY <1>1, <1>2 DEF Freed, Disks

LEMMA RunsFreeing ==
    ASSUME NEW V, NEW chain, chain \in Seq(Clusters), NEW v \in Disks(V),
           NEW P, NEW Q, Q \subseteq P, Q \subseteq Disks(V), v \in Q,
           \A u \in Q, c \in ToSet(chain) :
              /\ SetFat(u, c, Free) \in Q
              /\ \A m \in 0 .. NumberOfFats : PartFat(u, c, Free, m) \in P
    PROVE  /\ FreeingWrites(chain) \in Seq(Writes(V))
           /\ Runs(FreeingWrites(chain), v, Freed(v, ToSet(chain)), P)
           /\ Freed(v, ToSet(chain)) \in Q
  <1>1. PICK n \in Nat : n = Len(chain)
    OBVIOUS
  <1>2. \A k \in 1 .. n : chain[k] \in Clusters /\ chain[k] \in ToSet(chain)
    BY <1>1 DEF ToSet
  <1> DEFINE Seen(k) == {chain[i] : i \in 1 .. k}
             s == [k \in 1 .. n |-> FatWrites(chain[k], Free)]
             d == [k \in 0 .. n |-> Freed(v, Seen(k))]
  <1>3. s \in [1 .. n -> Seq(Writes(V))]
    BY <1>2, FatWritesType DEF Free
  <1>4. d[0] = v
    <2>1. Seen(0) = {}
      OBVIOUS
    <2>4. d[0] = Freed(v, Seen(0))
      OBVIOUS
    <2> HIDE DEF d, Seen
    <2>2. d[0] = Freed(v, {})
      BY <2>1, <2>4
    <2>3. /\ v.fat \in [Copies -> [Clusters -> Nat]]
          /\ v = [fat |-> v.fat, root |-> v.root, area |-> v.area]
      BY DEF Disks
    <2>5. [f \in Copies |-> [c \in Clusters |-> v.fat[f][c]]] = v.fat
      BY <2>3
    <2> QED
      BY <2>2, <2>3, <2>5 DEF Freed
  <1>5. ASSUME NEW k \in 1 .. n
        PROVE  d[k] = SetFat(d[k - 1], chain[k], Free)
    <2>1. /\ d[k] = Freed(v, Seen(k)) /\ d[k - 1] = Freed(v, Seen(k - 1))
          /\ k - 1 \in 0 .. n
      OBVIOUS
    <2>2. Seen(k) = Seen(k - 1) \cup {chain[k]}
      OBVIOUS
    <2> HIDE DEF Seen
    <2>3. ASSUME NEW f \in Copies
          PROVE  [c \in Clusters |-> IF c \in Seen(k) THEN Free ELSE v.fat[f][c]]
                   = [[c \in Clusters |-> IF c \in Seen(k - 1) THEN Free ELSE v.fat[f][c]]
                        EXCEPT ![chain[k]] = Free]
      BY <1>2, <2>2
    <2>4. [f \in Copies |-> [c \in Clusters |-> IF c \in Seen(k) THEN Free ELSE v.fat[f][c]]]
            = [f \in Copies |->
                 [[c \in Clusters |-> IF c \in Seen(k - 1) THEN Free ELSE v.fat[f][c]]
                    EXCEPT ![chain[k]] = Free]]
      BY <2>3
    <2> QED
      BY <2>1, <2>4 DEF Freed, SetFat
  <1>6. d[n] = Freed(v, ToSet(chain))
    <2>1. Seen(n) = ToSet(chain)
      BY <1>1 DEF ToSet
    <2> QED
      BY <2>1
  <1>7. DOMAIN d = 0 .. n /\ d = [k \in 0 .. n |-> d[k]]
    OBVIOUS
  <1>8. FreeingWrites(chain) = FlattenSeq(s)
    BY <1>1 DEF FreeingWrites
  <1> HIDE DEF d, s
  <1> DEFINE T == {k \in 0 .. n : d[k] \in Q}
  <1>9. \A k \in 0 .. n : k \in T
    <2>1. 0 \in T
      BY <1>4
    <2>2. ASSUME NEW k \in 0 .. n - 1, k \in T
          PROVE  k + 1 \in T
      <3>1. k + 1 \in 1 .. n /\ (k + 1) - 1 = k /\ k + 1 \in 0 .. n
        OBVIOUS
      <3>2. d[k + 1] = SetFat(d[k], chain[k + 1], Free)
        BY <3>1, <1>5
      <3> QED
        BY <2>2, <3>1, <3>2, <1>2
    <2> HIDE DEF T
    <2> QED
      BY <2>1, <2>2, UpTo
  <1>10. \A k \in 0 .. n : d[k] \in Q
    BY <1>9
  <1>11. d \in [0 .. n -> P]
    BY <1>7, <1>10
  <1>12. ASSUME NEW k \in 1 .. n
         PROVE  Runs(s[k], d[k - 1], d[k], P)
    <2>1. k - 1 \in 0 .. n
      OBVIOUS
    <2>2. PICK u \in Q : u = d[k - 1] /\ u \in Disks(V)
      BY <2>1, <1>10
    <2>3. \A m \in 0 .. NumberOfFats : PartFat(u, chain[k], Free, m) \in P
      BY <1>2
    <2>4. Free \in Nat /\ chain[k] \in Clusters
      BY <1>2 DEF Free
    <2>5. Runs(FatWrites(chain[k], Free), u, SetFat(u, chain[k], Free), P)
      BY <2>2, <2>3, <2>4, RunsFat
    <2> QED
      BY <2>2, <2>5, <1>5 DEF s
  <1>13. /\ FlattenSeq(s) \in Seq(Writes(V))
         /\ Runs(FlattenSeq(s), d[0], d[n], P)
    BY <1>3, <1>11, <1>12, RunsBlocks
  <1>14. d[n] \in Q
    BY <1>10
  <1> QED
    BY <1>4, <1>6, <1>8, <1>13, <1>14

-----------------------------------------------------------------------------
(* The clusters of a set, lowest first: every one of them, once.           *)
LEMMA ClustersAreFinite ==
    /\ IsFiniteSet(Clusters)
    /\ Cardinality(Clusters) <= TotalClusters
    /\ Clusters \subseteq Nat
    /\ \A c \in Clusters : c # Free /\ c # EOC /\ c # RootDir /\ c # Lost
    /\ EOC \notin Clusters /\ EOC \in Nat /\ Free \in Nat /\ Free \notin Clusters
  <1>1. TotalClusters \in Nat /\ TotalClusters < 65528
    BY Geometry
  <1>2. /\ IsFiniteSet(2 .. TotalClusters - 1)
        /\ Cardinality(2 .. TotalClusters - 1)
             = IF 2 > TotalClusters - 1 THEN 0 ELSE TotalClusters - 1 - 2 + 1
    BY <1>1, FS_Interval
  <1> QED
    BY <1>1, <1>2 DEF Clusters, Free, EOC, RootDir, Lost

LEMMA LowestFirstIs ==
    ASSUME NEW S, S \subseteq Nat, IsFiniteSet(S)
    PROVE  /\ Cardinality(S) \in Nat
           /\ LowestFirst(S) \in [1 .. Cardinality(S) -> S]
           /\ \A c \in S : \E k \in 1 .. Cardinality(S) : LowestFirst(S)[k] = c
           /\ \A i, j \in 1 .. Cardinality(S) :
                 i < j => LowestFirst(S)[i] < LowestFirst(S)[j]
  <1> DEFINE n == Cardinality(S)
             Below(c) == {x \in S : x < c}
             Rank == [c \in S |-> Cardinality(Below(c)) + 1]
             Of(k) == CHOOSE c \in S : Cardinality(Below(c)) = k - 1
  <1>14. LowestFirst(S) = [k \in 1 .. n |-> Of(k)]
    BY DEF LowestFirst
  <1>1. n \in Nat
    BY FS_CardinalityType
  <1>2. ASSUME NEW c \in S
        PROVE  /\ IsFiniteSet(Below(c)) /\ Cardinality(Below(c)) \in Nat
               /\ Cardinality(Below(c)) < n
    <2>1. IsFiniteSet(Below(c)) /\ Cardinality(Below(c)) <= n
      BY FS_Subset
    <2>2. Cardinality(Below(c)) \in Nat
      BY <2>1, FS_CardinalityType
    <2>3. Below(c) # S /\ Below(c) \in SUBSET S
      <3>1. c \notin Below(c)
        OBVIOUS
      <3> QED
        BY <3>1
    <2>4. Cardinality(Below(c)) # n
      BY <2>3, FS_Subset
    <2> QED
      BY <2>1, <2>2, <2>4, <1>1
  <1>3. ASSUME NEW c \in S, NEW d \in S, c < d
        PROVE  Cardinality(Below(c)) < Cardinality(Below(d))
    <2>1. Below(c) \in SUBSET Below(d)
      <3>1. c \in Nat /\ d \in Nat
        OBVIOUS
      <3>2. \A x \in S : x \in Nat /\ (x < c => x < d)
        BY <1>3, <3>1
      <3> QED
        BY <3>2
    <2>2. c \in Below(d) /\ c \notin Below(c)
      BY <1>3
    <2>3. Cardinality(Below(c)) <= Cardinality(Below(d))
      BY <1>2, <2>1, FS_Subset
    <2>4. Cardinality(Below(c)) # Cardinality(Below(d))
      BY <1>2, <2>1, <2>2, FS_Subset
    <2> QED
      BY <1>2, <2>3, <2>4
  <1>4. \A c \in S : Rank[c] = Cardinality(Below(c)) + 1 /\ Rank[c] \in 1 .. n
    BY <1>1, <1>2
  <1>5. Rank \in [S -> 1 .. n]
    BY <1>1, <1>2
  <1> HIDE DEF Rank, Below, n
  <1>6. Rank \in Injection(S, 1 .. n)
    <2>1. ASSUME NEW c \in S, NEW d \in S, c # d
          PROVE  Rank[c] # Rank[d]
      <3>1. c < d \/ d < c
        BY <2>1
      <3> QED
        BY <3>1, <1>2, <1>3, <1>4
    <2> QED
      BY <1>5, <2>1 DEF Injection, IsInjective
  <1>7. IsFiniteSet(1 .. n) /\ Cardinality(1 .. n) = n
    BY <1>1, FS_Interval
  <1>8. Rank \in Surjection(S, 1 .. n)
    BY <1>6, <1>7, FS_Injection DEF n
  <1>9. \A k \in 1 .. n : \E c \in S : Rank[c] = k
    BY <1>8 DEF Surjection
  <1>10. ASSUME NEW k \in 1 .. n
         PROVE  LowestFirst(S)[k] \in S /\ Rank[LowestFirst(S)[k]] = k
    <2>1. PICK c \in S : Cardinality(Below(c)) = k - 1
      BY <1>2, <1>4, <1>9
    <2>2. LowestFirst(S)[k] = Of(k)
      BY <1>14
    <2>3. Of(k) \in S /\ Cardinality(Below(Of(k))) = k - 1
      BY <2>1
    <2> HIDE DEF Of
    <2>4. Rank[Of(k)] = k - 1 + 1
      BY <2>3, <1>4
    <2> QED
      BY <2>2, <2>3, <2>4
  <1>11. LowestFirst(S) \in [1 .. n -> S]
    <2>1. \A k \in 1 .. n : Of(k) \in S
      BY <1>10, <1>14
    <2> HIDE DEF Of
    <2> QED
      BY <2>1, <1>14
  <1>12. ASSUME NEW c \in S
         PROVE  \E k \in 1 .. n : LowestFirst(S)[k] = c
    <2>1. Rank[c] \in 1 .. n
      BY <1>4
    <2>2. Rank[LowestFirst(S)[Rank[c]]] = Rank[c] /\ LowestFirst(S)[Rank[c]] \in S
      BY <2>1, <1>10
    <2>3. LowestFirst(S)[Rank[c]] = c
      BY <2>2, <1>6 DEF Injection, IsInjective
    <2> QED
      BY <2>1, <2>3
  <1>13. ASSUME NEW i \in 1 .. n, NEW j \in 1 .. n, i < j
         PROVE  LowestFirst(S)[i] < LowestFirst(S)[j]
    <2>1. PICK c \in S, d \in S : c = LowestFirst(S)[i] /\ d = LowestFirst(S)[j]
      BY <1>10
    <2>2. Rank[c] = i /\ Rank[d] = j
      BY <2>1, <1>10
    <2>3. c # d
      BY <2>2, <1>13
    <2>4. ~(d < c)
      BY <2>2, <1>2, <1>3, <1>4, <1>13
    <2>5. c \in Nat /\ d \in Nat
      OBVIOUS
    <2> QED
      BY <2>1, <2>3, <2>4, <2>5
  <1> QED
    BY <1>1, <1>11, <1>12, <1>13 DEF n

LEMMA LowestFreeIs ==
    /\ LowestFree = 0 <=> FreeClusters = {}
    /\ LowestFree # 0 => /\ LowestFree \in Clusters
                         /\ get_fat_entry(LowestFree) = Free
                         /\ \A c \in FreeClusters : LowestFree <= c
  <1>1. CASE FreeClusters = {}
    BY <1>1 DEF LowestFree
  <1>2. CASE FreeClusters # {}
    <2>1. FreeClusters \subseteq Nat
      BY ClustersAreFinite DEF FreeClusters
    <2>2. \E x \in FreeClusters : \A y \in FreeClusters : x <= y
      BY <2>1, <1>2, LeastElement
    <2>3. Min(FreeClusters) \in FreeClusters /\ \A y \in FreeClusters : Min(FreeClusters) <= y
      BY <2>2 DEF Min
    <2> QED
      BY <1>2, <2>3, ClustersAreFinite DEF LowestFree, FreeClusters, Free
  <1> QED
    BY <1>1, <1>2

-----------------------------------------------------------------------------
(* Looking for an entry.                                                   *)
LEMMA FoundEntry ==
    ASSUME NEW entries, NEW n \in Nat, Len(entries) = n, NEW name,
           NEW i, i = find_entry_by_name(entries, name)
    PROVE  /\ i \in 0 .. n
           /\ i # 0 => /\ IsEntry(entries[i]) /\ entries[i].name = name
                       /\ \A j \in 1 .. n :
                             IsEntry(entries[j]) /\ entries[j].name = name => i <= j
           /\ i = 0 => \A j \in 1 .. n : ~(IsEntry(entries[j]) /\ entries[j].name = name)
  <1> DEFINE I == {j \in 1 .. n : IsEntry(entries[j]) /\ entries[j].name = name}
  <1>1. i = IF I # {} THEN Min(I) ELSE 0
    BY DEF find_entry_by_name, SelectInSeq
  <1>2. CASE I = {}
    BY <1>1, <1>2
  <1>3. CASE I # {}
    <2>1. \E x \in I : \A y \in I : x <= y
      <3>1. I \subseteq Nat
        OBVIOUS
      <3> HIDE DEF I
      <3> QED
        BY <3>1, <1>3, LeastElement
    <2>2. Min(I) \in I /\ \A y \in I : Min(I) <= y
      BY <2>1 DEF Min
    <2>3. i \in I /\ \A y \in I : i <= y
      BY <1>1, <1>3, <2>2
    <2> QED
      BY <2>3
  <1> QED
    BY <1>2, <1>3

LEMMA FoundSlot ==
    ASSUME NEW entries, NEW n \in Nat, Len(entries) = n,
           NEW i, i = FreeSlot(entries)
    PROVE  /\ i \in 0 .. n
           /\ i # 0 => entries[i] = NoEntry
  <1> DEFINE I == {j \in 1 .. n : entries[j] = NoEntry}
  <1>1. i = IF I # {} THEN Min(I) ELSE 0
    BY DEF FreeSlot, SelectInSeq
  <1>2. CASE I = {}
    BY <1>1, <1>2
  <1>3. CASE I # {}
    <2>1. \E x \in I : \A y \in I : x <= y
      <3>1. I \subseteq Nat
        OBVIOUS
      <3> HIDE DEF I
      <3> QED
        BY <3>1, <1>3, LeastElement
    <2>2. Min(I) \in I
      BY <2>1 DEF Min
    <2>3. i \in I
      BY <1>1, <1>3, <2>2
    <2> QED
      BY <2>3
  <1> QED
    BY <1>2, <1>3

-----------------------------------------------------------------------------
(* The loop that follows a chain.  Visit is one round of it.               *)
Visit(n, seen, start) ==
    LET next == IF n = 1 THEN start
                ELSE IF seen = <<>> THEN Free
                ELSE get_fat_entry(seen[Len(seen)])
    IN  IF next \in Clusters \ ToSet(seen) THEN Append(seen, next) ELSE seen

LEMMA VisitType ==
    ASSUME NEW n, NEW seen, seen \in Seq(Clusters), NEW start
    PROVE  Visit(n, seen, start) \in Seq(Clusters)
  <1> DEFINE next == IF n = 1 THEN start
                     ELSE IF seen = <<>> THEN Free
                     ELSE get_fat_entry(seen[Len(seen)])
  <1>1. Visit(n, seen, start)
          = IF next \in Clusters \ ToSet(seen) THEN Append(seen, next) ELSE seen
    BY DEF Visit
  <1> HIDE DEF next
  <1>2. next \in Clusters => Append(seen, next) \in Seq(Clusters)
    OBVIOUS
  <1> QED
    BY <1>1, <1>2

LEMMA ChainIs ==
    ASSUME NEW start
    PROVE  \E f \in [0 .. TotalClusters -> Seq(Clusters)] :
              /\ f[0] = <<>>
              /\ \A k \in 1 .. TotalClusters : f[k] = Visit(k, f[k - 1], start)
              /\ Chain(start) = f[TotalClusters]
  <1> DEFINE N == TotalClusters
             Q == Seq(Clusters)
             none == <<>>
             h == [k \in 1 .. N |-> [q \in Q |-> Visit(k, q, start)]]
  <1>1. N \in Nat
    BY Geometry
  <1>2. none \in Q /\ IsStep(h, N, Q)
    BY VisitType DEF IsStep
  <1>3. \A k \in 1 .. N, q \in Q : h[k][q] = Visit(k, q, start)
    OBVIOUS
  <1> HIDE DEF Q, h, none, N
  <1>4. PICK f : Iterates(f, N, Q, none, h)
    BY <1>1, <1>2, Recursion
  <1>5. f \in [0 .. N -> Q] /\ f[0] = none
    BY <1>4 DEF Iterates
  <1>6. \A k \in 1 .. N : f[k] = Visit(k, f[k - 1], start)
    <2> TAKE k \in 1 .. N
    <2>1. k - 1 \in 0 .. N /\ f[k - 1] \in Q
      BY <1>1, <1>5
    <2> QED
      BY <2>1, <1>3, <1>4 DEF Iterates
  <1> DEFINE Rec(g) ==
        g = [n \in 0 .. TotalClusters |->
               IF n = 0 THEN <<>>
               ELSE LET seen == g[n - 1]
                        next == IF n = 1 THEN start
                                ELSE IF seen = <<>> THEN Free
                                ELSE get_fat_entry(seen[Len(seen)])
                    IN  IF next \in Clusters \ ToSet(seen) THEN Append(seen, next)
                                                           ELSE seen]
  <1>7. \A g : Rec(g) <=>
          g = [n \in 0 .. N |-> IF n = 0 THEN none ELSE Visit(n, g[n - 1], start)]
    BY DEF Visit, N, none
  <1>8. Chain(start) = (CHOOSE g : Rec(g))[TotalClusters]
    BY DEF Chain
  <1> HIDE DEF Rec
  <1>9. Rec(f)
    <2>1. \A n \in 0 .. N :
            f[n] = IF n = 0 THEN none ELSE Visit(n, f[n - 1], start)
      BY <1>5, <1>6
    <2>2. f = [n \in 0 .. N |-> f[n]]
      BY <1>5
    <2>3. f = [n \in 0 .. N |-> IF n = 0 THEN none ELSE Visit(n, f[n - 1], start)]
      BY <2>1, <2>2
    <2> QED
      BY <2>3, <1>7
  <1>10. ASSUME NEW g, Rec(g) PROVE g[N] = f[N]
    <2>1. g = [n \in 0 .. N |-> IF n = 0 THEN none ELSE Visit(n, g[n - 1], start)]
      BY <1>10, <1>7
    <2>2. g[0] = none
      BY <2>1, <1>1
    <2>3. \A k \in 1 .. N : g[k] = Visit(k, g[k - 1], start)
      <3> TAKE k \in 1 .. N
      <3>1. k \in 0 .. N /\ k # 0
        BY <1>1
      <3> QED
        BY <2>1, <3>1
    <2>4. \A k \in 1 .. N : g[k - 1] = f[k - 1] => g[k] = f[k]
      BY <2>3, <1>6
    <2>6. g[0] = f[0]
      BY <2>2, <1>5
    <2>5. \A k \in 0 .. N : g[k] = f[k]
      BY <2>6, <2>4, <1>1, RecursionIsUnique
    <2> QED
      BY <2>5, <1>1
  <1>11. Chain(start) = f[N]
    <2>1. Rec(CHOOSE g : Rec(g))
      BY <1>9
    <2> QED
      BY <2>1, <1>8, <1>10 DEF N
  <1> QED
    BY <1>5, <1>6, <1>11 DEF N, Q, none

LEMMA ChainType ==
    ASSUME NEW start
    PROVE  /\ Chain(start) \in Seq(Clusters)
           /\ ToSet(Chain(start)) \subseteq Clusters
  <1>1. Chain(start) \in Seq(Clusters)
    <2>1. PICK f \in [0 .. TotalClusters -> Seq(Clusters)] :
             Chain(start) = f[TotalClusters]
      BY ChainIs
    <2> QED
      BY <2>1, Geometry
  <1> QED
    BY <1>1 DEF ToSet

(* A path of the FAT: distinct clusters, each entry names the next one.    *)
IsPath(p, start) ==
    /\ p \in Seq(Clusters) /\ p # <<>> /\ p[1] = start
    /\ \A i, j \in 1 .. Len(p) : p[i] = p[j] => i = j
    /\ \A i \in 1 .. Len(p) - 1 : get_fat_entry(p[i]) = p[i + 1]

LEMMA PathIsShort ==
    ASSUME NEW p, p \in Seq(Clusters),
           \A i, j \in 1 .. Len(p) : p[i] = p[j] => i = j
    PROVE  Len(p) <= TotalClusters
  <1>1. p \in Injection(1 .. Len(p), Clusters)
    BY DEF Injection, IsInjective
  <1>2. Cardinality(1 .. Len(p)) <= Cardinality(Clusters)
    BY <1>1, ClustersAreFinite, FS_Injection
  <1>3. Cardinality(1 .. Len(p)) = Len(p) /\ Len(p) \in Nat
    <2>1. Len(p) \in Nat
      OBVIOUS
    <2>2. Cardinality(1 .. Len(p)) = IF 1 > Len(p) THEN 0 ELSE Len(p) - 1 + 1
      BY <2>1, FS_Interval
    <2> QED
      BY <2>1, <2>2
  <1>4. Cardinality(Clusters) \in Nat /\ TotalClusters \in Nat
    BY ClustersAreFinite, FS_CardinalityType, Geometry
  <1> QED
    BY <1>2, <1>3, <1>4, ClustersAreFinite

(* The loop walks along a path, and stops at its end when the last entry   *)
(* is no cluster.                                                          *)
LEMMA ChainOfPath ==
    ASSUME NEW p, NEW start, IsPath(p, start)
    PROVE  /\ Len(p) <= Len(Chain(start))
           /\ \A i \in 1 .. Len(p) : Chain(start)[i] = p[i]
           /\ get_fat_entry(p[Len(p)]) \notin Clusters => Chain(start) = p
  <1> DEFINE N == TotalClusters
  <1>1. N \in Nat /\ Len(p) \in Nat /\ Len(p) # 0 /\ Len(p) <= N
    BY Geometry, PathIsShort DEF IsPath
  <1>2. PICK f \in [0 .. N -> Seq(Clusters)] :
              /\ f[0] = <<>>
              /\ \A k \in 1 .. N : f[k] = Visit(k, f[k - 1], start)
              /\ Chain(start) = f[N]
    BY ChainIs
  <1> DEFINE P(q, k) == /\ Len(q) = k
                        /\ \A i \in 1 .. k : q[i] = p[i]
  <1>3. \A k \in 0 .. Len(p) : P(f[k], k)
    <2> DEFINE T == {k \in 0 .. Len(p) : P(f[k], k)}
    <2>1. 0 \in T
      BY <1>1, <1>2
    <2>2. ASSUME NEW k \in 0 .. Len(p) - 1, k \in T
          PROVE  k + 1 \in T
      <3>1. /\ k + 1 \in 1 .. N /\ (k + 1) - 1 = k /\ k \in 0 .. N
            /\ k + 1 \in 1 .. Len(p) /\ k + 1 \in 0 .. Len(p)
        BY <1>1
      <3> DEFINE q == f[k]
                 next == p[k + 1]
      <3>2. q \in Seq(Clusters) /\ P(q, k)
        BY <3>1, <2>2
      <3>3. next \in Clusters
        BY <3>1 DEF IsPath
      <3>4. next \notin ToSet(q)
        <4>1. \A i \in 1 .. k : p[i] # p[k + 1]
          <5> TAKE i \in 1 .. k
          <5>1. i \in 1 .. Len(p) /\ i # k + 1
            BY <3>1
          <5> QED
            BY <5>1, <3>1 DEF IsPath
        <4>2. DOMAIN q = 1 .. k
          BY <3>2
        <4> QED
          BY <4>1, <4>2, <3>2 DEF ToSet
      <3>5. next = IF k + 1 = 1 THEN start
                   ELSE IF q = <<>> THEN Free
                   ELSE get_fat_entry(q[Len(q)])
        <4>1. CASE k = 0
          BY <4>1 DEF IsPath
        <4>2. CASE k # 0
          <5>1. k + 1 # 1 /\ q # <<>> /\ k \in 1 .. Len(p) - 1 /\ k \in 1 .. k
            BY <4>2, <3>2, <1>1
          <5>2. get_fat_entry(p[k]) = p[k + 1]
            BY <5>1 DEF IsPath
          <5>3. q[Len(q)] = p[k]
            BY <5>1, <3>2
          <5> QED
            BY <5>1, <5>2, <5>3
        <4> QED
          BY <4>1, <4>2
      <3>6. f[k + 1] = Visit(k + 1, q, start)
        BY <3>1, <1>2
      <3> HIDE DEF q, next
      <3>7. f[k + 1] = Append(q, next)
        BY <3>3, <3>4, <3>5, <3>6 DEF Visit
      <3>8. P(Append(q, next), k + 1)
        BY <3>2, <3>3 DEF next
      <3> QED
        BY <3>1, <3>7, <3>8
    <2> HIDE DEF T
    <2>3. \A k \in 0 .. Len(p) : k \in T
      BY <2>1, <2>2, <1>1, UpTo
    <2> QED
      BY <2>3 DEF T
  <1> DEFINE R(q) == /\ Len(p) <= Len(q)
                     /\ \A i \in 1 .. Len(p) : q[i] = p[i]
                     /\ get_fat_entry(p[Len(p)]) \notin Clusters => q = p
             T == {k \in 0 .. N - Len(p) : R(f[Len(p) + k])}
  <1>4. 0 \in T
    <2>1. f[Len(p)] \in Seq(Clusters) /\ p \in Seq(Clusters) /\ Len(p) + 0 = Len(p)
      BY <1>1 DEF IsPath
    <2>2. P(f[Len(p)], Len(p))
      BY <1>1, <1>3
    <2>3. f[Len(p)] = p
      BY <2>1, <2>2
    <2> QED
      BY <2>1, <2>3, <1>1
  <1>5. ASSUME NEW k \in 0 .. N - Len(p) - 1, k \in T
        PROVE  k + 1 \in T
    <2>1. PICK m \in 1 .. N : /\ m = Len(p) + (k + 1) /\ m - 1 = Len(p) + k
                              /\ m - 1 \in 0 .. N /\ m # 1 /\ m \in 0 .. N
      <3>1. Len(p) + (k + 1) \in 1 .. N
        BY <1>1
      <3> QED
        BY <3>1, <1>1
    <2> DEFINE q == f[m - 1]
               next == get_fat_entry(q[Len(q)])
    <2>2. q \in Seq(Clusters) /\ R(q)
      BY <2>1, <1>5
    <2>3. f[m] = Visit(m, q, start)
      BY <2>1, <1>2
    <2>4. q # <<>>
      BY <2>2, <1>1
    <2> HIDE DEF q
    <2>5. f[m] = IF next \in Clusters \ ToSet(q) THEN Append(q, next) ELSE q
      BY <2>1, <2>3, <2>4 DEF Visit
    <2>6. CASE next \in Clusters \ ToSet(q)
      <3>1. f[m] = Append(q, next) /\ next \in Clusters
        BY <2>5, <2>6
      <3>2. get_fat_entry(p[Len(p)]) \in Clusters
        <4> SUFFICES ASSUME get_fat_entry(p[Len(p)]) \notin Clusters PROVE FALSE
          OBVIOUS
        <4>1. q = p
          BY <2>2
        <4> QED
          BY <4>1, <3>1
      <3> HIDE DEF next
      <3>3. /\ Len(Append(q, next)) = Len(q) + 1
            /\ \A i \in 1 .. Len(q) : Append(q, next)[i] = q[i]
            /\ Len(q) \in Nat
        BY <2>2, <3>1
      <3>4. Len(p) <= Len(Append(q, next))
        BY <3>3, <2>2, <1>1
      <3>5. \A i \in 1 .. Len(p) : i \in 1 .. Len(q) /\ Append(q, next)[i] = p[i]
        BY <3>3, <2>2, <1>1
      <3>6. R(Append(q, next))
        BY <3>2, <3>4, <3>5
      <3>7. R(f[m])
        BY <3>1, <3>6
      <3>8. k + 1 \in 0 .. N - Len(p)
        BY <1>1
      <3> HIDE DEF R
      <3> QED
        BY <3>7, <3>8, <2>1
    <2>7. CASE ~(next \in Clusters \ ToSet(q))
      BY <2>1, <2>2, <2>5, <2>7, <1>1
    <2> QED
      BY <2>6, <2>7
  <1>6. \A k \in 0 .. N - Len(p) : k \in T
    <2>1. N - Len(p) \in Nat
      BY <1>1
    <2> HIDE DEF T
    <2> QED
      BY <2>1, <1>4, <1>5, UpTo
  <1>7. R(f[N])
    <2>1. N - Len(p) \in 0 .. N - Len(p) /\ Len(p) + (N - Len(p)) = N
      BY <1>1
    <2>2. N - Len(p) \in T
      BY <1>6, <2>1
    <2> QED
      BY <2>1, <2>2
  <1> QED
    BY <1>2, <1>7

-----------------------------------------------------------------------------
(* change_dir enters one directory after the other.                        *)
Walked(c, name) == IF c = Lost THEN Lost ELSE Enter(c, name)

LEMMA LargestElement ==
    ASSUME NEW n \in Nat, NEW S, S \subseteq 1 .. n, S # {}
    PROVE  Max(S) \in S /\ \A y \in S : y <= Max(S)
  <1> DEFINE T == {n - x : x \in S}
  <1>1. T \subseteq Nat /\ T # {}
    <2>1. \A x \in S : n - x \in Nat
      OBVIOUS
    <2>2. PICK x : x \in S
      OBVIOUS
    <2> QED
      BY <2>1, <2>2
  <1>2. PICK t \in T : \A y \in T : t <= y
    <2> HIDE DEF T
    <2> QED
      BY <1>1, LeastElement
  <1>3. PICK m \in S : t = n - m
    BY <1>2
  <1>4. \A y \in S : m >= y
    <2> TAKE y \in S
    <2>1. n - y \in T
      OBVIOUS
    <2>2. n - m <= n - y
      BY <2>1, <1>2, <1>3
    <2>3. m \in Nat /\ y \in Nat
      OBVIOUS
    <2> QED
      BY <2>2, <2>3
  <1>5. Max(S) \in S /\ \A y \in S : Max(S) >= y
    BY <1>4 DEF Max
  <1>6. S \subseteq Nat
    OBVIOUS
  <1> QED
    BY <1>5, <1>6

LEMMA ChangeDirIs ==
    ASSUME NEW tokens, NEW n \in Nat, Len(tokens) = n, DOMAIN tokens = 1 .. n, NEW d
    PROVE  \E walk :
              /\ walk[0] = d
              /\ \A k \in 1 .. n : walk[k] = Walked(walk[k - 1], tokens[k])
              /\ change_dir(d, tokens) = walk[n]
  <1> DEFINE Step(g, s) == IF s = {} THEN d
                           ELSE Walked(g[s \ {Max(s)}], tokens[Max(s)])
             Rec(g, m) == g = [s \in SUBSET (1 .. m) |-> Step(g, s)]
             T == {m \in 0 .. n : \E g : Rec(g, m)}
  <1>1. 0 \in T
    <2> DEFINE g == [s \in SUBSET (1 .. 0) |-> d]
    <2>1. \A s \in SUBSET (1 .. 0) : s = {}
      OBVIOUS
    <2>2. Rec(g, 0)
      BY <2>1
    <2> QED
      BY <2>2
  <1>2. ASSUME NEW m \in 0 .. n - 1, m \in T
        PROVE  m + 1 \in T
    <2>1. PICK g : Rec(g, m)
      BY <1>2
    <2>2. \A s \in SUBSET (1 .. m) : g[s] = Step(g, s)
      BY <2>1
    <2> DEFINE f == [s \in SUBSET (1 .. m + 1) |->
                       IF m + 1 \in s THEN Walked(g[s \ {m + 1}], tokens[m + 1])
                                      ELSE g[s]]
    <2>3. ASSUME NEW s \in SUBSET (1 .. m + 1)
          PROVE  f[s] = Step(f, s)
      <3>1. CASE m + 1 \in s
        <4>1. Max(s) = m + 1
          <5>1. m + 1 \in Nat /\ s \subseteq 1 .. m + 1 /\ s # {}
            BY <3>1
          <5>2. Max(s) \in s /\ \A y \in s : y <= Max(s)
            BY <5>1, LargestElement
          <5>3. Max(s) \in 1 .. m + 1 /\ m + 1 <= Max(s)
            BY <5>2, <3>1
          <5> QED
            BY <5>3
        <4>5. s \ {m + 1} \in SUBSET (1 .. m)
          OBVIOUS
        <4>2. s \ {m + 1} \in SUBSET (1 .. m) /\ s \ {m + 1} \in SUBSET (1 .. m + 1)
              /\ m + 1 \notin s \ {m + 1}
          BY <4>5
        <4>3. f[s \ {m + 1}] = g[s \ {m + 1}]
          BY <4>2
        <4>4. f[s] = Walked(g[s \ {m + 1}], tokens[m + 1])
          BY <3>1
        <4> HIDE DEF f
        <4> QED
          BY <3>1, <4>1, <4>3, <4>4
      <3>2. CASE m + 1 \notin s
        <4>1. s \in SUBSET (1 .. m)
          BY <3>2
        <4>2. f[s] = g[s]
          BY <3>2
        <4>3. CASE s = {}
          BY <4>1, <4>2, <4>3, <2>2
        <4>4. CASE s # {}
          <5>1. s \ {Max(s)} \in SUBSET (1 .. m + 1) /\ m + 1 \notin s \ {Max(s)}
            BY <3>2
          <5>2. f[s \ {Max(s)}] = g[s \ {Max(s)}]
            BY <5>1
          <5> HIDE DEF f
          <5> QED
            BY <4>1, <4>2, <4>4, <5>2, <2>2
        <4> QED
          BY <4>3, <4>4
      <3> QED
        BY <3>1, <3>2
    <2>4. f = [s \in SUBSET (1 .. m + 1) |-> f[s]]
      OBVIOUS
    <2> HIDE DEF f
    <2>5. Rec(f, m + 1)
      <3> HIDE DEF Step
      <3> QED
        BY <2>3, <2>4
    <2> HIDE DEF Rec
    <2> QED
      BY <2>5
  <1>3. \E g : Rec(g, n)
    <2>1. \A m \in 0 .. n : m \in T
      <3> HIDE DEF T
      <3> QED
        BY <1>1, <1>2, UpTo
    <2>2. n \in 0 .. n
      OBVIOUS
    <2>3. n \in T
      <3> HIDE DEF T
      <3> QED
        BY <2>1, <2>2
    <2> HIDE DEF Rec
    <2> QED
      BY <2>3
  <1>4. change_dir(d, tokens) = (CHOOSE g : Rec(g, n))[1 .. n]
    BY DEF change_dir, FoldLeft, MapThenFoldSet, Walked
  <1>5. PICK g : Rec(g, n) /\ change_dir(d, tokens) = g[1 .. n]
    <2> HIDE DEF Rec
    <2> QED
      BY <1>3, <1>4
  <1>6. \A s \in SUBSET (1 .. n) : g[s] = Step(g, s)
    BY <1>5
  <1> DEFINE walk == [k \in 0 .. n |-> g[1 .. k]]
  <1>7. \A k \in 0 .. n : walk[k] = g[1 .. k]
    OBVIOUS
  <1> HIDE DEF walk
  <1>8. walk[0] = d
    <2>1. 1 .. 0 = {} /\ {} \in SUBSET (1 .. n) /\ 0 \in 0 .. n
      OBVIOUS
    <2>2. g[{}] = d
      BY <2>1, <1>6
    <2>3. walk[0] = g[1 .. 0]
      BY <2>1, <1>7
    <2> QED
      BY <2>1, <2>2, <2>3
  <1>9. ASSUME NEW k \in 1 .. n
        PROVE  walk[k] = Walked(walk[k - 1], tokens[k])
    <2>5. (1 .. k) \ {k} = 1 .. k - 1
      OBVIOUS
    <2>6. k \in 0 .. n /\ k - 1 \in 0 .. n /\ k \in 1 .. k
      OBVIOUS
    <2>7. 1 .. k \in SUBSET (1 .. n)
      OBVIOUS
    <2>1. /\ 1 .. k \in SUBSET (1 .. n) /\ 1 .. k # {} /\ (1 .. k) \ {k} = 1 .. k - 1
          /\ k \in 0 .. n /\ k - 1 \in 0 .. n
      BY <2>5, <2>6, <2>7
    <2>2. Max(1 .. k) = k
      <3>1. 1 .. k \subseteq 1 .. k /\ 1 .. k # {} /\ k \in Nat /\ k \in 1 .. k
        OBVIOUS
      <3>2. Max(1 .. k) \in 1 .. k /\ \A y \in 1 .. k : y <= Max(1 .. k)
        BY <3>1, LargestElement
      <3> QED
        BY <3>1, <3>2
    <2>3. g[1 .. k] = Walked(g[(1 .. k) \ {Max(1 .. k)}], tokens[Max(1 .. k)])
      BY <2>1, <1>6
    <2>4. g[1 .. k] = Walked(g[1 .. k - 1], tokens[k])
      BY <2>1, <2>2, <2>3
    <2> QED
      BY <2>1, <2>4, <1>7
  <1>10. walk[n] = change_dir(d, tokens)
    <2>1. n \in 0 .. n
      OBVIOUS
    <2> QED
      BY <2>1, <1>5, <1>7
  <1> QED
    BY <1>8, <1>9, <1>10


-----------------------------------------------------------------------------
(* Types.                                                                  *)

Contents == Entries \cup {NoEntry, Zero, Junk} \cup Units

Volumes == Disks(Contents)

Updates == Writes(Contents)

VolumeOK == Disk \in Volumes

LEMMA EntryCell ==
    ASSUME NEW e \in Contents, IsEntry(e)
    PROVE  e \in Entries
  BY DEF Contents, IsEntry

LEMMA CellsType ==
    ASSUME VolumeOK, NEW d
    PROVE  /\ Cells(d) \in Seq(Contents)
           /\ read_directory(d) \in Seq(Contents)
  <1>1. area \in [Clusters -> Seq(Contents)] /\ root \in [1 .. RootDirEntries -> Contents]
    BY DEF VolumeOK, Volumes, Disks, Disk
  <1>2. Cells(d) \in Seq(Contents)
    <2> DEFINE chain == Chain(d)
               s == [k \in 1 .. Len(chain) |-> area[chain[k]]]
    <2>1. chain \in Seq(Clusters) /\ Len(chain) \in Nat
      BY ChainType
    <2> HIDE DEF chain
    <2>2. s \in [1 .. Len(chain) -> Seq(Contents)]
      BY <1>1, <2>1
    <2>3. Cells(d) = FlattenSeq(s)
      BY DEF Cells, chain
    <2> HIDE DEF s
    <2>4. PICK n \in Nat : n = Len(chain)
      BY <2>1
    <2>5. s \in [1 .. n -> Seq(Contents)]
      BY <2>2, <2>4
    <2>6. \E b : Blocks(b, s, n, Contents)
      BY <2>4, <2>5, Flatten
    <2>8. PICK b \in [0 .. n -> Seq(Contents)] : FlattenSeq(s) = b[n]
      BY <2>6 DEF Blocks
    <2>7. n \in 0 .. n
      BY <2>4
    <2> QED
      BY <2>3, <2>8, <2>7
  <1>3. root \in Seq(Contents)
    <2>1. RootDirEntries \in Nat
      BY Geometry
    <2> QED
      BY <1>1, <2>1
  <1> QED
    BY <1>2, <1>3 DEF read_directory

LEMMA FoundInDirectory ==
    ASSUME VolumeOK, NEW d, NEW name,
           NEW i, i = find_entry_by_name(read_directory(d), name)
    PROVE  /\ i \in 0 .. Len(read_directory(d))
           /\ i # 0 => /\ read_directory(d)[i] \in Entries
                       /\ IsEntry(read_directory(d)[i])
                       /\ read_directory(d)[i].name = name
  <1>1. PICK q \in Seq(Contents), n \in Nat : q = read_directory(d) /\ Len(q) = n
    BY CellsType
  <1>2. /\ i \in 0 .. n
        /\ i # 0 => IsEntry(q[i]) /\ q[i].name = name
    BY <1>1, FoundEntry
  <1>3. i # 0 => q[i] \in Contents
    BY <1>1, <1>2
  <1> QED
    BY <1>1, <1>2, <1>3, EntryCell

LEMMA EnterType ==
    ASSUME VolumeOK, NEW d \in Nat, NEW name
    PROVE  Enter(d, name) \in Nat \cup {Lost}
  <1> DEFINE i == find_entry_by_name(read_directory(d), name)
  <1>1. i # 0 => read_directory(d)[i].start \in Nat
    <2>1. i # 0 => read_directory(d)[i] \in Entries
      BY FoundInDirectory
    <2> QED
      BY <2>1 DEF Entries
  <1> HIDE DEF i
  <1>2. Enter(d, name)
          = IF name = Dot \/ (name = DotDot /\ d = RootDir) THEN d
            ELSE IF i # 0 /\ read_directory(d)[i].dir THEN read_directory(d)[i].start
            ELSE IF name = DotDot THEN RootDir
            ELSE Lost
    BY DEF Enter, i
  <1> QED
    BY <1>1, <1>2 DEF RootDir

-----------------------------------------------------------------------------
(* The writes of a handler.  Tame: between two writes of an entry of the   *)
(* FAT the disk is in Q, at every write it is in P; the handler writes to  *)
(* the clusters of C and makes the slot updates of S.                      *)

AreaUpdate(c, cells) == [to |-> "area", cluster |-> c, value |-> cells]

SlotUpdate(d, i, e) == [to |-> "slot", dir |-> d, slot |-> i, value |-> e]

SlotUpdates == [to : {"slot"}, dir : Nat, slot : Nat, value : Contents]

Tame(P, Q, C, S) ==
    /\ Q \subseteq P /\ P \subseteq Volumes
    /\ C \subseteq Clusters /\ S \subseteq SlotUpdates
    /\ \A u \in Q, c \in C :
          /\ \A x \in Nat : /\ SetFat(u, c, x) \in Q
                            /\ \A m \in 0 .. NumberOfFats : PartFat(u, c, x, m) \in P
          /\ \A cells \in Seq(Contents) : After(u, AreaUpdate(c, cells)) \in Q
    /\ \A u \in Q, s \in S : After(u, s) \in Q

LEMMA FatRuns ==
    ASSUME NEW P, NEW Q, NEW C, NEW S, Tame(P, Q, C, S),
           NEW u \in Q, NEW c \in C, NEW x \in Nat
    PROVE  /\ Runs(FatWrites(c, x), u, SetFat(u, c, x), P)
           /\ SetFat(u, c, x) \in Q
           /\ FatWrites(c, x) \in Seq(Updates)
  <1>1. u \in Disks(Contents) /\ c \in Clusters
    BY DEF Tame, Volumes
  <1>2. FatWrites(c, x) \in Seq(Updates)
    BY <1>1, FatWritesType DEF Updates
  <1>3. \A m \in 0 .. NumberOfFats : PartFat(u, c, x, m) \in P
    BY DEF Tame
  <1>4. Runs(FatWrites(c, x), u, SetFat(u, c, x), P)
    BY <1>1, <1>3, RunsFat
  <1> QED
    BY <1>2, <1>4 DEF Tame

LEMMA AreaRuns ==
    ASSUME NEW P, NEW Q, NEW C, NEW S, Tame(P, Q, C, S),
           NEW u \in Q, NEW c \in C, NEW cells \in Seq(Contents)
    PROVE  /\ Runs(AreaWrite(c, cells), u, After(u, AreaUpdate(c, cells)), P)
           /\ After(u, AreaUpdate(c, cells)) \in Q
           /\ AreaWrite(c, cells) \in Seq(Updates)
  <1> DEFINE x == AreaUpdate(c, cells)
  <1>1. After(u, x) \in Q /\ After(u, x) \in P /\ u \in P
    BY DEF Tame
  <1>2. x \in Updates
    BY DEF Tame, Updates, Writes, AreaUpdate
  <1>3. AreaWrite(c, cells) = <<x>>
    BY DEF AreaWrite, AreaUpdate
  <1> HIDE DEF x
  <1>4. Runs(<<x>>, u, After(u, x), P)
    BY <1>1, RunsOne
  <1> QED
    BY <1>1, <1>2, <1>3, <1>4 DEF x

LEMMA SlotRuns ==
    ASSUME NEW P, NEW Q, NEW C, NEW S, Tame(P, Q, C, S),
           NEW u \in Q, NEW d, NEW i, NEW e, SlotUpdate(d, i, e) \in S
    PROVE  /\ Runs(SlotWrite(d, i, e), u, After(u, SlotUpdate(d, i, e)), P)
           /\ After(u, SlotUpdate(d, i, e)) \in Q
           /\ SlotWrite(d, i, e) \in Seq(Updates)
  <1> DEFINE x == SlotUpdate(d, i, e)
  <1>1. After(u, x) \in Q /\ After(u, x) \in P /\ u \in P
    BY DEF Tame
  <1>2. x \in Updates
    BY DEF Tame, Updates, Writes, SlotUpdates
  <1>3. SlotWrite(d, i, e) = <<x>>
    BY DEF SlotWrite, SlotUpdate
  <1> HIDE DEF x
  <1>4. Runs(<<x>>, u, After(u, x), P)
    BY <1>1, RunsOne
  <1> QED
    BY <1>1, <1>2, <1>3, <1>4 DEF x

LEMMA FreeingRuns ==
    ASSUME NEW P, NEW Q, NEW C, NEW S, Tame(P, Q, C, S), NEW u \in Q,
           NEW chain, chain \in Seq(Clusters), ToSet(chain) \subseteq C
    PROVE  /\ Runs(FreeingWrites(chain), u, Freed(u, ToSet(chain)), P)
           /\ Freed(u, ToSet(chain)) \in Q
           /\ FreeingWrites(chain) \in Seq(Updates)
  <1>1. Q \subseteq P /\ Q \subseteq Disks(Contents) /\ u \in Disks(Contents)
    BY DEF Tame, Volumes
  <1>2. Free \in Nat
    BY DEF Free
  <1>3. \A v \in Q, c \in ToSet(chain) :
          /\ SetFat(v, c, Free) \in Q
          /\ \A m \in 0 .. NumberOfFats : PartFat(v, c, Free, m) \in P
    BY <1>2 DEF Tame
  <1> QED
    BY <1>1, <1>3, RunsFreeing DEF Updates

(* The data of one cluster: what of the buffer falls into it.              *)
LEMMA MinOfTwo ==
    ASSUME NEW a \in Nat, NEW b \in Nat
    PROVE  Min({a, b}) = IF a <= b THEN a ELSE b
  <1>1. \E x \in {a, b} : \A y \in {a, b} : x <= y
    <2>1. CASE a <= b
      BY <2>1
    <2>2. CASE b <= a
      BY <2>2
    <2> QED
      BY <2>1, <2>2
  <1>2. Min({a, b}) \in {a, b} /\ \A y \in {a, b} : Min({a, b}) <= y
    BY <1>1 DEF Min
  <1> QED
    BY <1>2

Piece(buffer, k) ==
    SubSeq(buffer, (k - 1) * ClusterSize + 1, Min({k * ClusterSize, Len(buffer)}))

DataCells(units) ==
    [k \in 1 .. ClusterSize |-> IF k <= Len(units) THEN units[k] ELSE Junk]

PieceStart(k) == (k - 1) * ClusterSize

Slice(q, from, n) == [i \in 1 .. n |-> q[from + i]]

(* The length of the piece that starts after the first from units of L.    *)
PieceLen(from, L) == IF from + ClusterSize <= L THEN ClusterSize
                     ELSE IF from <= L THEN L - from ELSE 0

LEMMA PieceIs ==
    ASSUME NEW V, NEW buffer, buffer \in Seq(V), NEW k \in Nat \ {0},
           NEW from, from = PieceStart(k),
           NEW n, n = PieceLen(from, Len(buffer))
    PROVE  /\ from \in Nat /\ n \in Nat
           /\ Piece(buffer, k) = Slice(buffer, from, n)
           /\ \A i \in 1 .. n : from + i \in 1 .. Len(buffer)
           /\ Piece(buffer, k) \in Seq(V)
           /\ Len(Piece(buffer, k)) = n
  <1> USE DEF PieceLen, PieceStart, Slice
  <1>1. from \in Nat /\ k * ClusterSize = from + ClusterSize
        /\ ClusterSize \in Nat /\ Len(buffer) \in Nat
    BY Geometry
  <1>2. n \in Nat
    BY <1>1
  <1>3. from + ClusterSize \in Nat
    BY <1>1
  <1>4. Min({from + ClusterSize, Len(buffer)})
          = IF from + ClusterSize <= Len(buffer) THEN from + ClusterSize ELSE Len(buffer)
    BY <1>1, <1>3, MinOfTwo
  <1> DEFINE to == Min({from + ClusterSize, Len(buffer)})
  <1>5. to \in Nat /\ 1 .. to - from = 1 .. n
    BY <1>1, <1>4
  <1> HIDE DEF to
  <1>6. Piece(buffer, k) = SubSeq(buffer, from + 1, to)
    BY <1>1 DEF Piece, to
  <1>7. \A i \in 1 .. n : from + i \in 1 .. Len(buffer)
    BY <1>1
  <1>8. Piece(buffer, k) = [i \in 1 .. n |-> buffer[from + i]]
    <2>1. PICK a \in Int : a = from + 1
      BY <1>1
    <2>2. to \in Int /\ \A i \in a .. to : buffer[i] \in V
      <3>1. to \in Nat /\ to <= Len(buffer)
        BY <1>1, <1>4, <1>5 DEF to
      <3>2. \A i \in a .. to : i \in 1 .. Len(buffer)
        BY <1>1, <2>1, <3>1
      <3> QED
        BY <3>1, <3>2
    <2>3. (to - a) + 1 = to - from /\ (a <= to => n = (to - a) + 1) /\ (~(a <= to) => n = 0)
      BY <1>1, <1>4, <2>1 DEF to
    <2>4. /\ SubSeq(buffer, a, to) \in Seq(V)
          /\ Len(SubSeq(buffer, a, to)) = IF a <= to THEN to - a + 1 ELSE 0
          /\ \A i \in 1 .. to - a + 1 : SubSeq(buffer, a, to)[i] = buffer[a + i - 1]
      BY <2>1, <2>2, SubSeqProperties
    <2> DEFINE q == SubSeq(buffer, a, to)
    <2>5. q \in Seq(V) /\ Len(q) = n
      BY <2>3, <2>4
    <2>6. \A i \in 1 .. n : q[i] = buffer[from + i]
      <3> TAKE i \in 1 .. n
      <3>1. a <= to
        BY <2>2, <2>3
      <3>2. i \in 1 .. to - a + 1
        BY <2>3, <3>1
      <3>3. a + i - 1 = from + i
        BY <1>1, <2>1
      <3> QED
        BY <3>2, <3>3, <2>4
    <2> HIDE DEF q
    <2>7. q = [i \in 1 .. n |-> buffer[from + i]]
      BY <2>5, <2>6, <1>2
    <2> QED
      BY <1>6, <2>1, <2>7 DEF q
  <1>9. [i \in 1 .. n |-> buffer[from + i]] \in [1 .. n -> V]
    BY <1>7
  <1> QED
    BY <1>1, <1>2, <1>7, <1>8, <1>9

LEMMA DataRuns ==
    ASSUME NEW P, NEW Q, NEW C, NEW S, Tame(P, Q, C, S),
           NEW u \in Q, NEW c \in C, NEW units, units \in Seq(Contents)
    PROVE  /\ Runs(DataWrite(c, units), u, After(u, AreaUpdate(c, DataCells(units))), P)
           /\ After(u, AreaUpdate(c, DataCells(units))) \in Q
           /\ DataWrite(c, units) \in Seq(Updates)
           /\ DataCells(units) \in Seq(Contents)
  <1>1. DataCells(units) \in Seq(Contents)
    <2>1. ClusterSize \in Nat
      BY Geometry
    <2>2. PICK n \in Nat : n = Len(units) /\ units \in [1 .. n -> Contents]
      OBVIOUS
    <2>3. \A k \in 1 .. ClusterSize :
            (IF k <= Len(units) THEN units[k] ELSE Junk) \in Contents
      BY <2>1, <2>2 DEF Contents
    <2>4. DataCells(units) \in [1 .. ClusterSize -> Contents]
      BY <2>3 DEF DataCells
    <2> QED
      BY <2>1, <2>4
  <1>2. DataWrite(c, units) = AreaWrite(c, DataCells(units))
    BY DEF DataWrite, DataCells
  <1> QED
    BY <1>1, <1>2, AreaRuns

LEMMA FormattedOK ==
    ASSUME FormattedVolume
    PROVE  VolumeOK
  <1>1. RootDirEntries \in Nat /\ ClusterSize \in Nat
    BY Geometry
  <1>2. fat \in [Copies -> [Clusters -> Nat]]
    BY DEF FormattedVolume, Free
  <1>3. root \in [1 .. RootDirEntries -> Contents]
    BY DEF FormattedVolume, Contents
  <1>4. area \in [Clusters -> Seq(Contents)]
    <2> DEFINE blank == [k \in 1 .. ClusterSize |-> Zero]
    <2>1. blank \in [1 .. ClusterSize -> Contents]
      BY DEF Contents
    <2>2. blank \in Seq(Contents)
      BY <2>1, <1>1
    <2>3. area = [c \in Clusters |-> blank]
      BY DEF FormattedVolume
    <2> HIDE DEF blank
    <2> QED
      BY <2>2, <2>3
  <1> QED
    BY <1>2, <1>3, <1>4 DEF VolumeOK, Volumes, Disks, Disk

-----------------------------------------------------------------------------
(* A sound volume.  DS holds the root and the first clusters of            *)
(* directories, every one of them owned by an entry; path gives every      *)
(* entry of these directories the chain of its clusters.                   *)

Slots(u, d) == IF d = RootDir THEN u.root ELSE u.area[d]

IsLive(e) == IsEntry(e) /\ e.name \notin {Dot, DotDot}

At(u, r) == Slots(u, r[1])[r[2]]

Refs(u, DS) ==
    {r \in DS \X Nat : r[2] \in DOMAIN Slots(u, r[1]) /\ IsLive(At(u, r))}

OnPath(u, p, start) ==
    /\ p \in Seq(Clusters) /\ p # <<>> /\ p[1] = start
    /\ \A i, j \in 1 .. Len(p) : p[i] = p[j] => i = j
    /\ \A i \in 1 .. Len(p) - 1 : u.fat[1][p[i]] = p[i + 1]
    /\ u.fat[1][p[Len(p)]] = EOC

(* No cluster lies on two paths.                                           *)
Apart(path, R) ==
    \A r, s \in R : \A i \in 1 .. Len(path[r]), j \in 1 .. Len(path[s]) :
       path[r][i] = path[s][j] => r = s

(* The directories when e comes or goes, the paths when r gets p.          *)
Grown(DS, e) == IF e.dir THEN DS \cup {e.start} ELSE DS

Shrunk(DS, e) == IF e.dir THEN DS \ {e.start} ELSE DS

WithPath(path, R, r, p) == [s \in R |-> IF s = r THEN p ELSE path[s]]

Good(u, DS, path) ==
    /\ u \in Volumes
    /\ DS \subseteq Clusters \cup {RootDir} /\ RootDir \in DS
    /\ \A r \in Refs(u, DS) : OnPath(u, path[r], At(u, r).start)
    /\ Apart(path, Refs(u, DS))
    /\ \A r \in Refs(u, DS) :
          At(u, r).dir => At(u, r).start \in DS /\ Len(path[r]) = 1
    /\ \A d \in DS \ {RootDir} :
          \E r \in Refs(u, DS) : At(u, r).dir /\ At(u, r).start = d

LEMMA OnPathKept ==
    ASSUME NEW u, NEW w, NEW p, NEW start, OnPath(u, p, start),
           \A i \in 1 .. Len(p) : w.fat[1][p[i]] = u.fat[1][p[i]]
    PROVE  OnPath(w, p, start)
  <1>1. Len(p) \in Nat /\ Len(p) # 0
    BY DEF OnPath
  <1>2. Len(p) \in 1 .. Len(p) /\ \A i \in 1 .. Len(p) - 1 : i \in 1 .. Len(p)
    BY <1>1
  <1> QED
    BY <1>2 DEF OnPath

LEMMA OnPathMarked ==
    ASSUME NEW u, NEW p, NEW start, OnPath(u, p, start), NEW i \in 1 .. Len(p)
    PROVE  u.fat[1][p[i]] # Free /\ p[i] \in Clusters /\ start \in Clusters
  <1>1. Len(p) \in Nat /\ Len(p) # 0 /\ p[i] \in Clusters /\ start \in Clusters
    BY DEF OnPath
  <1>2. CASE i = Len(p)
    BY <1>1, <1>2, ClustersAreFinite DEF OnPath, Free, EOC
  <1>3. CASE i # Len(p)
    <2>1. i \in 1 .. Len(p) - 1 /\ i + 1 \in 1 .. Len(p)
      BY <1>1, <1>3
    <2>2. u.fat[1][p[i]] = p[i + 1] /\ p[i + 1] \in Clusters
      BY <2>1 DEF OnPath
    <2> QED
      BY <1>1, <2>2, ClustersAreFinite
  <1> QED
    BY <1>2, <1>3

LEMMA EntryIsLive ==
    ASSUME NEW e \in Entries, e.name \notin {Dot, DotDot}
    PROVE  IsLive(e)
  BY CellsDiffer DEF IsLive, IsEntry

(* A file or a directory is added.                                         *)
LEMMA GoodAdd ==
    ASSUME NEW u, NEW DS, NEW path, Good(u, DS, path), NEW w \in Volumes,
           NEW r, r \notin Refs(u, DS), NEW e, At(w, r) = e,
           NEW p, OnPath(w, p, e.start),
           NEW D2, D2 = Grown(DS, e),
           e.dir => Len(p) = 1,
           Refs(w, D2) = Refs(u, DS) \cup {r},
           \A s \in Refs(u, DS) : At(w, s) = At(u, s),
           \A i \in 1 .. Len(p) : u.fat[1][p[i]] = Free,
           \A b \in Clusters :
              (\A i \in 1 .. Len(p) : p[i] # b) => w.fat[1][b] = u.fat[1][b],
           NEW path2, path2 = WithPath(path, Refs(w, D2), r, p)
    PROVE  Good(w, D2, path2)
  <1> USE DEF Grown, WithPath
  <1> DEFINE R == Refs(u, DS)
             R2 == Refs(w, D2)
  <1>1. R2 = R \cup {r} /\ r \notin R /\ r \in R2
    OBVIOUS
  <1>2. path2[r] = p /\ \A s \in R : path2[s] = path[s] /\ s # r
    OBVIOUS
  <1>3. /\ \A s \in R : OnPath(u, path[s], At(u, s).start)
        /\ Apart(path, R)
        /\ \A s \in R : At(u, s).dir => At(u, s).start \in DS /\ Len(path[s]) = 1
        /\ \A d \in DS \ {RootDir} :
             \E s \in R : At(u, s).dir /\ At(u, s).start = d
        /\ DS \subseteq Clusters \cup {RootDir} /\ RootDir \in DS
    BY DEF Good
  <1>4. ASSUME NEW s \in R, NEW i \in 1 .. Len(path[s]), NEW j \in 1 .. Len(p)
        PROVE  path[s][i] # p[j]
    <2>1. u.fat[1][path[s][i]] # Free
      BY <1>3, OnPathMarked
    <2> QED
      BY <2>1
  <1>5. e.start \in Clusters
    BY DEF OnPath
  <1> HIDE DEF R, R2
  <1>6. ASSUME NEW s \in R2
        PROVE  OnPath(w, path2[s], At(w, s).start)
    <2>1. CASE s = r
      BY <2>1, <1>2
    <2>2. CASE s # r
      <3>1. s \in R /\ path2[s] = path[s] /\ At(w, s) = At(u, s)
        BY <2>2, <1>1, <1>2 DEF R
      <3>2. OnPath(u, path[s], At(u, s).start)
        BY <3>1, <1>3
      <3>3. \A i \in 1 .. Len(path[s]) : w.fat[1][path[s][i]] = u.fat[1][path[s][i]]
        <4> TAKE i \in 1 .. Len(path[s])
        <4>1. path[s][i] \in Clusters
          BY <3>2, OnPathMarked
        <4>2. \A j \in 1 .. Len(p) : p[j] # path[s][i]
          BY <3>1, <1>4
        <4> QED
          BY <4>1, <4>2
      <3> QED
        BY <3>1, <3>2, <3>3, OnPathKept
    <2> QED
      BY <2>1, <2>2
  <1>7. Apart(path2, R2)
    <2> SUFFICES ASSUME NEW s \in R2, NEW t \in R2,
                        NEW i \in 1 .. Len(path2[s]), NEW j \in 1 .. Len(path2[t]),
                        path2[s][i] = path2[t][j]
                 PROVE  s = t
      BY DEF Apart
    <2>1. CASE s \in R /\ t \in R
      <3>1. path2[s] = path[s] /\ path2[t] = path[t]
        BY <2>1, <1>2
      <3>2. i \in 1 .. Len(path[s]) /\ j \in 1 .. Len(path[t]) /\ path[s][i] = path[t][j]
        BY <3>1
      <3>3. Apart(path, R)
        BY <1>3
      <3> QED
        BY <2>1, <3>2, <3>3 DEF Apart
    <2>2. CASE s \in R /\ t = r
      <3>1. path2[s] = path[s] /\ path2[t] = p
        BY <2>2, <1>2
      <3>2. i \in 1 .. Len(path[s]) /\ j \in 1 .. Len(p) /\ path[s][i] = p[j]
        BY <3>1
      <3> QED
        BY <2>2, <3>2, <1>4
    <2>3. CASE s = r /\ t \in R
      <3>1. path2[t] = path[t] /\ path2[s] = p
        BY <2>3, <1>2
      <3>2. i \in 1 .. Len(p) /\ j \in 1 .. Len(path[t]) /\ path[t][j] = p[i]
        BY <3>1
      <3> QED
        BY <2>3, <3>2, <1>4
    <2> QED
      BY <2>1, <2>2, <2>3, <1>1
  <1>8. ASSUME NEW s \in R2, At(w, s).dir
        PROVE  At(w, s).start \in D2 /\ Len(path2[s]) = 1
    <2>1. CASE s = r
      BY <2>1, <1>8, <1>2
    <2>2. CASE s # r
      BY <2>2, <1>1, <1>2, <1>3, <1>8 DEF R
    <2> QED
      BY <2>1, <2>2
  <1>9. ASSUME NEW d \in D2 \ {RootDir}
        PROVE  \E s \in R2 : At(w, s).dir /\ At(w, s).start = d
    <2>1. CASE d \in DS
      <3>1. PICK s \in R : At(u, s).dir /\ At(u, s).start = d
        BY <2>1, <1>3, <1>9
      <3> QED
        BY <3>1, <1>1 DEF R
    <2>2. CASE d \notin DS
      <3>1. e.dir /\ d = e.start
        BY <2>2
      <3> QED
        BY <3>1, <1>1
    <2> QED
      BY <2>1, <2>2
  <1>10. D2 \subseteq Clusters \cup {RootDir} /\ RootDir \in D2
    BY <1>3, <1>5
  <1> QED
    BY <1>6, <1>7, <1>8, <1>9, <1>10 DEF Good, R2

(* A file or an empty directory is removed.                                *)
LEMMA GoodRemove ==
    ASSUME NEW u, NEW DS, NEW path, Good(u, DS, path), NEW w \in Volumes,
           NEW r \in Refs(u, DS), NEW e, At(u, r) = e,
           NEW D2, D2 = Shrunk(DS, e),
           Refs(w, D2) = Refs(u, DS) \ {r},
           \A s \in Refs(u, DS) \ {r} : At(w, s) = At(u, s),
           \A b \in Clusters :
              (\A i \in 1 .. Len(path[r]) : path[r][i] # b) => w.fat[1][b] = u.fat[1][b]
    PROVE  Good(w, D2, path)
  <1> USE DEF Shrunk
  <1> DEFINE R == Refs(u, DS)
             R2 == Refs(w, D2)
  <1>1. R2 = R \ {r} /\ r \in R
    OBVIOUS
  <1>2. /\ \A s \in R : OnPath(u, path[s], At(u, s).start)
        /\ Apart(path, R)
        /\ \A s \in R : At(u, s).dir => At(u, s).start \in DS /\ Len(path[s]) = 1
        /\ \A d \in DS \ {RootDir} :
             \E s \in R : At(u, s).dir /\ At(u, s).start = d
        /\ DS \subseteq Clusters \cup {RootDir} /\ RootDir \in DS
    BY DEF Good
  <1> HIDE DEF R, R2
  <1>3. OnPath(u, path[r], e.start)
    BY <1>1, <1>2
  <1>4. ASSUME NEW s \in R2
        PROVE  OnPath(w, path[s], At(w, s).start)
    <2>1. s \in R /\ s # r /\ At(w, s) = At(u, s)
      BY <1>1 DEF R
    <2>2. OnPath(u, path[s], At(u, s).start)
      BY <2>1, <1>2
    <2>3. \A i \in 1 .. Len(path[s]) : w.fat[1][path[s][i]] = u.fat[1][path[s][i]]
      <3> TAKE i \in 1 .. Len(path[s])
      <3>1. path[s][i] \in Clusters
        BY <2>2, OnPathMarked
      <3>2. \A j \in 1 .. Len(path[r]) : path[r][j] # path[s][i]
        BY <2>1, <1>1, <1>2 DEF Apart
      <3> QED
        BY <3>1, <3>2
    <2> QED
      BY <2>1, <2>2, <2>3, OnPathKept
  <1>5. Apart(path, R2)
    BY <1>1, <1>2 DEF Apart
  <1>6. 1 \in 1 .. Len(path[r]) /\ path[r][1] = e.start /\ e.start \in Clusters
    BY <1>3 DEF OnPath
  <1>7. ASSUME NEW s \in R2, At(w, s).dir
        PROVE  At(w, s).start \in D2 /\ Len(path[s]) = 1
    <2>1. s \in R /\ s # r /\ At(w, s) = At(u, s)
      BY <1>1 DEF R
    <2>2. At(u, s).start \in DS /\ Len(path[s]) = 1
      BY <2>1, <1>2, <1>7
    <2>3. At(u, s).start # e.start
      <3>1. OnPath(u, path[s], At(u, s).start)
        BY <2>1, <1>2
      <3>2. 1 \in 1 .. Len(path[s]) /\ path[s][1] = At(u, s).start
        BY <3>1 DEF OnPath
      <3> QED
        BY <2>1, <3>2, <1>1, <1>2, <1>6 DEF Apart
    <2> QED
      BY <2>1, <2>2, <2>3
  <1>8. ASSUME NEW d \in D2 \ {RootDir}
        PROVE  \E s \in R2 : At(w, s).dir /\ At(w, s).start = d
    <2>1. d \in DS /\ ~(e.dir /\ d = e.start)
      OBVIOUS
    <2>2. PICK s \in R : At(u, s).dir /\ At(u, s).start = d
      BY <2>1, <1>2, <1>8
    <2>3. s # r
      BY <2>1, <2>2
    <2> QED
      BY <2>2, <2>3, <1>1 DEF R
  <1>9. D2 \subseteq Clusters \cup {RootDir} /\ RootDir \in D2
    BY <1>2, <1>6, ClustersAreFinite
  <1> QED
    BY <1>4, <1>5, <1>7, <1>8, <1>9 DEF Good, R2

(* The clusters of a file are exchanged, for free ones and some it had.    *)
LEMMA GoodReplace ==
    ASSUME NEW u, NEW DS, NEW path, Good(u, DS, path), NEW w \in Volumes,
           NEW r \in Refs(u, DS), ~At(w, r).dir, ~At(u, r).dir,
           Refs(w, DS) = Refs(u, DS),
           \A s \in Refs(u, DS) \ {r} : At(w, s) = At(u, s),
           NEW p, OnPath(w, p, At(w, r).start),
           \A i \in 1 .. Len(p) :
              \/ u.fat[1][p[i]] = Free
              \/ \E j \in 1 .. Len(path[r]) : path[r][j] = p[i],
           \A s \in Refs(u, DS) \ {r} : \A i \in 1 .. Len(path[s]) :
              w.fat[1][path[s][i]] = u.fat[1][path[s][i]],
           NEW path2, path2 = WithPath(path, Refs(u, DS), r, p)
    PROVE  Good(w, DS, path2)
  <1> USE DEF WithPath
  <1> DEFINE R == Refs(u, DS)
  <1>1. Refs(w, DS) = R /\ r \in R
    OBVIOUS
  <1>2. path2[r] = p /\ \A s \in R \ {r} : path2[s] = path[s]
    OBVIOUS
  <1>3. /\ \A s \in R : OnPath(u, path[s], At(u, s).start)
        /\ Apart(path, R)
        /\ \A s \in R : At(u, s).dir => At(u, s).start \in DS /\ Len(path[s]) = 1
        /\ \A d \in DS \ {RootDir} :
             \E s \in R : At(u, s).dir /\ At(u, s).start = d
        /\ DS \subseteq Clusters \cup {RootDir} /\ RootDir \in DS
    BY DEF Good
  <1>4. ASSUME NEW s \in R \ {r}, NEW i \in 1 .. Len(path[s]), NEW j \in 1 .. Len(p)
        PROVE  path[s][i] # p[j]
    <2>1. u.fat[1][path[s][i]] # Free
      BY <1>3, OnPathMarked
    <2>2. \A k \in 1 .. Len(path[r]) : path[r][k] # path[s][i]
      BY <1>1, <1>3 DEF Apart
    <2> QED
      BY <2>1, <2>2
  <1>5. ASSUME NEW s \in R
        PROVE  OnPath(w, path2[s], At(w, s).start)
    <2>1. CASE s = r
      BY <2>1, <1>2
    <2>2. CASE s # r
      <3>1. path2[s] = path[s] /\ At(w, s) = At(u, s) /\ OnPath(u, path[s], At(u, s).start)
        BY <2>2, <1>2, <1>3
      <3>2. \A i \in 1 .. Len(path[s]) : w.fat[1][path[s][i]] = u.fat[1][path[s][i]]
        BY <2>2
      <3> QED
        BY <3>1, <3>2, OnPathKept
    <2> QED
      BY <2>1, <2>2
  <1>6. Apart(path2, R)
    <2> SUFFICES ASSUME NEW s \in R, NEW t \in R,
                        NEW i \in 1 .. Len(path2[s]), NEW j \in 1 .. Len(path2[t]),
                        path2[s][i] = path2[t][j]
                 PROVE  s = t
      BY DEF Apart
    <2>1. CASE s # r /\ t # r
      BY <2>1, <1>2, <1>3 DEF Apart
    <2>2. CASE s # r /\ t = r
      BY <2>2, <1>2, <1>4
    <2>3. CASE s = r /\ t # r
      BY <2>3, <1>2, <1>4
    <2> QED
      BY <2>1, <2>2, <2>3
  <1>7. ASSUME NEW s \in R, At(w, s).dir
        PROVE  At(w, s).start \in DS /\ Len(path2[s]) = 1
    <2>1. s # r
      BY <1>7
    <2> QED
      BY <2>1, <1>2, <1>3, <1>7
  <1>8. ASSUME NEW d \in DS \ {RootDir}
        PROVE  \E s \in R : At(w, s).dir /\ At(w, s).start = d
    <2>1. PICK s \in R : At(u, s).dir /\ At(u, s).start = d
      BY <1>3
    <2>2. s # r
      BY <2>1
    <2> QED
      BY <2>1, <2>2
  <1> HIDE DEF R
  <1> QED
    BY <1>1, <1>3, <1>5, <1>6, <1>7, <1>8 DEF Good

-----------------------------------------------------------------------------
(* Reading a sound volume.                                                 *)

LEMMA SlotsType ==
    ASSUME NEW u \in Volumes, NEW d \in Clusters \cup {RootDir}
    PROVE  /\ Slots(u, d) \in Seq(Contents)
           /\ DOMAIN Slots(u, d) = 1 .. Len(Slots(u, d))
           /\ Len(Slots(u, d)) \in Nat
  <1>1. u.area \in [Clusters -> Seq(Contents)] /\ u.root \in [1 .. RootDirEntries -> Contents]
    BY DEF Volumes, Disks
  <1>2. RootDirEntries \in Nat
    BY Geometry
  <1>3. u.root \in Seq(Contents)
    BY <1>1, <1>2
  <1>4. Slots(u, d) \in Seq(Contents)
    BY <1>1, <1>3 DEF Slots
  <1> QED
    BY <1>4

LEMMA RefType ==
    ASSUME NEW u \in Volumes, NEW DS, DS \subseteq Clusters \cup {RootDir},
           NEW r \in Refs(u, DS)
    PROVE  /\ At(u, r) \in Entries /\ IsLive(At(u, r))
           /\ r[1] \in DS /\ r[2] \in 1 .. Len(Slots(u, r[1])) /\ r[2] \in Nat
           /\ r = <<r[1], r[2]>>
  <1>1. r \in DS \X Nat /\ r[2] \in DOMAIN Slots(u, r[1]) /\ IsLive(At(u, r))
    BY DEF Refs
  <1>2. r[1] \in DS /\ r[2] \in Nat /\ r = <<r[1], r[2]>>
    BY <1>1
  <1>3. /\ Slots(u, r[1]) \in Seq(Contents)
        /\ r[2] \in 1 .. Len(Slots(u, r[1]))
    BY <1>1, <1>2, SlotsType
  <1>4. At(u, r) \in Contents
    BY <1>3 DEF At
  <1> QED
    BY <1>1, <1>2, <1>3, <1>4, EntryCell DEF IsLive

LEMMA ChainIsPath ==
    ASSUME NEW p, NEW start, OnPath(Disk, p, start)
    PROVE  Chain(start) = p
  <1>1. IsPath(p, start)
    BY DEF OnPath, IsPath, Disk, get_fat_entry
  <1>2. get_fat_entry(p[Len(p)]) \notin Clusters
    BY ClustersAreFinite DEF OnPath, Disk, get_fat_entry
  <1> QED
    BY <1>1, <1>2, ChainOfPath

LEMMA OneBlock ==
    ASSUME NEW V, NEW q, q \in Seq(V), NEW s, s \in [1 .. 1 -> Seq(V)], s[1] = q
    PROVE  FlattenSeq(s) = q
  <1>1. \E b : Blocks(b, s, 1, V)
    BY Flatten
  <1>2. PICK b : Blocks(b, s, 1, V)
    BY <1>1
  <1>3. b[1] = b[0] \o s[1] /\ b[0] = <<>> /\ FlattenSeq(s) = b[1]
    <2>1. 1 \in 1 .. 1 /\ 1 - 1 = 0
      OBVIOUS
    <2>2. /\ \A k \in 1 .. 1 : b[k] = b[k - 1] \o s[k]
          /\ b[0] = <<>> /\ FlattenSeq(s) = b[1]
      BY <1>2 DEF Blocks
    <2>3. b[1] = b[1 - 1] \o s[1]
      BY <2>1, <2>2
    <2> QED
      BY <2>1, <2>2, <2>3
  <1>4. b[1] = <<>> \o q
    BY <1>3
  <1>5. <<>> \o q = q
    OBVIOUS
  <1> QED
    BY <1>3, <1>4, <1>5

(* A directory is one cluster.                                             *)
LEMMA OneClusterCells ==
    ASSUME VolumeOK, NEW d \in Clusters, NEW p, OnPath(Disk, p, d), Len(p) = 1
    PROVE  /\ Cells(d) = area[d]
           /\ read_directory(d) = Slots(Disk, d)
  <1>1. Chain(d) = p
    BY ChainIsPath
  <1>2. Len(Chain(d)) = 1 /\ Chain(d)[1] = d
    BY <1>1 DEF OnPath
  <1>3. area[d] \in Seq(Contents) /\ d # RootDir
    <2>1. Disk \in Volumes /\ d # RootDir
      BY ClustersAreFinite DEF VolumeOK
    <2> QED
      BY <2>1, SlotsType DEF Slots, Disk
  <1> DEFINE s == [k \in 1 .. Len(Chain(d)) |-> area[Chain(d)[k]]]
  <1>4. s \in [1 .. 1 -> Seq(Contents)] /\ s[1] = area[d]
    BY <1>2, <1>3
  <1>5. Cells(d) = FlattenSeq(s)
    BY DEF Cells
  <1> HIDE DEF s
  <1>6. Cells(d) = area[d]
    BY <1>3, <1>4, <1>5, OneBlock
  <1> QED
    BY <1>3, <1>6 DEF read_directory, Slots, Disk

LEMMA DirectoryIs ==
    ASSUME NEW DS, NEW path, Good(Disk, DS, path), NEW d \in DS
    PROVE  read_directory(d) = Slots(Disk, d)
  <1>1. CASE d = RootDir
    BY <1>1 DEF read_directory, Slots, Disk
  <1>2. CASE d # RootDir
    <2>1. PICK r \in Refs(Disk, DS) : At(Disk, r).dir /\ At(Disk, r).start = d
      BY <1>2 DEF Good
    <2>2. OnPath(Disk, path[r], d) /\ Len(path[r]) = 1
      BY <2>1 DEF Good
    <2>3. VolumeOK /\ d \in Clusters
      BY <1>2 DEF Good, VolumeOK
    <2> QED
      BY <2>2, <2>3, OneClusterCells
  <1> QED
    BY <1>1, <1>2

LEMMA FoundRef ==
    ASSUME NEW DS, NEW path, Good(Disk, DS, path), NEW d \in DS,
           NEW name, name \notin {Dot, DotDot},
           NEW i, i = find_entry_by_name(read_directory(d), name), i # 0
    PROVE  /\ <<d, i>> \in Refs(Disk, DS)
           /\ read_directory(d)[i] = At(Disk, <<d, i>>)
           /\ At(Disk, <<d, i>>).name = name
  <1>1. VolumeOK /\ DS \subseteq Clusters \cup {RootDir}
    BY DEF VolumeOK, Good
  <1>2. read_directory(d) = Slots(Disk, d)
    BY DirectoryIs
  <1>3. /\ Len(Slots(Disk, d)) \in Nat
        /\ DOMAIN Slots(Disk, d) = 1 .. Len(Slots(Disk, d))
    BY <1>1, SlotsType DEF VolumeOK
  <1>4. /\ i \in 0 .. Len(Slots(Disk, d))
        /\ IsEntry(Slots(Disk, d)[i]) /\ Slots(Disk, d)[i].name = name
    BY <1>1, <1>2, FoundInDirectory
  <1>5. i \in DOMAIN Slots(Disk, d) /\ i \in Nat
    BY <1>3, <1>4
  <1> DEFINE r == <<d, i>>
  <1>6. r[1] = d /\ r[2] = i /\ r \in DS \X Nat
    BY <1>5
  <1>7. At(Disk, r) = Slots(Disk, d)[i]
    BY <1>6 DEF At
  <1>8. IsLive(At(Disk, r))
    BY <1>4, <1>7 DEF IsLive
  <1> HIDE DEF r
  <1>9. r \in Refs(Disk, DS)
    BY <1>5, <1>6, <1>8 DEF Refs
  <1> QED
    BY <1>2, <1>4, <1>7, <1>9 DEF r

LEMMA EnterIn ==
    ASSUME NEW DS, NEW path, Good(Disk, DS, path), NEW d \in DS,
           NEW name, name \notin {Dot, DotDot}
    PROVE  Enter(d, name) \in DS \cup {Lost}
  <1> DEFINE i == find_entry_by_name(read_directory(d), name)
  <1>1. Enter(d, name) = IF i # 0 /\ read_directory(d)[i].dir
                         THEN read_directory(d)[i].start ELSE Lost
    BY DEF Enter
  <1>2. i # 0 /\ read_directory(d)[i].dir => read_directory(d)[i].start \in DS
    <2> SUFFICES ASSUME i # 0, read_directory(d)[i].dir
                 PROVE  read_directory(d)[i].start \in DS
      OBVIOUS
    <2>1. /\ <<d, i>> \in Refs(Disk, DS)
          /\ read_directory(d)[i] = At(Disk, <<d, i>>)
      BY FoundRef
    <2> HIDE DEF i
    <2> QED
      BY <2>1 DEF Good
  <1> HIDE DEF i
  <1> QED
    BY <1>1, <1>2

(* The cells of a chain begin with those of a path of full clusters.       *)
LEMMA Multiples ==
    ASSUME NEW i \in Nat, NEW k \in Nat, i <= k
    PROVE  i * ClusterSize \in Nat /\ i * ClusterSize <= k * ClusterSize
  <1>1. ClusterSize \in Nat
    BY Geometry
  <1>2. PICK x \in Nat : k = i + x
    <2>1. k = i + (k - i) /\ k - i \in Nat
      OBVIOUS
    <2> QED
      BY <2>1
  <1>3. i * ClusterSize \in Nat /\ x * ClusterSize \in Nat
    BY <1>1
  <1>4. k * ClusterSize = i * ClusterSize + x * ClusterSize
    BY <1>1, <1>2
  <1> QED
    BY <1>3, <1>4

(* Where cell j of the i-th cluster is.                                    *)
Place(i, j) == (i - 1) * ClusterSize + j

LEMMA PlaceIs ==
    ASSUME NEW i \in Nat \ {0}, NEW j \in 1 .. ClusterSize
    PROVE  /\ Place(i, j) \in Nat \ {0}
           /\ Place(i, j) <= i * ClusterSize
           /\ Place(i, j) = (i - 1) * ClusterSize + j
           /\ i * ClusterSize = (i - 1) * ClusterSize + ClusterSize
           /\ (i - 1) * ClusterSize \in Nat
  <1>1. ClusterSize \in Nat /\ i - 1 \in Nat
    BY Geometry
  <1>2. (i - 1) * ClusterSize \in Nat
    BY <1>1, Multiples
  <1>3. i * ClusterSize = (i - 1) * ClusterSize + ClusterSize
    BY <1>1
  <1> QED
    BY <1>1, <1>2, <1>3 DEF Place

(* Every unit of the data has its place.                                   *)
LEMMA PlaceOf ==
    ASSUME NEW n \in Nat, NEW x \in 1 .. n * ClusterSize
    PROVE  \E i \in 1 .. n, j \in 1 .. ClusterSize : x = Place(i, j)
  <1>1. ClusterSize \in Nat /\ ClusterSize > 0 /\ n * ClusterSize \in Nat /\ x \in Nat \ {0}
    BY Geometry
  <1> DEFINE a == (x - 1) \div ClusterSize
             b == (x - 1) % ClusterSize
  <1>2. x - 1 \in Nat
    BY <1>1
  <1>3. a \in Nat /\ b \in 0 .. ClusterSize - 1 /\ x - 1 = ClusterSize * a + b
    BY <1>1, <1>2
  <1> HIDE DEF a, b
  <1>4. ClusterSize * a = a * ClusterSize
    BY <1>1, <1>3
  <1>5. a < n
    <2> SUFFICES ASSUME n <= a PROVE FALSE
      BY <1>3
    <2>1. n * ClusterSize <= a * ClusterSize
      BY <1>3, Multiples
    <2>2. a * ClusterSize \in Nat
      BY <1>1, <1>3
    <2> QED
      BY <1>1, <1>3, <1>4, <2>1, <2>2
  <1>6. PICK i \in 1 .. n : i = a + 1
    BY <1>3, <1>5
  <1>7. PICK j \in 1 .. ClusterSize : j = b + 1
    BY <1>1, <1>3
  <1>8. i - 1 = a /\ (i - 1) * ClusterSize = a * ClusterSize
    BY <1>3, <1>6
  <1>9. x = Place(i, j)
    <2>1. a * ClusterSize \in Nat
      BY <1>1, <1>3
    <2> QED
      BY <1>1, <1>3, <1>4, <1>7, <1>8, <2>1 DEF Place
  <1> QED
    BY <1>6, <1>7, <1>9

LEMMA CellsStart ==
    ASSUME VolumeOK, NEW p, NEW start, p \in Seq(Clusters),
           p # <<>> => IsPath(p, start),
           \A i \in 1 .. Len(p) : Len(area[p[i]]) = ClusterSize
    PROVE  /\ Len(p) * ClusterSize <= Len(Cells(start))
           /\ \A i \in 1 .. Len(p), j \in 1 .. ClusterSize :
                 Cells(start)[Place(i, j)] = area[p[i]][j]
  <1> PICK m \in Nat, cs \in Nat : m = Len(p) /\ cs = ClusterSize
    BY Geometry
  <1>1. CASE m = 0
    <2>1. Len(p) * ClusterSize = 0
      BY <1>1, Geometry
    <2>2. Len(Cells(start)) \in Nat
      BY CellsType
    <2> QED
      BY <1>1, <2>1, <2>2
  <1>2. CASE m # 0
    <2> PICK chain : chain = Chain(start)
      OBVIOUS
    <2>1. /\ chain \in Seq(Clusters) /\ m <= Len(chain)
          /\ \A i \in 1 .. m : chain[i] = p[i]
      <3>1. IsPath(p, start)
        BY <1>2
      <3> QED
        BY <3>1, ChainOfPath, ChainType
    <2> DEFINE n == Len(chain)
               s == [k \in 1 .. n |-> area[chain[k]]]
    <2>2. n \in Nat /\ s \in [1 .. n -> Seq(Contents)]
      <3>1. area \in [Clusters -> Seq(Contents)]
        BY DEF VolumeOK, Volumes, Disks, Disk
      <3> QED
        BY <2>1, <3>1
    <2>3. Cells(start) = FlattenSeq(s)
      BY DEF Cells
    <2>4. \A k \in 1 .. m : k \in 1 .. n /\ s[k] = area[p[k]] /\ Len(s[k]) = cs
      BY <2>1, <2>2
    <2>5. m <= n
      BY <2>1
    <2> HIDE DEF n, s
    <2>6. \E b : Blocks(b, s, n, Contents)
      BY <2>2, Flatten
    <2>7. PICK b : Blocks(b, s, n, Contents)
      BY <2>6
    <2>8. b \in [0 .. n -> Seq(Contents)] /\ b[0] = <<>> /\ FlattenSeq(s) = b[n]
          /\ \A k \in 1 .. n : b[k] = b[k - 1] \o s[k]
      BY <2>7 DEF Blocks
    <2>9. ASSUME NEW k \in 0 .. n - 1
          PROVE  /\ b[k] \in Seq(Contents) /\ b[k + 1] \in Seq(Contents)
                 /\ s[k + 1] \in Seq(Contents)
                 /\ Len(b[k]) \in Nat /\ Len(s[k + 1]) \in Nat
                 /\ Len(b[k + 1]) = Len(b[k]) + Len(s[k + 1])
                 /\ \A x \in 1 .. Len(b[k]) : b[k + 1][x] = b[k][x]
                 /\ \A x \in 1 .. Len(s[k + 1]) : b[k + 1][Len(b[k]) + x] = s[k + 1][x]
      <3>1. k \in 0 .. n /\ k + 1 \in 1 .. n /\ k + 1 \in 0 .. n /\ (k + 1) - 1 = k
        BY <2>2
      <3>2. PICK u \in Seq(Contents), v \in Seq(Contents) : u = b[k] /\ v = s[k + 1]
        BY <3>1, <2>2, <2>8
      <3>3. b[k + 1] = u \o v
        BY <3>1, <3>2, <2>8
      <3>4. /\ Len(u \o v) = Len(u) + Len(v) /\ u \o v \in Seq(Contents)
            /\ \A x \in 1 .. Len(u) : (u \o v)[x] = u[x]
            /\ \A x \in 1 .. Len(v) : (u \o v)[Len(u) + x] = v[x]
        OBVIOUS
      <3>5. PICK w : w = u \o v
        OBVIOUS
      <3>6. Len(u) \in Nat /\ Len(v) \in Nat
        OBVIOUS
      <3>7. /\ Len(w) = Len(u) + Len(v) /\ w \in Seq(Contents)
            /\ \A x \in 1 .. Len(u) : w[x] = u[x]
            /\ \A x \in 1 .. Len(v) : w[Len(u) + x] = v[x]
        BY <3>4, <3>5
      <3>8. b[k + 1] = w
        BY <3>3, <3>5
      <3> QED
        BY ONLY <3>2, <3>6, <3>7, <3>8
    <2> DEFINE T == {k \in 0 .. m :
                      /\ Len(b[k]) = k * ClusterSize
                      /\ \A i \in 1 .. k, j \in 1 .. cs : b[k][Place(i, j)] = area[p[i]][j]}
    <2>10. 0 \in T
      <3>1. 0 * ClusterSize = 0
        BY Geometry
      <3> QED
        BY <3>1, <2>8
    <2>11. ASSUME NEW k \in 0 .. m - 1, k \in T
           PROVE  k + 1 \in T
      <3>1. k \in Nat /\ k \in 0 .. n - 1 /\ k + 1 \in 1 .. m /\ k + 1 \in 0 .. m
        BY <2>2, <2>5
      <3>2. /\ Len(b[k]) = k * ClusterSize
            /\ \A i \in 1 .. k, j \in 1 .. cs : b[k][Place(i, j)] = area[p[i]][j]
        BY <2>11
      <3>3. /\ k * ClusterSize \in Nat
            /\ (k + 1) * ClusterSize = k * ClusterSize + ClusterSize
        <4>1. (k + 1) * ClusterSize = k * ClusterSize + ClusterSize
          BY <3>1, Geometry
        <4> QED
          BY <4>1, <3>1, Multiples
      <3>4. Len(s[k + 1]) = cs /\ s[k + 1] = area[p[k + 1]]
        BY <3>1, <2>4
      <3>5. Len(b[k + 1]) = (k + 1) * ClusterSize
        BY <3>1, <3>2, <3>3, <3>4, <2>9
      <3>6. ASSUME NEW i \in 1 .. k + 1, NEW j \in 1 .. cs
            PROVE  b[k + 1][Place(i, j)] = area[p[i]][j]
        <4>1. CASE i = k + 1
          <5>1. Place(i, j) = Len(b[k]) + j
            <6>1. i - 1 = k
              BY <4>1, <3>1
            <6> QED
              BY <6>1, <3>2 DEF Place
          <5>2. b[k + 1][Len(b[k]) + j] = s[k + 1][j]
            BY <3>1, <3>4, <2>9
          <5> QED
            BY <4>1, <5>1, <5>2, <3>4
        <4>2. CASE i # k + 1
          <5>1. i \in 1 .. k /\ i \in Nat \ {0} /\ i <= k /\ j \in 1 .. ClusterSize
            BY <4>2, <3>1
          <5>2. Place(i, j) \in Nat \ {0} /\ Place(i, j) <= i * ClusterSize
            BY <5>1, PlaceIs
          <5>3. i * ClusterSize <= k * ClusterSize /\ i * ClusterSize \in Nat
            BY <5>1, <3>1, Multiples
          <5>4. Place(i, j) \in 1 .. Len(b[k])
            BY <5>2, <5>3, <3>2, <3>3
          <5>5. b[k + 1][Place(i, j)] = b[k][Place(i, j)]
            BY <5>4, <3>1, <2>9
          <5> QED
            BY <5>1, <5>5, <3>2
        <4> QED
          BY <4>1, <4>2
      <3> QED
        BY <3>1, <3>5, <3>6
    <2> HIDE DEF T
    <2>12. m \in T
      <3>1. \A k \in 0 .. m : k \in T
        BY <2>10, <2>11, UpTo
      <3>2. m \in 0 .. m
        OBVIOUS
      <3> QED
        BY <3>1, <3>2
    <2>13. /\ Len(b[m]) = m * ClusterSize
           /\ \A i \in 1 .. m, j \in 1 .. cs : b[m][Place(i, j)] = area[p[i]][j]
      BY <2>12 DEF T
    <2> DEFINE R == {k \in 0 .. n - m :
                      /\ Len(b[m]) <= Len(b[m + k])
                      /\ \A x \in 1 .. Len(b[m]) : b[m + k][x] = b[m][x]}
    <2>14. n - m \in Nat /\ m \in 0 .. n
      BY <2>2, <2>5
    <2>15. Len(b[m]) \in Nat
      BY <2>14, <2>8
    <2>16. 0 \in R
      BY <2>14, <2>15
    <2>17. ASSUME NEW k \in 0 .. (n - m) - 1, k \in R
           PROVE  k + 1 \in R
      <3>1. PICK a \in 0 .. n - 1 : a = m + k /\ m + (k + 1) = a + 1
        <4>1. m + k \in 0 .. n - 1 /\ m + (k + 1) = (m + k) + 1
          BY <2>2, <2>14
        <4> QED
          BY <4>1
      <3>2. /\ Len(b[m]) <= Len(b[a])
            /\ \A x \in 1 .. Len(b[m]) : b[a][x] = b[m][x]
        <4>1. /\ Len(b[m]) <= Len(b[m + k])
              /\ \A x \in 1 .. Len(b[m]) : b[m + k][x] = b[m][x]
          BY <2>17
        <4>2. PICK q : q = b[m + k]
          OBVIOUS
        <4>3. b[a] = q
          BY <3>1, <4>2
        <4>4. /\ Len(b[m]) <= Len(q)
              /\ \A x \in 1 .. Len(b[m]) : q[x] = b[m][x]
          BY <4>1, <4>2
        <4> QED
          BY <4>3, <4>4
      <3>3. Len(b[m]) <= Len(b[a + 1])
        <4>1. PICK x \in Nat, y \in Nat : x = Len(b[a]) /\ y = Len(s[a + 1])
          BY <2>9
        <4>2. Len(b[a + 1]) = x + y
          BY <4>1, <2>9
        <4>3. PICK z \in Nat : z = Len(b[m])
          BY <2>15
        <4>4. z <= x
          BY <4>1, <4>3, <3>2
        <4>5. z <= x + y
          BY <4>4
        <4> QED
          BY <4>2, <4>3, <4>5
      <3>4. \A x \in 1 .. Len(b[m]) : b[a + 1][x] = b[m][x]
        <4> TAKE x \in 1 .. Len(b[m])
        <4>1. x \in 1 .. Len(b[a])
          BY <3>2, <2>9, <2>15
        <4>2. b[a + 1][x] = b[a][x]
          BY <4>1, <2>9
        <4> QED
          BY <4>2, <3>2
      <3>5. k + 1 \in 0 .. n - m
        BY <2>14
      <3> QED
        BY <3>1, <3>3, <3>4, <3>5
    <2> HIDE DEF R
    <2>18. n - m \in R
      <3>1. \A k \in 0 .. n - m : k \in R
        BY <2>14, <2>16, <2>17, UpTo
      <3>2. n - m \in 0 .. n - m
        BY <2>14
      <3> QED
        BY <3>1, <3>2
    <2>19. m + (n - m) = n
      BY <2>2
    <2>20. /\ Len(b[m]) <= Len(b[n])
           /\ \A x \in 1 .. Len(b[m]) : b[n][x] = b[m][x]
      BY <2>18, <2>19 DEF R
    <2>21. ASSUME NEW i \in 1 .. m, NEW j \in 1 .. cs
           PROVE  b[n][Place(i, j)] = area[p[i]][j]
      <3>1. i \in Nat \ {0} /\ i <= m /\ j \in 1 .. ClusterSize
        OBVIOUS
      <3>2. Place(i, j) \in Nat \ {0} /\ Place(i, j) <= i * ClusterSize
        BY <3>1, PlaceIs
      <3>3. i * ClusterSize <= m * ClusterSize /\ i * ClusterSize \in Nat
        BY <3>1, Multiples
      <3>4. m * ClusterSize \in Nat
        BY Multiples
      <3>5. Place(i, j) \in 1 .. Len(b[m])
        BY <3>2, <3>3, <3>4, <2>13
      <3> QED
        BY <3>5, <2>13, <2>20
    <2> QED
      BY <2>3, <2>8, <2>13, <2>20, <2>21
  <1> QED
    BY <1>1, <1>2

(* The first b of some data.                                               *)
LEMMA FrontIs ==
    ASSUME NEW V, NEW data, data \in Seq(V), NEW b \in 0 .. Len(data),
           NEW kept, kept = SubSeq(data, 1, b)
    PROVE  /\ kept \in Seq(V) /\ Len(kept) = b
           /\ \A i \in 1 .. b : kept[i] = data[i]
  <1>1. PICK one \in Int : one = 1
    OBVIOUS
  <1>2. b \in Int /\ \A i \in one .. b : data[i] \in V
    BY <1>1
  <1>3. /\ SubSeq(data, one, b) \in Seq(V)
        /\ Len(SubSeq(data, one, b)) = IF one <= b THEN b - one + 1 ELSE 0
        /\ \A i \in 1 .. b - one + 1 : SubSeq(data, one, b)[i] = data[one + i - 1]
    BY <1>1, <1>2, SubSeqProperties
  <1>4. kept = SubSeq(data, one, b)
    BY <1>1
  <1>5. Len(kept) = b /\ kept \in Seq(V)
    BY <1>1, <1>3, <1>4
  <1>6. ASSUME NEW i \in 1 .. b
        PROVE  kept[i] = data[i]
    <2>1. i \in 1 .. b - one + 1 /\ one + i - 1 = i
      BY <1>1
    <2> QED
      BY <2>1, <1>3, <1>4
  <1> QED
    BY <1>5, <1>6

(* Cell j of the k-th cluster that data fills.                             *)
LEMMA CellIs ==
    ASSUME NEW V, NEW data, data \in Seq(V), NEW k \in Nat \ {0}, NEW j \in 1 .. ClusterSize,
           Place(k, j) <= Len(data)
    PROVE  DataCells(Piece(data, k))[j] = data[Place(k, j)]
  <1>1. PICK from : from = (k - 1) * ClusterSize
    OBVIOUS
  <1>2. from \in Nat /\ Place(k, j) = from + j
    BY <1>1, PlaceIs
  <1>3. PICK cs \in Nat, L \in Nat : cs = ClusterSize /\ L = Len(data)
    BY Geometry
  <1> DEFINE n == IF from + cs <= L THEN cs ELSE IF from <= L THEN L - from ELSE 0
  <1>4. from + j <= L /\ j \in 1 .. cs
    BY <1>2, <1>3
  <1>5. n \in Nat /\ j \in 1 .. n
    <2>1. CASE from + cs <= L
      BY <2>1, <1>4
    <2>2. CASE ~(from + cs <= L)
      <3>1. from <= L /\ L - from \in Nat /\ j <= L - from
        BY <1>2, <1>3, <1>4
      <3> QED
        BY <2>2, <3>1, <1>4
    <2> QED
      BY <2>1, <2>2
  <1>6. n = PieceLen(from, Len(data))
    BY <1>3 DEF PieceLen
  <1> HIDE DEF n
  <1>7. /\ \A i \in 1 .. n : Piece(data, k)[i] = data[from + i]
        /\ Len(Piece(data, k)) = n
    <2>1. from = PieceStart(k)
      BY <1>1 DEF PieceStart
    <2>2. k \in Nat \ {0} /\ data \in Seq(V)
      OBVIOUS
    <2>3. Len(Piece(data, k)) = n
      BY ONLY <1>6, <2>1, <2>2, PieceIs
    <2>4. \A i \in 1 .. n : Piece(data, k)[i] = data[from + i]
      <3>1. Piece(data, k) = Slice(data, from, n)
        BY ONLY <1>6, <2>1, <2>2, PieceIs
      <3> QED
        BY <3>1 DEF Slice
    <2> QED
      BY <2>3, <2>4
  <1>8. DataCells(Piece(data, k))[j] = Piece(data, k)[j]
    <2>1. j <= Len(Piece(data, k))
      BY <1>5, <1>7
    <2> QED
      BY <2>1 DEF DataCells
  <1> QED
    BY <1>2, <1>5, <1>7, <1>8

(* LiveDirs is what a recursion computes: the subdirectories of what it has *)
(* reached are added, again and again.                                     *)
Below(above) == above \cup UNION {SubdirsOf(d) : d \in above}

Descends(f, S) ==
    /\ f \in [0 .. TotalClusters -> SUBSET S]
    /\ f[0] = {RootDir}
    /\ \A k \in 1 .. TotalClusters : f[k] = Below(f[k - 1])
    /\ LiveDirs = f[TotalClusters]

LEMMA LiveDirsDescend ==
    ASSUME NEW S, RootDir \in S, \A d \in S : SubdirsOf(d) \subseteq S
    PROVE  \E f : Descends(f, S)
  <1> DEFINE N == TotalClusters
             Sub == SUBSET S
             Down(above) == Below(above)
             h == [k \in 1 .. N |-> [above \in Sub |-> Down(above)]]
  <1>1. N \in Nat
    BY Geometry
  <1>2. \A above \in Sub : Down(above) \in Sub
    BY DEF Below
  <1>3. {RootDir} \in Sub
    OBVIOUS
  <1> HIDE DEF Sub, Down
  <1>4. IsStep(h, N, Sub) /\ \A k \in 1 .. N, above \in Sub : h[k][above] = Down(above)
    BY <1>2 DEF IsStep
  <1> HIDE DEF h, N
  <1> DEFINE top == {RootDir}
  <1>14. top \in Sub
    BY <1>3
  <1> HIDE DEF top
  <1>5. PICK f : Iterates(f, N, Sub, top, h)
    BY <1>1, <1>4, <1>14, Recursion
  <1>6. f \in [0 .. N -> Sub] /\ f[0] = top /\ \A k \in 1 .. N : f[k] = Down(f[k - 1])
    <2>1. f \in [0 .. N -> Sub] /\ f[0] = top
      BY <1>5 DEF Iterates
    <2>2. ASSUME NEW k \in 1 .. N
          PROVE  f[k] = Down(f[k - 1])
      <3>1. k - 1 \in 0 .. N
        BY <1>1
      <3>2. f[k - 1] \in Sub
        BY <3>1, <2>1
      <3> QED
        BY <3>2, <1>4, <1>5 DEF Iterates
    <2> QED
      BY <2>1, <2>2
  <1> DEFINE Rec(g) ==
        g = [depth \in 0 .. TotalClusters |->
               IF depth = 0 THEN {RootDir}
               ELSE LET above == g[depth - 1]
                    IN  above \cup UNION {SubdirsOf(d) : d \in above}]
  <1>7. \A g : Rec(g) <=>
          g = [depth \in 0 .. N |-> IF depth = 0 THEN top ELSE Down(g[depth - 1])]
    BY DEF Down, N, top, Below
  <1>8. LiveDirs = (CHOOSE g : Rec(g))[TotalClusters]
    BY DEF LiveDirs
  <1> HIDE DEF Rec
  <1>9. Rec(f)
    <2>1. \A k \in 0 .. N : f[k] = IF k = 0 THEN top ELSE Down(f[k - 1])
      BY <1>6
    <2>2. f = [k \in 0 .. N |-> f[k]]
      BY <1>6
    <2>3. f = [k \in 0 .. N |-> IF k = 0 THEN top ELSE Down(f[k - 1])]
      BY <2>1, <2>2
    <2> QED
      BY <2>3, <1>7
  <1>10. ASSUME NEW g, Rec(g) PROVE g[N] = f[N]
    <2>1. g = [k \in 0 .. N |-> IF k = 0 THEN top ELSE Down(g[k - 1])]
      BY <1>10, <1>7
    <2>2. g[0] = top
      BY <2>1, <1>1
    <2>3. \A k \in 1 .. N : g[k] = Down(g[k - 1])
      <3> TAKE k \in 1 .. N
      <3>1. k \in 0 .. N /\ k # 0
        BY <1>1
      <3> QED
        BY <2>1, <3>1
    <2>4. \A k \in 1 .. N : g[k - 1] = f[k - 1] => g[k] = f[k]
      BY <2>3, <1>6
    <2>5. g[0] = f[0]
      BY <2>2, <1>6
    <2>6. \A k \in 0 .. N : g[k] = f[k]
      BY <2>4, <2>5, <1>1, RecursionIsUnique
    <2> QED
      BY <2>6, <1>1
  <1>11. LiveDirs = f[N]
    <2>1. Rec(CHOOSE g : Rec(g))
      BY <1>9
    <2> QED
      BY <2>1, <1>8, <1>10 DEF N
  <1> QED
    BY <1>6, <1>11 DEF Sub, Down, N, top, Descends

(* Every directory it reaches is in DS.                                    *)
LEMMA LiveDirsIn ==
    ASSUME NEW DS, NEW path, Good(Disk, DS, path)
    PROVE  LiveDirs \subseteq DS
  <1>1. ASSUME NEW d \in DS
      PROVE  SubdirsOf(d) \subseteq DS
    <2> SUFFICES ASSUME NEW e \in ToSet(read_directory(d)),
                  IsEntry(e), e.dir, e.name \notin {Dot, DotDot}
             PROVE  e.start \in DS
      BY DEF SubdirsOf
    <2>1. read_directory(d) = Slots(Disk, d)
      BY DirectoryIs
    <2>2. PICK i \in DOMAIN Slots(Disk, d) : Slots(Disk, d)[i] = e
      BY <2>1 DEF ToSet
    <2>3. i \in Nat
      BY <2>2, SlotsType DEF Good
    <2> DEFINE r == <<d, i>>
    <2>4. r[1] = d /\ r[2] = i /\ r \in DS \X Nat
      BY <2>3
    <2> HIDE DEF r
    <2>5. At(Disk, r) = e /\ r \in Refs(Disk, DS)
      BY <2>2, <2>4 DEF At, Refs, IsLive
    <2> QED
      BY <2>5 DEF Good
  <1>2. PICK f : Descends(f, DS)
    BY <1>1, LiveDirsDescend DEF Good
  <1>3. TotalClusters \in 0 .. TotalClusters
    BY Geometry
  <1> QED
    BY <1>2, <1>3 DEF Descends

LEMMA LiveEntriesIn ==
    ASSUME NEW DS, NEW path, Good(Disk, DS, path), NEW ref \in LiveEntries
    PROVE  /\ ref \in Refs(Disk, DS)
           /\ EntryAt(ref) = At(Disk, ref)
           /\ ClustersOf(ref) = {path[ref][i] : i \in 1 .. Len(path[ref])}
  <1>1. /\ ref[1] \in DS /\ ref[2] \in Nat
        /\ ref \in DS \X Nat
    <2>1. LiveDirs \subseteq DS
      BY LiveDirsIn
    <2>2. RootDirEntries \in Nat /\ DirEntriesPerCluster \in Nat
      BY Geometry
    <2>3. ref \in LiveDirs \X (1 .. RootDirEntries + DirEntriesPerCluster)
      BY DEF LiveEntries
    <2> QED
      BY <2>1, <2>2, <2>3
  <1>2. read_directory(ref[1]) = Slots(Disk, ref[1])
    BY <1>1, DirectoryIs
  <1>3. EntryAt(ref) = At(Disk, ref)
    BY <1>2 DEF EntryAt, At
  <1>4. ref \in Refs(Disk, DS)
    BY <1>1, <1>2 DEF LiveEntries, Refs, At, IsLive
  <1>5. OnPath(Disk, path[ref], At(Disk, ref).start)
    BY <1>4 DEF Good
  <1>6. Chain(EntryAt(ref).start) = path[ref]
    BY <1>3, <1>5, ChainIsPath
  <1>7. ClustersOf(ref) = ToSet(path[ref])
    BY <1>6 DEF ClustersOf
  <1>8. path[ref] \in Seq(Clusters)
    BY <1>5 DEF OnPath
  <1>9. DOMAIN path[ref] = 1 .. Len(path[ref])
    BY <1>8
  <1> QED
    BY <1>3, <1>4, <1>7, <1>9 DEF ToSet

(* On a sound volume chains are disjoint and marked.                       *)
LEMMA GoodIsSound ==
    ASSUME NEW DS, NEW path, Good(Disk, DS, path)
    PROVE  /\ \A r1, r2 \in LiveEntries :
                r1 # r2 => ClustersOf(r1) \cap ClustersOf(r2) = {}
           /\ \A r \in LiveEntries : /\ EntryAt(r).start \in Clusters
                                     /\ ClustersOf(r) \cap FreeClusters = {}
  <1>1. ASSUME NEW r1 \in LiveEntries, NEW r2 \in LiveEntries, r1 # r2
        PROVE  ClustersOf(r1) \cap ClustersOf(r2) = {}
    <2>1. /\ r1 \in Refs(Disk, DS) /\ r2 \in Refs(Disk, DS)
          /\ ClustersOf(r1) = {path[r1][i] : i \in 1 .. Len(path[r1])}
          /\ ClustersOf(r2) = {path[r2][i] : i \in 1 .. Len(path[r2])}
      BY LiveEntriesIn
    <2>2. Apart(path, Refs(Disk, DS))
      BY DEF Good
    <2> QED
      BY <1>1, <2>1, <2>2 DEF Apart
  <1>2. ASSUME NEW r \in LiveEntries
        PROVE  EntryAt(r).start \in Clusters /\ ClustersOf(r) \cap FreeClusters = {}
    <2>1. /\ r \in Refs(Disk, DS) /\ EntryAt(r) = At(Disk, r)
          /\ ClustersOf(r) = {path[r][i] : i \in 1 .. Len(path[r])}
      BY LiveEntriesIn
    <2>2. OnPath(Disk, path[r], At(Disk, r).start)
      BY <2>1 DEF Good
    <2>3. \A i \in 1 .. Len(path[r]) : fat[1][path[r][i]] # Free
      BY <2>2, OnPathMarked DEF Disk
    <2>4. 1 \in 1 .. Len(path[r])
      BY <2>2 DEF OnPath
    <2>5. EntryAt(r).start \in Clusters
      BY <2>1, <2>2, <2>4, OnPathMarked
    <2> QED
      BY <2>1, <2>3, <2>5 DEF FreeClusters, get_fat_entry
  <1> QED
    BY <1>1, <1>2

-----------------------------------------------------------------------------
(* One slot changes: slot i of directory d becomes e.                      *)
SlotChanged(u, w, DS, d, i, e) ==
    /\ d \in DS /\ i \in DOMAIN Slots(u, d)
    /\ Slots(w, d) = [Slots(u, d) EXCEPT ![i] = e]
    /\ \A b \in DS \ {d} : Slots(w, b) = Slots(u, b)

RefsAre(u, w, DS, r, e) ==
    /\ Refs(w, DS) = (Refs(u, DS) \ {r}) \cup (IF IsLive(e) THEN {r} ELSE {})
    /\ At(w, r) = e
    /\ \A s \in Refs(u, DS) \ {r} : At(w, s) = At(u, s)

LEMMA RefsChanged ==
    ASSUME NEW u \in Volumes, NEW w, NEW DS, DS \subseteq Clusters \cup {RootDir},
           NEW d, NEW i, NEW e, SlotChanged(u, w, DS, d, i, e),
           NEW r, r = <<d, i>>
    PROVE  RefsAre(u, w, DS, r, e)
  <1> USE DEF RefsAre
  <1>1. /\ DOMAIN Slots(u, d) = 1 .. Len(Slots(u, d)) /\ Len(Slots(u, d)) \in Nat
        /\ d \in DS /\ i \in DOMAIN Slots(u, d)
    BY SlotsType DEF SlotChanged
  <1>2. r[1] = d /\ r[2] = i /\ r \in DS \X Nat
    BY <1>1
  <1>3. Slots(w, d)[i] = e /\ DOMAIN Slots(w, d) = DOMAIN Slots(u, d)
        /\ \A k \in DOMAIN Slots(u, d) \ {i} : Slots(w, d)[k] = Slots(u, d)[k]
    BY <1>1 DEF SlotChanged
  <1>4. At(w, r) = e
    BY <1>2, <1>3 DEF At
  <1>5. ASSUME NEW s \in DS \X Nat, s # r
        PROVE  /\ s[2] \in DOMAIN Slots(w, s[1]) <=> s[2] \in DOMAIN Slots(u, s[1])
               /\ s[2] \in DOMAIN Slots(u, s[1]) => At(w, s) = At(u, s)
    <2>1. s[1] \in DS /\ (s[1] # d \/ s[2] # i)
      BY <1>2, <1>5
    <2>2. CASE s[1] # d
      BY <2>1, <2>2 DEF SlotChanged, At
    <2>3. CASE s[1] = d
      BY <2>1, <2>3, <1>3 DEF At
    <2> QED
      BY <2>2, <2>3
  <1>6. \A s \in DS \X Nat : s # r => (s \in Refs(w, DS) <=> s \in Refs(u, DS))
    BY <1>5 DEF Refs
  <1>7. r \in Refs(w, DS) <=> IsLive(e)
    BY <1>1, <1>2, <1>3, <1>4 DEF Refs
  <1>8. Refs(w, DS) \subseteq DS \X Nat /\ Refs(u, DS) \subseteq DS \X Nat
    BY DEF Refs
  <1>9. Refs(w, DS) = (Refs(u, DS) \ {r}) \cup (IF IsLive(e) THEN {r} ELSE {})
    BY <1>6, <1>7, <1>8
  <1>10. \A s \in Refs(u, DS) \ {r} : At(w, s) = At(u, s)
    <2> TAKE s \in Refs(u, DS) \ {r}
    <2>1. s \in DS \X Nat /\ s # r /\ s[2] \in DOMAIN Slots(u, s[1])
      BY DEF Refs
    <2> QED
      BY <2>1, <1>5
  <1> QED
    BY <1>4, <1>9, <1>10

(* Directories without live entries hold no refs.                          *)
LEMMA RefsBarren ==
    ASSUME NEW w, NEW DS, NEW c,
           \A k \in DOMAIN Slots(w, c) : ~IsLive(Slots(w, c)[k])
    PROVE  Refs(w, DS \cup {c}) = Refs(w, DS \ {c})
  <1>1. \A s \in (DS \cup {c}) \X Nat : s[1] = c => s \notin Refs(w, DS \cup {c})
    BY DEF Refs, At
  <1>2. \A s \in (DS \cup {c}) \X Nat :
          s \in Refs(w, DS \cup {c}) => s \in Refs(w, DS \ {c})
    BY <1>1 DEF Refs
  <1>3. Refs(w, DS \cup {c}) \subseteq (DS \cup {c}) \X Nat
    BY DEF Refs
  <1>4. Refs(w, DS \ {c}) \subseteq Refs(w, DS \cup {c})
    BY DEF Refs
  <1> QED
    BY <1>2, <1>3, <1>4

LEMMA SlotUpdateIs ==
    ASSUME NEW u \in Volumes, NEW d \in Clusters \cup {RootDir}, NEW i, NEW e,
           NEW w, w = After(u, SlotUpdate(d, i, e))
    PROVE  /\ w.fat = u.fat
           /\ Slots(w, d) = [Slots(u, d) EXCEPT ![i] = e]
           /\ \A b \in (Clusters \cup {RootDir}) \ {d} : Slots(w, b) = Slots(u, b)
           /\ \A b \in Clusters \ {d} : w.area[b] = u.area[b]
           /\ d # RootDir => w.root = u.root
  <1>1. u.area \in [Clusters -> Seq(Contents)]
    BY DEF Volumes, Disks
  <1>2. RootDir \notin Clusters
    BY ClustersAreFinite
  <1> QED
    BY <1>1, <1>2 DEF After, SlotUpdate, Slots

LEMMA AreaUpdateIs ==
    ASSUME NEW u \in Volumes, NEW c \in Clusters, NEW cells,
           NEW w, w = After(u, AreaUpdate(c, cells))
    PROVE  /\ w.fat = u.fat /\ w.root = u.root
           /\ w.area[c] = cells
           /\ \A b \in Clusters \ {c} : w.area[b] = u.area[b]
           /\ Slots(w, c) = cells
           /\ \A b \in (Clusters \cup {RootDir}) \ {c} : Slots(w, b) = Slots(u, b)
  <1>1. u.area \in [Clusters -> Seq(Contents)]
    BY DEF Volumes, Disks
  <1>2. c # RootDir
    BY ClustersAreFinite
  <1> QED
    BY <1>1, <1>2 DEF After, AreaUpdate, Slots

LEMMA SetFatIs ==
    ASSUME NEW u \in Volumes, NEW c \in Clusters, NEW x,
           NEW w, w = SetFat(u, c, x)
    PROVE  /\ w.root = u.root /\ w.area = u.area
           /\ \A f \in Copies : w.fat[f][c] = x
           /\ \A f \in Copies, b \in Clusters \ {c} : w.fat[f][b] = u.fat[f][b]
           /\ \A b : Slots(w, b) = Slots(u, b)
  <1>1. u.fat \in [Copies -> [Clusters -> Nat]]
    BY DEF Volumes, Disks
  <1> QED
    BY <1>1 DEF SetFat, Slots

LEMMA FreedIs ==
    ASSUME NEW u \in Volumes, NEW C, NEW w, w = Freed(u, C)
    PROVE  /\ w.root = u.root /\ w.area = u.area
           /\ \A f \in Copies, b \in Clusters :
                w.fat[f][b] = IF b \in C THEN Free ELSE u.fat[f][b]
           /\ \A b : Slots(w, b) = Slots(u, b)
  BY DEF Freed, Slots

LEMMA FirstCopy == 1 \in Copies
  BY Geometry DEF Copies

LEMMA VolumesTame ==
    Tame(Volumes, Volumes, Clusters, SlotUpdates)
  <1>1. ASSUME NEW u \in Volumes, NEW c \in Clusters, NEW x \in Nat, NEW m \in 0 .. NumberOfFats
        PROVE  SetFat(u, c, x) \in Volumes /\ PartFat(u, c, x, m) \in Volumes
    <2>1. m \in Nat
      BY Geometry
    <2> QED
      BY <2>1, PartFatType DEF Volumes
  <1>2. ASSUME NEW u \in Volumes, NEW c \in Clusters, NEW x \in Nat
        PROVE  SetFat(u, c, x) \in Volumes
    BY PartFatType DEF Volumes
  <1>3. ASSUME NEW u \in Volumes, NEW x \in Updates
        PROVE  After(u, x) \in Volumes
    BY AfterType DEF Volumes, Updates
  <1>4. \A c \in Clusters, cells \in Seq(Contents) : AreaUpdate(c, cells) \in Updates
    BY DEF AreaUpdate, Updates, Writes
  <1>5. SlotUpdates \subseteq Updates
    BY DEF SlotUpdates, Updates, Writes
  <1> QED
    BY <1>1, <1>2, <1>3, <1>4, <1>5 DEF Tame

-----------------------------------------------------------------------------
(* A new entry e in slot i of directory d, for a file or a directory of    *)
(* the one cluster c.                                                      *)
Entered(u, d, i, e, c) == SetFat(After(u, SlotUpdate(d, i, e)), c, EOC)

Made(v, e, c, cells) == IF e.dir THEN After(v, AreaUpdate(c, cells)) ELSE v

NoneLive(cells) == \A k \in DOMAIN cells : ~IsLive(cells[k])

Added(u, DS, path, w, r, e) ==
    /\ Good(w, Grown(DS, e), WithPath(path, Refs(w, Grown(DS, e)), r, <<e.start>>))
    /\ r[1] \in DS /\ r \notin Refs(u, DS) /\ u.fat[1][e.start] = Free
    /\ Refs(w, Grown(DS, e)) = Refs(u, DS) \cup {r}
    /\ At(w, r) = e
    /\ \A s \in Refs(u, DS) : At(w, s) = At(u, s)
    /\ e.start \in Clusters \ DS
    /\ \A b \in Clusters \ (DS \cup {e.start}) : w.area[b] = u.area[b]
    /\ ~e.dir => w.area[e.start] = u.area[e.start]

LEMMA MakeGood ==
    ASSUME NEW u, NEW DS, NEW path, Good(u, DS, path),
           NEW d \in DS, NEW i \in DOMAIN Slots(u, d), Slots(u, d)[i] = NoEntry,
           NEW c \in Clusters, u.fat[1][c] = Free,
           NEW e \in Entries, IsLive(e), e.start = c,
           NEW v, v = Entered(u, d, i, e, c),
           NEW cells, cells \in Seq(Contents),
           e.dir => NoneLive(cells),
           NEW w, w = Made(v, e, c, cells),
           NEW r, r = <<d, i>>
    PROVE  Added(u, DS, path, w, r, e)
  <1> USE DEF Entered, Made, NoneLive
  <1>1. /\ u \in Volumes /\ DS \subseteq Clusters \cup {RootDir} /\ RootDir \in DS
        /\ d \in Clusters \cup {RootDir}
    BY DEF Good
  <1>2. c \notin DS
    <2> SUFFICES ASSUME c \in DS PROVE FALSE
      OBVIOUS
    <2>1. c # RootDir
      BY ClustersAreFinite
    <2>2. PICK s \in Refs(u, DS) : At(u, s).dir /\ At(u, s).start = c
      BY <2>1 DEF Good
    <2>3. OnPath(u, path[s], c)
      BY <2>2 DEF Good
    <2>4. 1 \in 1 .. Len(path[s]) /\ path[s][1] = c
      BY <2>3 DEF OnPath
    <2>5. u.fat[1][path[s][1]] # Free
      BY <2>3, <2>4, OnPathMarked
    <2> QED
      BY <2>4, <2>5
  <1>3. i \in Nat
    BY <1>1, SlotsType
  <1> DEFINE u1 == After(u, SlotUpdate(d, i, e))
  <1>4. u1 \in Volumes /\ v \in Volumes /\ w \in Volumes
    <2>0. d \in Nat /\ e \in Contents
      BY <1>1, ClustersAreFinite DEF RootDir, Contents
    <2>1. SlotUpdate(d, i, e) \in SlotUpdates
      BY <2>0, <1>3 DEF SlotUpdate, SlotUpdates
    <2>2. EOC \in Nat
      BY ClustersAreFinite
    <2>3. u1 \in Volumes
      BY <1>1, <2>1, VolumesTame DEF Tame
    <2> HIDE DEF u1
    <2>4. v \in Volumes
      BY <2>2, <2>3, VolumesTame DEF Tame, u1
    <2>5. After(v, AreaUpdate(c, cells)) \in Volumes
      BY <2>4, VolumesTame DEF Tame
    <2> QED
      BY <2>3, <2>4, <2>5
  <1>5. /\ u1.fat = u.fat
        /\ Slots(u1, d) = [Slots(u, d) EXCEPT ![i] = e]
        /\ \A b \in (Clusters \cup {RootDir}) \ {d} : Slots(u1, b) = Slots(u, b)
        /\ \A b \in Clusters \ {d} : u1.area[b] = u.area[b]
    BY <1>1, SlotUpdateIs
  <1> HIDE DEF u1
  <1>6. /\ v.root = u1.root /\ v.area = u1.area
        /\ \A f \in Copies : v.fat[f][c] = EOC
        /\ \A f \in Copies, b \in Clusters \ {c} : v.fat[f][b] = u1.fat[f][b]
        /\ \A b : Slots(v, b) = Slots(u1, b)
    BY <1>4, SetFatIs DEF u1
  <1>7. /\ w.fat = v.fat
        /\ \A b \in (Clusters \cup {RootDir}) \ {c} : Slots(w, b) = Slots(v, b)
        /\ \A b \in Clusters \ {c} : w.area[b] = v.area[b]
        /\ e.dir => Slots(w, c) = cells
    <2>1. CASE e.dir
      BY <2>1, <1>4, AreaUpdateIs
    <2>2. CASE ~e.dir
      BY <2>2
    <2> QED
      BY <2>1, <2>2
  <1>8. SlotChanged(u, w, DS, d, i, e)
    BY <1>1, <1>2, <1>5, <1>6, <1>7 DEF SlotChanged
  <1>9. /\ Refs(w, DS) = Refs(u, DS) \cup {r} /\ r \notin Refs(u, DS)
        /\ At(w, r) = e
        /\ \A s \in Refs(u, DS) : At(w, s) = At(u, s)
    <2>1. ~IsLive(NoEntry)
      BY DEF IsLive, IsEntry
    <2>2. r[1] = d /\ r[2] = i
      OBVIOUS
    <2>3. r \notin Refs(u, DS)
      BY <2>1, <2>2 DEF Refs, At
    <2>4. RefsAre(u, w, DS, r, e)
      <3>1. r = <<d, i>>
        OBVIOUS
      <3> QED
        BY ONLY <1>1, <1>8, <3>1, RefsChanged
    <2> QED
      BY <2>3, <2>4 DEF RefsAre
  <1> PICK D2, path2 : /\ D2 = Grown(DS, e)
                       /\ path2 = WithPath(path, Refs(w, D2), r, <<c>>)
    OBVIOUS
  <1>10. Refs(w, D2) = Refs(u, DS) \cup {r}
    <2>1. CASE e.dir
      <3>1. \A k \in DOMAIN Slots(w, c) : ~IsLive(Slots(w, c)[k])
        BY <2>1, <1>7
      <3>2. Refs(w, DS \cup {c}) = Refs(w, DS \ {c})
        <4> HIDE DEF u1
        <4> QED
          BY ONLY <3>1, RefsBarren
      <3>3. DS \ {c} = DS
        BY <1>2
      <3> QED
        BY <3>2, <3>3, <2>1, <1>9 DEF Grown
    <2>2. CASE ~e.dir
      BY <2>2, <1>9 DEF Grown
    <2> QED
      BY <2>1, <2>2
  <1> DEFINE p == <<c>>
  <1>11. p \in Seq(Clusters) /\ Len(p) = 1 /\ p[1] = c /\ p # <<>>
    OBVIOUS
  <1> HIDE DEF p
  <1>12. w.fat[1][c] = EOC /\ \A b \in Clusters \ {c} : w.fat[1][b] = u.fat[1][b]
    BY <1>5, <1>6, <1>7, FirstCopy
  <1>13. OnPath(w, p, e.start)
    BY <1>11, <1>12 DEF OnPath
  <1>14. /\ \A j \in 1 .. Len(p) : u.fat[1][p[j]] = Free
         /\ \A b \in Clusters :
              (\A j \in 1 .. Len(p) : p[j] # b) => w.fat[1][b] = u.fat[1][b]
         /\ e.dir => Len(p) = 1
    BY <1>11, <1>12
  <1>15. path2 = WithPath(path, Refs(w, D2), r, p)
    BY DEF p
  <1>16. Good(w, D2, path2)
    <2>0. D2 = Grown(DS, e)
      OBVIOUS
    <2>1. r \notin Refs(u, DS) /\ At(w, r) = e /\ w \in Volumes
      BY <1>4, <1>9
    <2>2. \A s \in Refs(u, DS) : At(w, s) = At(u, s)
      BY <1>9
    <2> QED
      BY ONLY Good(u, DS, path), <2>0, <2>1, <2>2, <1>10, <1>13, <1>14, <1>15, GoodAdd
  <1>17. \A b \in Clusters \ (DS \cup {c}) : w.area[b] = u.area[b]
    BY <1>5, <1>6, <1>7
  <1>18. r[1] = d
    OBVIOUS
  <1>19. ~e.dir => w.area[c] = u.area[c]
    BY <1>2, <1>5, <1>6
  <1> QED
    BY <1>2, <1>9, <1>10, <1>16, <1>17, <1>18, <1>19 DEF Added

(* The entry r is removed and its clusters are freed; a directory is       *)
(* empty.                                                                  *)
Barren(u, d) == \A k \in DOMAIN Slots(u, d) : ~IsLive(Slots(u, d)[k])

Without(u, C, r) == After(Freed(u, C), SlotUpdate(r[1], r[2], NoEntry))

LEMMA RemoveGood ==
    ASSUME NEW u, NEW DS, NEW path, Good(u, DS, path),
           NEW r \in Refs(u, DS), NEW e, e = At(u, r),
           e.dir => Barren(u, e.start),
           NEW w, w = Without(u, ToSet(path[r]), r),
           NEW D2, D2 = Shrunk(DS, e)
    PROVE  /\ Good(w, D2, path)
           /\ Refs(w, D2) = Refs(u, DS) \ {r}
           /\ \A s \in Refs(w, D2) : At(w, s) = At(u, s)
           /\ \A b \in Clusters \ {r[1]} : w.area[b] = u.area[b]
           /\ r[1] \in D2
  <1> USE DEF Barren, Without
  <1>1. /\ u \in Volumes /\ DS \subseteq Clusters \cup {RootDir} /\ RootDir \in DS
        /\ OnPath(u, path[r], e.start)
    BY DEF Good
  <1>2. /\ r[1] \in DS /\ r[1] \in Clusters \cup {RootDir} /\ r[2] \in DOMAIN Slots(u, r[1])
        /\ r[2] \in Nat /\ r = <<r[1], r[2]>> /\ IsLive(Slots(u, r[1])[r[2]])
        /\ r[2] \in 1 .. Len(Slots(u, r[1]))
    BY <1>1, RefType DEF Refs, At
  <1>3. ToSet(path[r]) = {path[r][i] : i \in 1 .. Len(path[r])}
        /\ ToSet(path[r]) \subseteq Clusters
    <2>1. path[r] \in Seq(Clusters)
      BY <1>1 DEF OnPath
    <2> QED
      BY <2>1 DEF ToSet
  <1> DEFINE v == Freed(u, ToSet(path[r]))
  <1>4. v \in Volumes /\ w \in Volumes
    <2>1. v \in Volumes
      BY <1>1, FreedType DEF Volumes
    <2>2. SlotUpdate(r[1], r[2], NoEntry) \in SlotUpdates
      BY <1>2, ClustersAreFinite DEF SlotUpdate, SlotUpdates, Contents, RootDir
    <2> HIDE DEF v
    <2> QED
      BY <2>1, <2>2, VolumesTame DEF Tame, v
  <1>5. /\ v.root = u.root /\ v.area = u.area
        /\ \A f \in Copies, b \in Clusters :
             v.fat[f][b] = IF b \in ToSet(path[r]) THEN Free ELSE u.fat[f][b]
        /\ \A b : Slots(v, b) = Slots(u, b)
    BY <1>1, FreedIs
  <1> HIDE DEF v
  <1>6. /\ w.fat = v.fat
        /\ Slots(w, r[1]) = [Slots(v, r[1]) EXCEPT ![r[2]] = NoEntry]
        /\ \A b \in (Clusters \cup {RootDir}) \ {r[1]} : Slots(w, b) = Slots(v, b)
        /\ \A b \in Clusters \ {r[1]} : w.area[b] = v.area[b]
    BY <1>2, <1>4, SlotUpdateIs DEF v
  <1>7. SlotChanged(u, w, DS, r[1], r[2], NoEntry)
    BY <1>1, <1>2, <1>5, <1>6 DEF SlotChanged
  <1>8. /\ Refs(w, DS) = Refs(u, DS) \ {r}
        /\ \A s \in Refs(u, DS) \ {r} : At(w, s) = At(u, s)
    <2>1. ~IsLive(NoEntry)
      BY DEF IsLive, IsEntry
    <2>0. PICK d, i, x : d = r[1] /\ i = r[2] /\ x = NoEntry
      OBVIOUS
    <2>2. SlotChanged(u, w, DS, d, i, x) /\ r = <<d, i>> /\ ~IsLive(x)
      BY <1>2, <1>7, <2>0, <2>1
    <2>4. RefsAre(u, w, DS, r, x)
      BY ONLY <1>1, <2>2, RefsChanged
    <2>3. /\ Refs(w, DS) = Refs(u, DS) \ {r}
          /\ \A s \in Refs(u, DS) \ {r} : At(w, s) = At(u, s)
      BY <2>2, <2>4 DEF RefsAre
    <2> QED
      BY <2>1, <2>3
  <1>9. e.dir => r[1] # e.start
    BY <1>2
  <1>10. Refs(w, D2) = Refs(u, DS) \ {r}
    <2>1. CASE e.dir
      <3>1. e.start \in DS /\ e.start \in Clusters \cup {RootDir}
        BY <2>1, <1>1 DEF Good
      <3>2. \A k \in DOMAIN Slots(w, e.start) : ~IsLive(Slots(w, e.start)[k])
        BY <2>1, <3>1, <1>5, <1>6, <1>9
      <3>3. Refs(w, DS \cup {e.start}) = Refs(w, DS \ {e.start})
        BY <3>2, RefsBarren
      <3>4. DS \cup {e.start} = DS
        BY <3>1
      <3> QED
        BY <3>3, <3>4, <2>1, <1>8 DEF Shrunk
    <2>2. CASE ~e.dir
      BY <2>2, <1>8 DEF Shrunk
    <2> QED
      BY <2>1, <2>2
  <1>11. \A b \in Clusters :
           (\A i \in 1 .. Len(path[r]) : path[r][i] # b) => w.fat[1][b] = u.fat[1][b]
    <2> TAKE b \in Clusters
    <2> HAVE \A i \in 1 .. Len(path[r]) : path[r][i] # b
    <2>1. b \notin ToSet(path[r])
      BY <1>3
    <2>2. v.fat[1][b] = u.fat[1][b]
      BY <2>1, <1>5, FirstCopy
    <2> QED
      BY <2>2, <1>6
  <1>12. Good(w, D2, path)
    <2>1. D2 = Shrunk(DS, e)
      OBVIOUS
    <2>2. At(u, r) = e
      OBVIOUS
    <2>3. \A s \in Refs(u, DS) \ {r} : At(w, s) = At(u, s)
      BY <1>8
    <2> QED
      BY ONLY Good(u, DS, path), r \in Refs(u, DS),
              <1>4, <1>10, <1>11, <2>1, <2>2, <2>3, GoodRemove
  <1>13. r[1] \in D2
    BY <1>2, <1>9 DEF Shrunk
  <1> QED
    BY <1>5, <1>6, <1>8, <1>10, <1>12, <1>13

=============================================================================
