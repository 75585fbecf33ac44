--------------------------- MODULE FatFuse_proofs ---------------------------
(* Theorems about FatFuse, for every geometry of the volume and every set  *)
(* of paths, buffers and offsets.                                          *)
EXTENDS FatFuse, FatDisk_proofs

-----------------------------------------------------------------------------
(* Paths.                                                                  *)
LEMMA PathIs ==
    ASSUME NEW p \in Paths
    PROVE  /\ p \in Seq(Names) /\ Len(p) \in Nat /\ Len(p) # 0
           /\ Len(Front(p)) = Len(p) - 1
           /\ DOMAIN Front(p) = 1 .. Len(p) - 1
           /\ \A k \in 1 .. Len(p) - 1 : Front(p)[k] = p[k]
           /\ Last(p) = p[Len(p)]
           /\ Last(p) \in Names
           /\ format_to_fat_name(Last(p)) \in Names
           /\ \A k \in 1 .. Len(p) : /\ p[k] \in Names
                                     /\ format_to_fat_name(p[k]) \notin {Dot, DotDot}
                                     /\ p[k] \notin {Dot, DotDot}
  <1>1. p \in Seq(Names) /\ p # <<>>
    <2>1. STRING \X STRING \subseteq Names
      BY DEF Names
    <2>2. p \in Seq(STRING \X STRING) /\ p # <<>>
      BY CallsAssumption
    <2> QED
      BY <2>1, <2>2
  <1>2. Len(p) \in Nat /\ Len(p) # 0
    BY <1>1
  <1>3. /\ Len(Front(p)) = Len(p) - 1
        /\ DOMAIN Front(p) = 1 .. Len(p) - 1
        /\ \A k \in 1 .. Len(p) - 1 : Front(p)[k] = p[k]
    <2>1. PICK n \in Nat : n = Len(p) - 1 /\ p \in [1 .. n + 1 -> Names]
      BY <1>1, <1>2
    <2>2. Front(p) = [k \in 1 .. n |-> p[k]]
      BY <2>1, <1>1 DEF Front
    <2> QED
      BY <2>1, <2>2
  <1>4. \A k \in 1 .. Len(p) : /\ p[k] \in Names
                               /\ format_to_fat_name(p[k]) \notin {Dot, DotDot}
    BY <1>1, CallsAssumption
  <1>5. \A k \in 1 .. Len(p) : p[k] \notin {Dot, DotDot}
    <2>1. format_to_fat_name(Dot) = Dot /\ format_to_fat_name(DotDot) = DotDot
      BY DEF format_to_fat_name, Dot, DotDot
    <2> QED
      BY <1>4, <2>1
  <1>6. Len(p) \in 1 .. Len(p) /\ Last(p) = p[Len(p)]
    BY <1>2 DEF Last
  <1>7. ASSUME NEW name \in Names PROVE format_to_fat_name(name) \in Names
    <2>1. name[1] \in STRING \cup {".", ".."}
      BY DEF Names
    <2> QED
      BY <2>1 DEF format_to_fat_name, Names
  <1> QED
    BY <1>1, <1>2, <1>3, <1>4, <1>5, <1>6, <1>7

LEMMA ParentType ==
    ASSUME VolumeOK, NEW p \in Paths
    PROVE  ParentDir(p) \in Nat \cup {Lost}
  <1> DEFINE n == Len(p) - 1
  <1>1. n \in Nat /\ Len(Front(p)) = n /\ DOMAIN Front(p) = 1 .. n
    BY PathIs
  <1> HIDE DEF n
  <1>2. PICK walk :
          /\ walk[0] = RootDir
          /\ \A k \in 1 .. n : walk[k] = Walked(walk[k - 1], Front(p)[k])
          /\ change_dir(RootDir, Front(p)) = walk[n]
    BY <1>1, ChangeDirIs
  <1> DEFINE T == {k \in 0 .. n : walk[k] \in Nat \cup {Lost}}
  <1>3. 0 \in T
    BY <1>1, <1>2 DEF RootDir
  <1>4. ASSUME NEW k \in 0 .. n - 1, k \in T
        PROVE  k + 1 \in T
    <2>1. k + 1 \in 1 .. n /\ (k + 1) - 1 = k /\ k + 1 \in 0 .. n
      BY <1>1
    <2>2. walk[k + 1] = Walked(walk[k], Front(p)[k + 1])
      BY <2>1, <1>2
    <2>3. walk[k + 1] \in Nat \cup {Lost}
      BY <2>2, <1>4, EnterType DEF Walked
    <2> QED
      BY <2>1, <2>3
  <1> HIDE DEF T
  <1>5. \A k \in 0 .. n : k \in T
    BY <1>1, <1>3, <1>4, UpTo
  <1>6. n \in T
    BY <1>1, <1>5
  <1> QED
    BY <1>2, <1>6 DEF T, ParentDir

LEMMA EntryType ==
    ASSUME VolumeOK, NEW p \in Paths, Exists(p)
    PROVE  /\ ParentDir(p) \in Nat
           /\ SlotIn(ParentDir(p), p) \in 1 .. Len(read_directory(ParentDir(p)))
           /\ Entry(p) \in Entries /\ IsEntry(Entry(p)) /\ Entry(p).name = Last(p)
           /\ Entry(p).start \in Nat /\ Entry(p).size \in Nat /\ Entry(p).dir \in BOOLEAN
  <1>1. ParentDir(p) # Lost
    BY DEF Exists, SlotIn
  <1>2. /\ SlotIn(ParentDir(p), p) = find_entry_by_name(read_directory(ParentDir(p)), Last(p))
        /\ SlotIn(ParentDir(p), p) # 0
    BY <1>1 DEF Exists, SlotIn
  <1>3. Entry(p) \in Entries /\ IsEntry(Entry(p)) /\ Entry(p).name = Last(p)
    BY <1>2, FoundInDirectory DEF Entry
  <1>4. SlotIn(ParentDir(p), p) \in 1 .. Len(read_directory(ParentDir(p)))
    <2>1. SlotIn(ParentDir(p), p) \in 0 .. Len(read_directory(ParentDir(p)))
      BY <1>2, FoundInDirectory
    <2>2. Len(read_directory(ParentDir(p))) \in Nat
      BY CellsType
    <2> QED
      BY <2>1, <2>2, <1>2
  <1> QED
    BY <1>1, <1>3, <1>4, ParentType DEF Entries

-----------------------------------------------------------------------------
(* The queue: what is pending leads to disk w and no further than P on the *)
(* way.                                                                    *)

Owes(q) ==
    \/ pending = <<>> /\ q = <<>>
    \/ \E code : pending = Append(q, [to |-> "reply", value |-> code])

Running(w, P) == \E q \in Seq(Updates) : Owes(q) /\ Runs(q, Disk, w, P)

LEMMA UpdateIsNoReply ==
    ASSUME NEW x \in Updates
    PROVE  x.to # "reply"
  BY DEF Updates, Writes

LEMMA RunningRest ==
    ASSUME NEW P, Disk \in P, pending = <<>>
    PROVE  Running(Disk, P)
  <1> DEFINE none == <<>>
  <1>1. none \in Seq(Updates) /\ Owes(none)
    BY DEF Owes
  <1>2. Runs(none, Disk, Disk, P)
    BY RunsNone
  <1> HIDE DEF none
  <1> QED
    BY <1>1, <1>2 DEF Running

LEMMA RunningIdle ==
    ASSUME NEW w, NEW P, Running(w, P), pending = <<>>
    PROVE  Disk = w /\ w \in P
  <1>1. PICK q \in Seq(Updates) : Owes(q) /\ Runs(q, Disk, w, P)
    BY DEF Running
  <1>2. q = <<>>
    <2>1. ASSUME NEW code, pending = Append(q, code)
          PROVE  FALSE
      <3>1. Len(Append(q, code)) = Len(q) + 1 /\ Len(q) \in Nat
        OBVIOUS
      <3>2. Len(pending) = 0
        OBVIOUS
      <3> QED
        BY <2>1, <3>1, <3>2
    <2> QED
      BY <1>1, <2>1 DEF Owes
  <1> QED
    BY <1>1, <1>2, RunsNothing

LEMMA RunningIn ==
    ASSUME NEW w, NEW P, Running(w, P)
    PROVE  Disk \in P
  <1>1. PICK q \in Seq(Updates) : Runs(q, Disk, w, P)
    BY DEF Running
  <1>2. 0 \in 0 .. Len(q)
    OBVIOUS
  <1> QED
    BY <1>1, <1>2 DEF Runs

LEMMA RunningFlush ==
    ASSUME NEW w, NEW P, Running(w, P), Flush
    PROVE  Running(w, P)'
  <1>1. PICK q \in Seq(Updates) : Owes(q) /\ Runs(q, Disk, w, P)
    BY DEF Running
  <1>2. PICK code : pending = Append(q, [to |-> "reply", value |-> code])
    BY <1>1 DEF Owes, Flush, Idle
  <1> DEFINE answer == [to |-> "reply", value |-> code]
  <1>3. q # <<>>
    <2> SUFFICES ASSUME q = <<>> PROVE FALSE
      OBVIOUS
    <2>1. Head(pending) = answer
      BY <1>2
    <2> QED
      BY <2>1 DEF Flush
  <1>4. /\ Head(Append(q, answer)) = Head(q)
        /\ Tail(Append(q, answer)) = Append(Tail(q), answer)
        /\ Tail(q) \in Seq(Updates)
    <2> HIDE DEF answer
    <2> QED
      BY <1>3
  <1>5. pending' = Append(Tail(q), answer) /\ Disk' = After(Disk, Head(q))
    BY <1>2, <1>4, ApplyIsAfter DEF Flush
  <1>6. Owes(Tail(q))'
    BY <1>5 DEF Owes
  <1>7. Runs(Tail(q), After(Disk, Head(q)), w, P)
    BY <1>1, <1>3, RunsFlush
  <1>8. Runs(Tail(q), Disk, w, P)'
    BY <1>5, <1>7 DEF Runs
  <1> QED
    BY <1>4, <1>6, <1>8 DEF Running

LEMMA RunningReturn ==
    ASSUME NEW w, NEW P, Running(w, P), Return
    PROVE  Disk = w /\ w \in P /\ Disk' = Disk /\ pending' = <<>>
  <1>1. PICK q \in Seq(Updates) : Owes(q) /\ Runs(q, Disk, w, P)
    BY DEF Running
  <1>2. PICK code : pending = Append(q, [to |-> "reply", value |-> code])
    BY <1>1 DEF Owes, Return, Idle
  <1> DEFINE answer == [to |-> "reply", value |-> code]
  <1>3. q = <<>>
    <2> SUFFICES ASSUME q # <<>> PROVE FALSE
      OBVIOUS
    <2>1. Head(Append(q, answer)) = Head(q) /\ Head(q) \in Updates
      <3> HIDE DEF answer
      <3> QED
        OBVIOUS
    <2> QED
      BY <2>1, <1>2, UpdateIsNoReply DEF Return
  <1>4. Disk = w /\ w \in P
    BY <1>1, <1>3, RunsNothing
  <1> QED
    BY <1>4 DEF Return, Disk, volume

LEMMA RunningAnswer ==
    ASSUME NEW op, NEW p, NEW writes, NEW code, Answer(op, p, writes, code),
           writes \in Seq(Updates), NEW w, NEW P, Runs(writes, Disk, w, P)
    PROVE  Running(w, P)'
  <1>1. Owes(writes)'
    BY DEF Answer, Owes
  <1>2. Disk' = Disk
    BY DEF Answer, Disk, volume
  <1>3. Runs(writes, Disk, w, P)'
    BY <1>2 DEF Runs
  <1> QED
    BY <1>1, <1>3 DEF Running

-----------------------------------------------------------------------------
(* The writes of the handlers.                                             *)

(* create and mkdir.                                                       *)
NewSlot(p, dir) ==
    SlotUpdate(ParentDir(p), FreeSlot(read_directory(ParentDir(p))), NewEntry(p, dir))

LEMMA MakeChecked ==
    ASSUME VolumeOK, NEW p \in Paths, NEW dir \in BOOLEAN, MakeRefusal(p) = "ok"
    PROVE  /\ ParentDir(p) \in Nat /\ ~Exists(p)
           /\ FreeSlot(read_directory(ParentDir(p)))
                \in 1 .. Len(read_directory(ParentDir(p)))
           /\ read_directory(ParentDir(p))[FreeSlot(read_directory(ParentDir(p)))]
                = NoEntry
           /\ LowestFree \in Clusters /\ get_fat_entry(LowestFree) = Free
           /\ NewEntry(p, dir) \in Entries
           /\ NewSlot(p, dir) \in SlotUpdates
           /\ EmptyDirectory(LowestFree, ParentDir(p)) \in Seq(Contents)
  <1> DEFINE d == ParentDir(p)
             i == FreeSlot(read_directory(d))
  <1>1. d # Lost /\ ~Exists(p) /\ i # 0 /\ LowestFree # 0
    BY DEF MakeRefusal
  <1>2. d \in Nat
    BY <1>1, ParentType
  <1>3. i \in 1 .. Len(read_directory(d)) /\ read_directory(d)[i] = NoEntry /\ i \in Nat
    <2>1. PICK n \in Nat : n = Len(read_directory(d))
      BY CellsType
    <2>2. i \in 0 .. n /\ read_directory(d)[i] = NoEntry
      BY <1>1, <2>1, FoundSlot
    <2> QED
      BY <2>1, <2>2, <1>1
  <1>4. LowestFree \in Clusters /\ get_fat_entry(LowestFree) = Free /\ LowestFree \in Nat
    BY <1>1, LowestFreeIs, ClustersAreFinite
  <1>5. NewEntry(p, dir) \in Entries
    BY <1>4, PathIs DEF NewEntry, Entries
  <1>6. NewSlot(p, dir) \in SlotUpdates
    BY <1>2, <1>3, <1>5 DEF NewSlot, SlotUpdate, SlotUpdates, Contents
  <1>7. EmptyDirectory(LowestFree, d) \in Seq(Contents)
    <2>1. DirEntriesPerCluster \in Nat
      BY Geometry
    <2> DEFINE first == [name |-> Dot, dir |-> TRUE, start |-> LowestFree, size |-> 0]
               second == [name |-> DotDot, dir |-> TRUE, start |-> d, size |-> 0]
    <2>2. Dot \in Names /\ DotDot \in Names
      BY DEF Dot, DotDot, Names
    <2>3. first \in Contents /\ second \in Contents /\ NoEntry \in Contents
      BY <2>2, <1>2, <1>4 DEF Contents, Entries
    <2> HIDE DEF first, second
    <2>4. EmptyDirectory(LowestFree, d)
            = [k \in 1 .. DirEntriesPerCluster |->
                 CASE k = 1 -> first [] k = 2 -> second [] OTHER -> NoEntry]
      BY DEF EmptyDirectory, first, second
    <2>5. EmptyDirectory(LowestFree, d) \in [1 .. DirEntriesPerCluster -> Contents]
      BY <2>3, <2>4
    <2> QED
      BY <2>1, <2>5
  <1> QED
    BY <1>1, <1>2, <1>3, <1>4, <1>5, <1>6, <1>7

LEMMA EntryRuns ==
    ASSUME VolumeOK, NEW p \in Paths, NEW dir \in BOOLEAN, MakeRefusal(p) = "ok",
           NEW P, NEW Q, NEW C, NEW S, Tame(P, Q, C, S), Disk \in Q,
           LowestFree \in C, NewSlot(p, dir) \in S,
           NEW w, w = SetFat(After(Disk, NewSlot(p, dir)), LowestFree, EOC)
    PROVE  /\ EntryWrites(p, dir) \in Seq(Updates)
           /\ Runs(EntryWrites(p, dir), Disk, w, P)
           /\ w \in Q
  <1> DEFINE u == After(Disk, NewSlot(p, dir))
             a == SlotWrite(ParentDir(p), FreeSlot(read_directory(ParentDir(p))),
                            NewEntry(p, dir))
             b == FatWrites(LowestFree, EOC)
  <1>1. Runs(a, Disk, u, P) /\ u \in Q /\ a \in Seq(Updates)
    BY SlotRuns DEF NewSlot
  <1> HIDE DEF u
  <1>2. EOC \in Nat
    BY DEF EOC
  <1>3. Runs(b, u, w, P) /\ w \in Q /\ b \in Seq(Updates)
    BY <1>1, <1>2, FatRuns DEF u
  <1>4. EntryWrites(p, dir) = a \o b
    BY DEF EntryWrites
  <1> HIDE DEF a, b
  <1>5. Runs(a \o b, Disk, w, P) /\ a \o b \in Seq(Updates)
    BY <1>1, <1>3, RunsConcat
  <1> QED
    BY <1>3, <1>4, <1>5

LEMMA DirectoryRuns ==
    ASSUME VolumeOK, NEW p \in Paths, MakeRefusal(p) = "ok",
           NEW P, NEW Q, NEW C, NEW S, Tame(P, Q, C, S), Disk \in Q,
           LowestFree \in C, NewSlot(p, TRUE) \in S,
           NEW cells, cells = EmptyDirectory(LowestFree, ParentDir(p)),
           NEW w,
           w = After(SetFat(After(Disk, NewSlot(p, TRUE)), LowestFree, EOC),
                     AreaUpdate(LowestFree, cells))
    PROVE  /\ EntryWrites(p, TRUE) \o AreaWrite(LowestFree, cells) \in Seq(Updates)
           /\ Runs(EntryWrites(p, TRUE) \o AreaWrite(LowestFree, cells), Disk, w, P)
           /\ w \in Q
  <1> DEFINE u == SetFat(After(Disk, NewSlot(p, TRUE)), LowestFree, EOC)
             a == EntryWrites(p, TRUE)
             b == AreaWrite(LowestFree, cells)
  <1>1. Runs(a, Disk, u, P) /\ u \in Q /\ a \in Seq(Updates)
    BY EntryRuns
  <1>2. cells \in Seq(Contents)
    BY MakeChecked
  <1> HIDE DEF u
  <1>3. Runs(b, u, w, P) /\ w \in Q /\ b \in Seq(Updates)
    BY <1>1, <1>2, AreaRuns DEF u
  <1> HIDE DEF a, b
  <1>5. a \o b \in Seq(Updates)
    BY <1>1, <1>3
  <1>6. Runs(a \o b, Disk, w, P)
    BY <1>1, <1>3, RunsConcat
  <1>4. Runs(a \o b, Disk, w, P) /\ a \o b \in Seq(Updates)
    BY <1>5, <1>6
  <1> QED
    BY <1>3, <1>4 DEF a, b

(* rmdir and unlink.                                                       *)
OldSlot(p, e) == SlotUpdate(ParentDir(p), SlotIn(ParentDir(p), p), e)

LEMMA RemovalRuns ==
    ASSUME VolumeOK, NEW p \in Paths, Exists(p),
           NEW P, NEW Q, NEW C, NEW S, Tame(P, Q, C, S), Disk \in Q,
           ToSet(Chain(Entry(p).start)) \subseteq C, OldSlot(p, NoEntry) \in S,
           NEW w,
           w = After(Freed(Disk, ToSet(Chain(Entry(p).start))), OldSlot(p, NoEntry))
    PROVE  /\ RemovalWrites(p) \in Seq(Updates)
           /\ Runs(RemovalWrites(p), Disk, w, P)
           /\ w \in Q
  <1> DEFINE chain == Chain(Entry(p).start)
             u == Freed(Disk, ToSet(chain))
             a == FreeingWrites(chain)
             b == SlotWrite(ParentDir(p), SlotIn(ParentDir(p), p), NoEntry)
  <1>1. chain \in Seq(Clusters)
    BY ChainType
  <1>2. Runs(a, Disk, u, P) /\ u \in Q /\ a \in Seq(Updates)
    <2> HIDE DEF chain
    <2>1. ToSet(chain) \subseteq C
      BY DEF chain
    <2> QED
      BY <1>1, <2>1, FreeingRuns
  <1> HIDE DEF u
  <1>3. Runs(b, u, w, P) /\ w \in Q /\ b \in Seq(Updates)
    BY <1>2, SlotRuns DEF OldSlot, u
  <1>4. RemovalWrites(p) = a \o b
    BY DEF RemovalWrites
  <1> HIDE DEF a, b
  <1>5. Runs(a \o b, Disk, w, P) /\ a \o b \in Seq(Updates)
    BY <1>2, <1>3, RunsConcat
  <1> QED
    BY <1>3, <1>4, <1>5

(* write: what it works with.                                              *)
LEMMA NeededIs ==
    ASSUME NEW size \in Nat
    PROVE  /\ ClustersNeeded(size) \in Nat
           /\ size <= ClustersNeeded(size) * ClusterSize
           /\ size # 0 => ClustersNeeded(size) # 0
  <1>1. ClusterSize \in Nat /\ ClusterSize # 0
    BY Geometry
  <1> DEFINE q == (size + ClusterSize - 1) \div ClusterSize
  <1>2. q \in Nat /\ size <= q * ClusterSize
    BY <1>1
  <1>3. size # 0 => q # 0
    BY <1>1
  <1> QED
    BY <1>2, <1>3 DEF ClustersNeeded

Available(e, size) == FreeClusters \cup ToSet(OldChain(e, size))

LEMMA AllocatedIs ==
    ASSUME NEW e, NEW size \in Nat, NEW S, S = Available(e, size),
           NEW chain, chain = Allocated(e, size)
    PROVE  /\ OldChain(e, size) \in Seq(Clusters)
           /\ ToSet(OldChain(e, size)) \subseteq Clusters
           /\ chain \in Seq(S) /\ chain \in Seq(Clusters)
           /\ \A i, j \in 1 .. Len(chain) : i < j => chain[i] < chain[j]
           /\ \A i, j \in 1 .. Len(chain) : chain[i] = chain[j] => i = j
           /\ Len(chain) <= ClustersNeeded(size)
           /\ Len(chain) < ClustersNeeded(size) =>
                \A c \in S : \E i \in 1 .. Len(chain) : chain[i] = c
  <1> USE DEF Available
  <1>1. OldChain(e, size) \in Seq(Clusters) /\ ToSet(OldChain(e, size)) \subseteq Clusters
    <2>1. Chain(e.start) \in Seq(Clusters) /\ ToSet(Chain(e.start)) \subseteq Clusters
      BY ChainType
    <2> DEFINE none == <<>>
    <2>2. none \in Seq(Clusters) /\ ToSet(none) \subseteq Clusters
      BY DEF ToSet
    <2>3. OldChain(e, size) = IF size # e.size THEN Chain(e.start) ELSE none
      BY DEF OldChain
    <2> HIDE DEF none
    <2> QED
      BY <2>1, <2>2, <2>3
  <1>2. S \subseteq Clusters /\ S \subseteq Nat /\ IsFiniteSet(S)
    <2>1. S \subseteq Clusters
      BY <1>1 DEF FreeClusters
    <2> QED
      BY <2>1, ClustersAreFinite, FS_Subset
  <1> DEFINE n == Cardinality(S)
             free == LowestFirst(S)
             need == ClustersNeeded(size)
             m == IF need <= n THEN need ELSE n
  <1>3. /\ n \in Nat /\ free \in [1 .. n -> S]
        /\ \A c \in S : \E k \in 1 .. n : free[k] = c
        /\ \A i, j \in 1 .. n : i < j => free[i] < free[j]
    BY <1>2, LowestFirstIs
  <1>4. need \in Nat
    BY NeededIs
  <1> HIDE DEF n, free, need
  <1>5. Len(free) = n
    BY <1>3
  <1>6. Min({need, Len(free)}) = m /\ m \in Nat /\ m <= n /\ m <= need /\ 1 .. m \subseteq 1 .. n
    BY <1>3, <1>4, <1>5, MinOfTwo
  <1>7. chain = SubSeq(free, 1, m)
    BY <1>6 DEF Allocated, free, need
  <1>8. Len(chain) = m /\ chain \in [1 .. m -> S] /\ \A i \in 1 .. m : chain[i] = free[i]
    <2>1. SubSeq(free, 1, m) = [i \in 1 .. m |-> free[i]]
      BY <1>3, <1>6
    <2> HIDE DEF m
    <2>2. \A i \in 1 .. m : free[i] \in S
      BY <1>3, <1>6
    <2>3. chain = [i \in 1 .. m |-> free[i]] /\ m \in Nat
      BY <1>6, <1>7, <2>1
    <2>4. chain \in [1 .. m -> S] /\ \A i \in 1 .. m : chain[i] = free[i]
      BY <2>2, <2>3
    <2>5. Len(chain) = m
      BY <2>3
    <2> QED
      BY <2>4, <2>5
  <1>9. \A i, j \in 1 .. m : i < j => chain[i] < chain[j]
    <2> TAKE i, j \in 1 .. m
    <2>1. i \in 1 .. n /\ j \in 1 .. n
      BY <1>6
    <2> QED
      BY <2>1, <1>3, <1>8
  <1>10. \A i, j \in 1 .. m : chain[i] = chain[j] => i = j
    <2> SUFFICES ASSUME NEW i \in 1 .. m, NEW j \in 1 .. m, chain[i] = chain[j], i # j
                 PROVE  FALSE
      OBVIOUS
    <2>1. chain[i] \in Nat /\ chain[j] \in Nat
      BY <1>2, <1>8
    <2>2. i < j \/ j < i
      BY <1>6
    <2>3. chain[i] < chain[j] \/ chain[j] < chain[i]
      BY <1>9, <2>2
    <2> QED
      BY <2>1, <2>3
  <1>11. m < need => \A c \in S : \E i \in 1 .. m : chain[i] = c
    BY <1>3, <1>4, <1>8
  <1>12. chain \in Seq(S) /\ chain \in Seq(Clusters)
    BY <1>2, <1>6, <1>8
  <1> HIDE DEF m
  <1> QED
    BY <1>1, <1>6, <1>8, <1>9, <1>10, <1>11, <1>12 DEF need

(* The allocation loop, cluster by cluster.                                *)
LinkedTo(u, chain, k) ==
    IF k = 1 THEN u ELSE SetFat(u, chain[k - 1], chain[k])

Extended(u, chain, buffer, k) ==
    After(SetFat(LinkedTo(u, chain, k), chain[k], EOC),
          AreaUpdate(chain[k], DataCells(Piece(buffer, k))))

Block(chain, buffer, k) ==
    (IF k = 1 THEN <<>> ELSE FatWrites(chain[k - 1], chain[k]))
    \o FatWrites(chain[k], EOC)
    \o DataWrite(chain[k], Piece(buffer, k))

(* After n rounds that started on disk v.                                  *)
FilledTo(v, w, chain, buffer, n) ==
    /\ w.root = v.root
    /\ \A f \in Copies :
          /\ \A i \in 1 .. n - 1 : w.fat[f][chain[i]] = chain[i + 1]
          /\ n # 0 => w.fat[f][chain[n]] = EOC
          /\ \A c \in Clusters :
               (\A i \in 1 .. n : chain[i] # c) => w.fat[f][c] = v.fat[f][c]
    /\ \A i \in 1 .. n : w.area[chain[i]] = DataCells(Piece(buffer, i))
    /\ \A c \in Clusters :
          (\A i \in 1 .. n : chain[i] # c) => w.area[c] = v.area[c]

LEMMA BlockRuns ==
    ASSUME NEW P, NEW Q, NEW C, NEW S, Tame(P, Q, C, S),
           NEW chain, chain \in Seq(C),
           NEW buffer, buffer \in Seq(Contents),
           NEW u \in Q, NEW k \in 1 .. Len(chain)
    PROVE  /\ Runs(Block(chain, buffer, k), u, Extended(u, chain, buffer, k), P)
           /\ Extended(u, chain, buffer, k) \in Q
           /\ Block(chain, buffer, k) \in Seq(Updates)
  <1> DEFINE a == IF k = 1 THEN <<>> ELSE FatWrites(chain[k - 1], chain[k])
             b == FatWrites(chain[k], EOC)
             c == DataWrite(chain[k], Piece(buffer, k))
             v1 == LinkedTo(u, chain, k)
             v2 == SetFat(v1, chain[k], EOC)
             v3 == After(v2, AreaUpdate(chain[k], DataCells(Piece(buffer, k))))
  <1>1. chain[k] \in C /\ chain[k] \in Nat /\ EOC \in Nat
    <2>1. chain[k] \in C
      OBVIOUS
    <2>2. C \subseteq Clusters
      BY DEF Tame
    <2> QED
      BY <2>1, <2>2, ClustersAreFinite
  <1>2. Runs(a, u, v1, P) /\ v1 \in Q /\ a \in Seq(Updates)
    <2>1. CASE k = 1
      <3> DEFINE none == <<>>
      <3>1. Runs(none, u, u, P) /\ none \in Seq(Updates)
        <4>1. u \in P
          BY DEF Tame
        <4> QED
          BY <4>1, RunsNone
      <3>2. a = none /\ v1 = u
        BY <2>1 DEF LinkedTo
      <3> HIDE DEF none, a, v1
      <3> QED
        BY <3>1, <3>2
    <2>2. CASE k # 1
      <3>1. k - 1 \in 1 .. Len(chain)
        BY <2>2
      <3>2. chain[k - 1] \in C
        BY <3>1
      <3>3. a = FatWrites(chain[k - 1], chain[k]) /\ v1 = SetFat(u, chain[k - 1], chain[k])
        BY <2>2 DEF LinkedTo
      <3> HIDE DEF a, v1
      <3> QED
        BY <1>1, <3>2, <3>3, FatRuns
    <2> QED
      BY <2>1, <2>2
  <1> HIDE DEF v1, a
  <1>3. Runs(b, v1, v2, P) /\ v2 \in Q /\ b \in Seq(Updates)
    BY <1>1, <1>2, FatRuns
  <1> HIDE DEF v2, b
  <1>4. Runs(c, v2, v3, P) /\ v3 \in Q /\ c \in Seq(Updates)
    <2>1. Piece(buffer, k) \in Seq(Contents)
      <3>1. k \in Nat \ {0}
        OBVIOUS
      <3> QED
        BY <3>1, PieceIs
    <2> QED
      BY <1>1, <1>3, <2>1, DataRuns
  <1> HIDE DEF v3, c
  <1>5. a \o b \in Seq(Updates)
    BY <1>2, <1>3
  <1>6. Runs(a \o b, u, v2, P)
    BY <1>2, <1>3, RunsConcat
  <1>7. (a \o b) \o c \in Seq(Updates)
    BY <1>4, <1>5
  <1>8. Runs((a \o b) \o c, u, v3, P)
    BY <1>4, <1>5, <1>6, RunsConcat
  <1>9. Block(chain, buffer, k) = (a \o b) \o c
    BY DEF Block, a, b, c
  <1>10. Extended(u, chain, buffer, k) = v3
    BY DEF Extended, v1, v2, v3
  <1> QED
    BY <1>4, <1>7, <1>8, <1>9, <1>10

LEMMA ExtendedFills ==
    ASSUME NEW v \in Volumes, NEW u \in Volumes,
           NEW chain, chain \in Seq(Clusters),
           \A i, j \in 1 .. Len(chain) : chain[i] = chain[j] => i = j,
           NEW buffer, NEW k \in 1 .. Len(chain),
           FilledTo(v, u, chain, buffer, k - 1)
    PROVE  FilledTo(v, Extended(u, chain, buffer, k), chain, buffer, k)
  <1> DEFINE x == Extended(u, chain, buffer, k)
             u1 == LinkedTo(u, chain, k)
  <1>1. /\ u.fat \in [Copies -> [Clusters -> Nat]]
        /\ u.area \in [Clusters -> Seq(Contents)]
    BY DEF Volumes, Disks
  <1>2. /\ k \in Nat /\ Len(chain) \in Nat /\ chain[k] \in Clusters
        /\ k # 1 => k - 1 \in 1 .. Len(chain) /\ chain[k - 1] \in Clusters
    OBVIOUS
  <1>3. /\ u1.root = u.root /\ u1.area = u.area
        /\ u1.fat \in [Copies -> [Clusters -> Nat]]
        /\ \A f \in Copies, c \in Clusters :
             u1.fat[f][c] = IF k # 1 /\ c = chain[k - 1] THEN chain[k] ELSE u.fat[f][c]
    <2>1. CASE k = 1
      BY <2>1, <1>1 DEF LinkedTo
    <2>2. CASE k # 1
      <3>1. u1 = SetFat(u, chain[k - 1], chain[k])
        BY <2>2 DEF LinkedTo
      <3>2. chain[k] \in Nat /\ chain[k - 1] \in Clusters
        BY <1>2, <2>2, ClustersAreFinite
      <3>3. /\ u1.root = u.root /\ u1.area = u.area
            /\ \A f \in Copies : u1.fat[f][chain[k - 1]] = chain[k]
            /\ \A f \in Copies, c \in Clusters \ {chain[k - 1]} :
                 u1.fat[f][c] = u.fat[f][c]
        <4> HIDE DEF u1
        <4> QED
          BY <3>1, <3>2, SetFatIs
      <3>4. u1 \in Disks(Contents)
        <4>1. u \in Disks(Contents)
          BY DEF Volumes
        <4> HIDE DEF u1
        <4> QED
          BY <3>1, <3>2, <4>1, PartFatType
      <3>5. u1.fat \in [Copies -> [Clusters -> Nat]]
        <4> HIDE DEF u1
        <4> QED
          BY <3>4 DEF Disks
      <3> HIDE DEF u1
      <3>6. \A f \in Copies, c \in Clusters :
             u1.fat[f][c] = IF k # 1 /\ c = chain[k - 1] THEN chain[k] ELSE u.fat[f][c]
        BY <2>2, <3>3
      <3> QED
        BY <3>3, <3>5, <3>6
    <2> QED
      BY <2>1, <2>2
  <1> HIDE DEF u1
  <1>4. /\ x.root = u.root
        /\ \A f \in Copies, c \in Clusters :
             x.fat[f][c] = IF c = chain[k] THEN EOC ELSE u1.fat[f][c]
        /\ \A c \in Clusters :
             x.area[c] = IF c = chain[k] THEN DataCells(Piece(buffer, k)) ELSE u.area[c]
    BY <1>1, <1>2, <1>3 DEF Extended, SetFat, After, AreaUpdate, u1
  <1> HIDE DEF x
  <1>5. \A i \in 1 .. k - 1 : i \in 1 .. Len(chain) /\ chain[i] # chain[k] /\ chain[i] \in Clusters
    BY <1>2
  <1>6. ASSUME NEW f \in Copies
        PROVE  /\ \A i \in 1 .. k - 1 : x.fat[f][chain[i]] = chain[i + 1]
               /\ k # 0 => x.fat[f][chain[k]] = EOC
               /\ \A c \in Clusters :
                    (\A i \in 1 .. k : chain[i] # c) => x.fat[f][c] = v.fat[f][c]
    <2>1. ASSUME NEW i \in 1 .. k - 1
          PROVE  x.fat[f][chain[i]] = chain[i + 1]
      <3>1. x.fat[f][chain[i]] = u1.fat[f][chain[i]]
        BY <1>4, <1>5
      <3>2. CASE i = k - 1
        <4>1. k # 1 /\ i + 1 = k
          BY <3>2, <1>2
        <4> QED
          BY <3>1, <3>2, <4>1, <1>2, <1>3
      <3>3. CASE i # k - 1
        <4>1. i \in 1 .. (k - 1) - 1 /\ i \in 1 .. Len(chain) /\ k # 1
          BY <3>3, <1>2
        <4>2. chain[i] # chain[k - 1]
          BY <4>1, <1>2, <3>3
        <4>3. u1.fat[f][chain[i]] = u.fat[f][chain[i]]
          BY <4>1, <4>2, <1>3, <1>5
        <4>4. u.fat[f][chain[i]] = chain[i + 1]
          BY <4>1 DEF FilledTo
        <4> QED
          BY <3>1, <4>3, <4>4
      <3> QED
        BY <3>2, <3>3
    <2>2. x.fat[f][chain[k]] = EOC
      BY <1>2, <1>4
    <2>3. ASSUME NEW c \in Clusters, \A i \in 1 .. k : chain[i] # c
          PROVE  x.fat[f][c] = v.fat[f][c]
      <3>1. c # chain[k] /\ (k # 1 => c # chain[k - 1])
        BY <2>3, <1>2
      <3>2. x.fat[f][c] = u.fat[f][c]
        BY <3>1, <1>3, <1>4
      <3>3. \A i \in 1 .. k - 1 : chain[i] # c
        BY <2>3, <1>2
      <3> QED
        BY <3>2, <3>3 DEF FilledTo
    <2> QED
      BY <2>1, <2>2, <2>3
  <1>7. ASSUME NEW i \in 1 .. k
        PROVE  x.area[chain[i]] = DataCells(Piece(buffer, i))
    <2>1. CASE i = k
      BY <2>1, <1>2, <1>4
    <2>2. CASE i # k
      <3>1. i \in 1 .. k - 1
        BY <2>2, <1>2
      <3> QED
        BY <3>1, <1>4, <1>5 DEF FilledTo
    <2> QED
      BY <2>1, <2>2
  <1>8. ASSUME NEW c \in Clusters, \A i \in 1 .. k : chain[i] # c
        PROVE  x.area[c] = v.area[c]
    <2>1. c # chain[k] /\ \A i \in 1 .. k - 1 : chain[i] # c
      BY <1>8, <1>2
    <2> QED
      BY <2>1, <1>4 DEF FilledTo
  <1>9. x.root = v.root
    BY <1>4 DEF FilledTo
  <1>10. FilledTo(v, x, chain, buffer, k)
    BY <1>6, <1>7, <1>8, <1>9 DEF FilledTo
  <1> QED
    BY <1>10 DEF x

LEMMA AllocationRuns ==
    ASSUME NEW P, NEW Q, NEW C, NEW S, Tame(P, Q, C, S), NEW v \in Q,
           NEW chain, chain \in Seq(C),
           \A i, j \in 1 .. Len(chain) : chain[i] = chain[j] => i = j,
           NEW buffer, buffer \in Seq(Contents)
    PROVE  /\ AllocationWrites(chain, buffer) \in Seq(Updates)
           /\ \E w \in Q : /\ Runs(AllocationWrites(chain, buffer), v, w, P)
                           /\ FilledTo(v, w, chain, buffer, Len(chain))
  <1>1. PICK n \in Nat : n = Len(chain) /\ chain \in [1 .. n -> C]
    OBVIOUS
  <1> DEFINE h == [k \in 1 .. n |-> [u \in Q |-> Extended(u, chain, buffer, k)]]
  <1>2. IsStep(h, n, Q)
    BY <1>1, BlockRuns DEF IsStep
  <1>3. \A k \in 1 .. n, u \in Q : h[k][u] = Extended(u, chain, buffer, k)
    OBVIOUS
  <1> HIDE DEF h
  <1>4. \E d : Iterates(d, n, Q, v, h)
    BY <1>2, Recursion
  <1>5. PICK d : Iterates(d, n, Q, v, h)
    BY <1>4
  <1>6. d \in [0 .. n -> Q] /\ d[0] = v
    BY <1>5 DEF Iterates
  <1>7. \A k \in 1 .. n : d[k - 1] \in Q /\ d[k] = Extended(d[k - 1], chain, buffer, k)
    <2> TAKE k \in 1 .. n
    <2>1. k - 1 \in 0 .. n
      OBVIOUS
    <2>2. d[k - 1] \in Q
      BY <2>1, <1>6
    <2>3. d[k] = h[k][d[k - 1]]
      BY <1>5 DEF Iterates
    <2> QED
      BY <2>2, <2>3, <1>3
  <1> DEFINE s == [k \in 1 .. n |-> Block(chain, buffer, k)]
  <1>8. s \in [1 .. n -> Seq(Updates)]
    <2>1. \A k \in 1 .. n : Block(chain, buffer, k) \in Seq(Updates)
      BY <1>1, BlockRuns
    <2> QED
      BY <2>1
  <1>9. \A k \in 1 .. n : Runs(s[k], d[k - 1], d[k], P)
    <2> TAKE k \in 1 .. n
    <2>1. s[k] = Block(chain, buffer, k)
      OBVIOUS
    <2>2. Runs(Block(chain, buffer, k), d[k - 1], Extended(d[k - 1], chain, buffer, k), P)
      BY <1>1, <1>7, BlockRuns
    <2> QED
      BY <2>1, <2>2, <1>7
  <1>10. AllocationWrites(chain, buffer) = FlattenSeq(s)
    BY <1>1 DEF AllocationWrites, Block, Piece
  <1> HIDE DEF s
  <1>11. d \in [0 .. n -> P]
    BY <1>6 DEF Tame
  <1>12. /\ FlattenSeq(s) \in Seq(Updates)
         /\ Runs(FlattenSeq(s), d[0], d[n], P)
    BY <1>8, <1>9, <1>11, RunsBlocks
  <1> DEFINE T == {k \in 0 .. n : FilledTo(v, d[k], chain, buffer, k)}
  <1>13. 0 \in T
    <2>1. FilledTo(v, v, chain, buffer, 0)
      BY DEF FilledTo
    <2> QED
      BY <2>1, <1>6
  <1>14. ASSUME NEW k \in 0 .. n - 1, k \in T
         PROVE  k + 1 \in T
    <2>1. k + 1 \in 1 .. n /\ (k + 1) - 1 = k /\ k + 1 \in 0 .. n
      BY <1>1
    <2>2. d[k] \in Q /\ d[k + 1] = Extended(d[k], chain, buffer, k + 1)
      BY <2>1, <1>7
    <2>3. d[k] \in Volumes /\ v \in Volumes /\ chain \in Seq(Clusters)
      BY <2>2, <1>1 DEF Tame
    <2>4. FilledTo(v, d[k], chain, buffer, (k + 1) - 1)
      BY <1>14, <2>1
    <2>5. FilledTo(v, Extended(d[k], chain, buffer, k + 1), chain, buffer, k + 1)
      BY <2>1, <2>3, <2>4, <1>1, ExtendedFills
    <2> QED
      BY <2>1, <2>2, <2>5
  <1> HIDE DEF T
  <1>15. n \in T
    <2>1. \A k \in 0 .. n : k \in T
      BY <1>13, <1>14, UpTo
    <2>2. n \in 0 .. n
      BY <1>1
    <2> QED
      BY <2>1, <2>2
  <1>16. d[n] \in Q /\ FilledTo(v, d[n], chain, buffer, Len(chain))
    <2>1. n \in 0 .. n
      BY <1>1
    <2> QED
      BY <2>1, <1>1, <1>6, <1>15 DEF T
  <1>17. /\ AllocationWrites(chain, buffer) \in Seq(Updates)
         /\ Runs(AllocationWrites(chain, buffer), v, d[n], P)
    BY <1>6, <1>10, <1>12
  <1> QED
    BY <1>16, <1>17

LEMMA WriteChecked ==
    ASSUME VolumeOK, NEW p \in Paths, open(p) = "ok",
           NEW buf \in DataChoices, NEW offset \in OffsetChoices,
           NEW e, e = Entry(p),
           NEW size, size = NewSize(e, buf, offset),
           NEW buffer, buffer = FileBuffer(e, buf, offset)
    PROVE  /\ Exists(p) /\ ~e.dir /\ e \in Entries
           /\ offset \in Nat /\ buf \in Seq(Units) /\ Len(buf) \in Nat \ {0}
           /\ size \in Nat \ {0} /\ offset + Len(buf) <= size /\ e.size <= size
           /\ size = offset + Len(buf) \/ size = e.size
           /\ buffer \in Seq(Contents) /\ Len(buffer) = size
  <1>1. Exists(p) /\ ~e.dir
    BY DEF open
  <1>2. e \in Entries /\ e.size \in Nat
    BY <1>1, EntryType
  <1>3. offset \in Nat /\ buf \in Seq(Units) /\ buf # <<>>
    BY CallsAssumption
  <1>4. Len(buf) \in Nat \ {0}
    BY <1>3
  <1> DEFINE a == offset + Len(buf)
             b == e.size
  <1>5. a \in Nat /\ b \in Nat /\ a # 0
    BY <1>2, <1>3, <1>4
  <1>6. size \in {a, b} /\ a <= size /\ b <= size
    <2>1. \E x \in {a, b} : \A y \in {a, b} : x >= y
      <3>1. CASE a >= b
        BY <3>1, <1>5
      <3>2. CASE b >= a
        BY <3>2, <1>5
      <3> QED
        BY <3>1, <3>2, <1>5
    <2>2. size = Max({a, b})
      BY DEF NewSize
    <2> HIDE DEF a, b
    <2>3. size \in {a, b} /\ \A y \in {a, b} : size >= y
      BY <2>1, <2>2 DEF Max
    <2> QED
      BY <2>3, <1>5
  <1>7. size \in Nat \ {0}
    BY <1>5, <1>6
  <1>8. buffer \in Seq(Contents) /\ Len(buffer) = size
    <2> DEFINE cells == Cells(e.start)
               old == FileContent(e, size, Zero)
    <2>1. PICK m \in Nat : m = Len(cells) /\ cells \in [1 .. m -> Contents]
      <3>1. cells \in Seq(Contents)
        BY CellsType
      <3> QED
        BY <3>1
    <2>2. Zero \in Contents /\ Units \subseteq Contents
      BY DEF Contents
    <2>3. old \in [1 .. size -> Contents]
      <3>1. old = [k \in 1 .. size |->
                     IF k <= e.size /\ k <= Len(cells) THEN cells[k] ELSE Zero]
        BY DEF FileContent
      <3>2. \A k \in 1 .. size :
              (IF k <= e.size /\ k <= Len(cells) THEN cells[k] ELSE Zero) \in Contents
        BY <2>1, <2>2
      <3> QED
        BY <3>1, <3>2
    <2> HIDE DEF cells, old
    <2>4. buffer = [k \in 1 .. size |->
                      IF k > offset /\ k <= offset + Len(buf) THEN buf[k - offset]
                                                              ELSE old[k]]
      BY <2>3 DEF FileBuffer, old
    <2>5. \A k \in 1 .. size :
            (IF k > offset /\ k <= offset + Len(buf) THEN buf[k - offset]
                                                     ELSE old[k]) \in Contents
      <3> TAKE k \in 1 .. size
      <3>1. CASE k > offset /\ k <= offset + Len(buf)
        <4>1. k - offset \in 1 .. Len(buf)
          BY <3>1, <1>3, <1>4
        <4>2. buf[k - offset] \in Units
          BY <4>1, <1>3
        <4> QED
          BY <3>1, <4>2, <2>2
      <3>2. CASE ~(k > offset /\ k <= offset + Len(buf))
        BY <3>2, <2>3
      <3> QED
        BY <3>1, <3>2
    <2>6. buffer \in [1 .. size -> Contents]
      BY <2>4, <2>5
    <2> QED
      BY <2>6, <1>7
  <1> QED
    BY <1>1, <1>2, <1>3, <1>4, <1>6, <1>7, <1>8

NewFileSlot(p, e, first, size) ==
    OldSlot(p, [e EXCEPT !.start = first, !.size = size])

LEMMA SlotInIsUpdate ==
    ASSUME VolumeOK, NEW p \in Paths, Exists(p), NEW x \in Contents
    PROVE  OldSlot(p, x) \in SlotUpdates
  <1>1. ParentDir(p) \in Nat /\ SlotIn(ParentDir(p), p) \in Nat
    <2>1. Len(read_directory(ParentDir(p))) \in Nat
      BY CellsType
    <2> QED
      BY <2>1, EntryType
  <1> QED
    BY <1>1 DEF OldSlot, SlotUpdate, SlotUpdates

(* The disk that write leads to: u once the chains are rebuilt, w once the *)
(* entry is updated too.                                                   *)
LEMMA WriteRuns ==
    ASSUME VolumeOK, NEW p \in Paths, open(p) = "ok",
           NEW buf \in DataChoices, NEW offset \in OffsetChoices,
           NEW e, e = Entry(p),
           NEW size, size = NewSize(e, buf, offset),
           NEW buffer, buffer = FileBuffer(e, buf, offset),
           NEW chain, chain = Allocated(e, size),
           NEW P, NEW Q, NEW C, NEW S, Tame(P, Q, C, S), Disk \in Q,
           Available(e, size) \subseteq C,
           \A c \in C : NewFileSlot(p, e, c, size) \in S,
           write(p, buf, offset)
    PROVE  \E u \in Q :
              /\ FilledTo(Freed(Disk, ToSet(OldChain(e, size))), u, chain, buffer,
                          Len(chain))
              /\ IF Len(chain) < ClustersNeeded(size)
                 THEN Running(u, P)'
                 ELSE /\ chain # <<>>
                      /\ \E w \in Q :
                           /\ w = After(u, NewFileSlot(p, e, chain[1], size))
                           /\ Running(w, P)'
  <1> DEFINE old == OldChain(e, size)
             v == Freed(Disk, ToSet(old))
             a == FreeingWrites(old)
             b == AllocationWrites(chain, buffer)
  <1>1. /\ Exists(p) /\ e \in Entries /\ size \in Nat \ {0}
        /\ buffer \in Seq(Contents)
    BY WriteChecked
  <1>2. /\ old \in Seq(Clusters) /\ ToSet(old) \subseteq C
        /\ chain \in Seq(C) /\ chain \in Seq(Clusters)
        /\ \A i, j \in 1 .. Len(chain) : chain[i] = chain[j] => i = j
        /\ Len(chain) <= ClustersNeeded(size)
    <2> DEFINE W == Available(e, size)
    <2>1. size \in Nat
      BY <1>1
    <2>2. /\ old \in Seq(Clusters) /\ chain \in Seq(W) /\ chain \in Seq(Clusters)
          /\ \A i, j \in 1 .. Len(chain) : chain[i] = chain[j] => i = j
          /\ Len(chain) <= ClustersNeeded(size)
      <3>1. /\ W = Available(e, size)
            /\ old = OldChain(e, size)
        OBVIOUS
      <3> HIDE DEF W, old
      <3> QED
        BY <2>1, <3>1, AllocatedIs
    <2>3. W \subseteq C /\ ToSet(old) \subseteq W
      BY DEF Available
    <2> HIDE DEF W, old
    <2>4. chain \in Seq(C)
      BY <2>2, <2>3
    <2> QED
      BY <2>2, <2>3, <2>4
  <1>3. Runs(a, Disk, v, P) /\ v \in Q /\ a \in Seq(Updates)
    <2>1. old \in Seq(Clusters) /\ ToSet(old) \subseteq C
      BY <1>2
    <2> HIDE DEF old
    <2> QED
      BY <2>1, FreeingRuns
  <1> HIDE DEF old, a, v
  <1>4. /\ b \in Seq(Updates)
        /\ \E w \in Q : Runs(b, v, w, P) /\ FilledTo(v, w, chain, buffer, Len(chain))
    <2>1. \A i, j \in 1 .. Len(chain) : chain[i] = chain[j] => i = j
      BY <1>2
    <2>2. AllocationWrites(chain, buffer) = b
      BY DEF b
    <2>3. chain \in Seq(C) /\ buffer \in Seq(Contents)
      BY <1>1, <1>2
    <2> HIDE DEF b
    <2> QED
      BY <1>3, <2>1, <2>2, <2>3, AllocationRuns
  <1>5. PICK u \in Q : Runs(b, v, u, P) /\ FilledTo(v, u, chain, buffer, Len(chain))
    BY <1>4
  <1> HIDE DEF b
  <1>6. a \o b \in Seq(Updates)
    BY <1>3, <1>4
  <1>7. Runs(a \o b, Disk, u, P)
    BY <1>3, <1>4, <1>5, RunsConcat
  <1> DEFINE s == SlotWrite(ParentDir(p), SlotIn(ParentDir(p), p),
                            [e EXCEPT !.start = chain[1], !.size = size])
             x == NewFileSlot(p, e, chain[1], size)
  <1>8. IF Len(chain) < ClustersNeeded(size)
        THEN \E code : Answer("write", p, a \o b, code)
        ELSE \E code : Answer("write", p, (a \o b) \o s, code)
    BY DEF write, a, b, old
  <1>9. CASE Len(chain) < ClustersNeeded(size)
    <2>1. PICK code : Answer("write", p, a \o b, code)
      BY <1>8, <1>9
    <2>2. Running(u, P)'
      BY <2>1, <1>6, <1>7, RunningAnswer
    <2> QED
      BY <2>2, <1>5, <1>9 DEF v, old
  <1>10. CASE ~(Len(chain) < ClustersNeeded(size))
    <2>1. PICK code : Answer("write", p, (a \o b) \o s, code)
      BY <1>8, <1>10
    <2>2. chain # <<>> /\ chain[1] \in C
      <3>1. ClustersNeeded(size) # 0 /\ ClustersNeeded(size) \in Nat
        BY <1>1, NeededIs
      <3>2. Len(chain) # 0 /\ Len(chain) \in Nat
        BY <3>1, <1>2, <1>10
      <3> QED
        BY <3>2, <1>2
    <2>3. PICK w : w = After(u, x)
      OBVIOUS
    <2>4. Runs(s, u, w, P) /\ w \in Q /\ s \in Seq(Updates)
      <3>1. x \in S
        BY <2>2
      <3> DEFINE new == [e EXCEPT !.start = chain[1], !.size = size]
      <3>2. /\ x = SlotUpdate(ParentDir(p), SlotIn(ParentDir(p), p), new)
            /\ s = SlotWrite(ParentDir(p), SlotIn(ParentDir(p), p), new)
        BY DEF NewFileSlot, OldSlot
      <3> HIDE DEF s, x, new
      <3> QED
        BY <2>3, <3>1, <3>2, SlotRuns
    <2> HIDE DEF s, x
    <2>5. PICK q : q = (a \o b) \o s
      OBVIOUS
    <2>6. q \in Seq(Updates)
      BY <2>4, <2>5, <1>6
    <2>7. Runs(q, Disk, w, P)
      BY <2>4, <2>5, <1>6, <1>7, RunsConcat
    <2>8. Answer("write", p, q, code)
      BY <2>1, <2>5
    <2>9. Running(w, P)'
      BY <2>6, <2>7, <2>8, RunningAnswer
    <2> QED
      BY <2>2, <2>3, <2>4, <2>9, <1>5, <1>10 DEF v, old, x
  <1> QED
    BY <1>9, <1>10

-----------------------------------------------------------------------------
(* The steps of Next.                                                      *)

LEMMA NextSteps ==
    ASSUME Next
    PROVE  \/ \E p \in Paths :
                \/ create(p)
                \/ mkdir(p)
                \/ rmdir(p)
                \/ unlink(p)
                \/ \E buf \in DataChoices, offset \in OffsetChoices : write(p, buf, offset)
           \/ Flush
           \/ Return
           \/ Crash
  <1>1. (IF crashes = 0 THEN Paths ELSE CrashPaths) \subseteq Paths
    BY CallsAssumption
  <1> QED
    BY <1>1 DEF Next

LEMMA RunningRests ==
    ASSUME NEW w, w = Disk', pending' = <<>>, NEW P, w \in P
    PROVE  Running(w, P)'
  <1> DEFINE none == <<>>
  <1>1. none \in Seq(Updates) /\ Owes(none)'
    BY DEF Owes
  <1>2. Runs(none, w, w, P)
    BY RunsNone
  <1> HIDE DEF none
  <1>3. Runs(none, Disk, w, P)'
    BY <1>2 DEF Runs
  <1> QED
    BY <1>1, <1>3 DEF Running

(* A refused call writes nothing.                                          *)
LEMMA RefusedRuns ==
    ASSUME NEW op, NEW p, NEW code, Answer(op, p, <<>>, code),
           NEW w, w = Disk, NEW P, w \in P
    PROVE  Running(w, P)'
  <1> DEFINE none == <<>>
  <1>1. none \in Seq(Updates) /\ Runs(none, Disk, w, P) /\ Answer(op, p, none, code)
    BY RunsNone
  <1> HIDE DEF none
  <1> QED
    BY <1>1, RunningAnswer

(* The slots that the handlers of path p write are those of S.             *)
WritesSlots(p, S) ==
    /\ MakeRefusal(p) = "ok" => \A dir \in BOOLEAN : NewSlot(p, dir) \in S
    /\ Exists(p) => OldSlot(p, NoEntry) \in S
    /\ open(p) = "ok" => \A c \in Clusters, size \in Nat :
                            NewFileSlot(p, Entry(p), c, size) \in S

LEMMA SlotsAreUpdates ==
    ASSUME VolumeOK, NEW p \in Paths
    PROVE  WritesSlots(p, SlotUpdates)
  <1>1. ASSUME MakeRefusal(p) = "ok", NEW dir \in BOOLEAN
        PROVE  NewSlot(p, dir) \in SlotUpdates
    BY <1>1, MakeChecked
  <1>2. Exists(p) => OldSlot(p, NoEntry) \in SlotUpdates
    BY SlotInIsUpdate DEF Contents
  <1>3. ASSUME open(p) = "ok", NEW c \in Clusters, NEW size \in Nat
        PROVE  NewFileSlot(p, Entry(p), c, size) \in SlotUpdates
    <2>1. PICK e : e = Entry(p)
      OBVIOUS
    <2>2. Exists(p) /\ e \in Entries
      BY <1>3, <2>1, EntryType DEF open
    <2>3. [e EXCEPT !.start = c, !.size = size] \in Contents
      BY <2>2, ClustersAreFinite DEF Entries, Contents
    <2>4. NewFileSlot(p, e, c, size) \in SlotUpdates
      BY <2>2, <2>3, SlotInIsUpdate DEF NewFileSlot
    <2> QED
      BY <2>1, <2>4
  <1> QED
    BY <1>1, <1>2, <1>3 DEF WritesSlots

(* Whatever the writes keep, every handler keeps.                          *)
LEMMA HandlersKeep ==
    ASSUME VolumeOK, NEW p \in Paths,
           \/ create(p)
           \/ mkdir(p)
           \/ rmdir(p)
           \/ unlink(p)
           \/ \E buf \in DataChoices, offset \in OffsetChoices : write(p, buf, offset),
           NEW P, NEW Q, NEW S, Tame(P, Q, Clusters, S), Disk \in Q,
           WritesSlots(p, S)
    PROVE  \E w \in Q : Running(w, P)'
  <1>1. PICK v \in Q : v = Disk /\ v \in P
    BY DEF Tame
  <1>2. ASSUME NEW op, NEW code, Answer(op, p, <<>>, code)
        PROVE  \E w \in Q : Running(w, P)'
    <2>1. Running(v, P)'
      BY <1>1, <1>2, RefusedRuns
    <2> QED
      BY <2>1
  <1>3. ASSUME NEW op, NEW code, NEW w \in Q, NEW writes \in Seq(Updates),
               Answer(op, p, writes, code), Runs(writes, Disk, w, P)
        PROVE  \E x \in Q : Running(x, P)'
    <2>1. Running(w, P)'
      BY <1>3, RunningAnswer
    <2> QED
      BY <2>1
  <1>4. CASE create(p)
    <2>1. CASE MakeRefusal(p) = "ok"
      <3>1. LowestFree \in Clusters /\ NewSlot(p, FALSE) \in S
        BY <2>1, MakeChecked DEF WritesSlots
      <3>2. PICK w : w = SetFat(After(Disk, NewSlot(p, FALSE)), LowestFree, EOC)
        OBVIOUS
      <3>3. PICK writes : writes = EntryWrites(p, FALSE)
        OBVIOUS
      <3>4. writes \in Seq(Updates) /\ Runs(writes, Disk, w, P) /\ w \in Q
        BY <2>1, <3>1, <3>2, <3>3, EntryRuns
      <3>5. \E code : Answer("create", p, writes, code)
        BY <1>4, <2>1, <3>3 DEF create
      <3> QED
        BY <3>4, <3>5, <1>3
    <2>2. CASE MakeRefusal(p) # "ok"
      <3>1. \E code : Answer("create", p, <<>>, code)
        BY <1>4, <2>2 DEF create
      <3> QED
        BY <3>1, <1>2
    <2> QED
      BY <2>1, <2>2
  <1>5. CASE mkdir(p)
    <2>1. CASE MakeRefusal(p) = "ok"
      <3>1. LowestFree \in Clusters /\ NewSlot(p, TRUE) \in S
        BY <2>1, MakeChecked DEF WritesSlots
      <3>2. PICK cells : cells = EmptyDirectory(LowestFree, ParentDir(p))
        OBVIOUS
      <3>3. PICK w : w = After(SetFat(After(Disk, NewSlot(p, TRUE)), LowestFree, EOC),
                               AreaUpdate(LowestFree, cells))
        OBVIOUS
      <3>4. PICK writes : writes = EntryWrites(p, TRUE) \o AreaWrite(LowestFree, cells)
        OBVIOUS
      <3>5. writes \in Seq(Updates) /\ Runs(writes, Disk, w, P) /\ w \in Q
        BY <2>1, <3>1, <3>2, <3>3, <3>4, DirectoryRuns
      <3>6. \E code : Answer("mkdir", p, writes, code)
        BY <1>5, <2>1, <3>2, <3>4 DEF mkdir
      <3> QED
        BY <3>5, <3>6, <1>3
    <2>2. CASE MakeRefusal(p) # "ok"
      <3>1. \E code : Answer("mkdir", p, <<>>, code)
        BY <1>5, <2>2 DEF mkdir
      <3> QED
        BY <3>1, <1>2
    <2> QED
      BY <2>1, <2>2
  <1>6. ASSUME Exists(p), NEW op, NEW code, Answer(op, p, RemovalWrites(p), code)
        PROVE  \E w \in Q : Running(w, P)'
    <2>1. ToSet(Chain(Entry(p).start)) \subseteq Clusters /\ OldSlot(p, NoEntry) \in S
      BY <1>6, ChainType DEF WritesSlots
    <2>2. PICK w : w = After(Freed(Disk, ToSet(Chain(Entry(p).start))), OldSlot(p, NoEntry))
      OBVIOUS
    <2>3. PICK writes : writes = RemovalWrites(p)
      OBVIOUS
    <2>4. writes \in Seq(Updates) /\ Runs(writes, Disk, w, P) /\ w \in Q
      BY <2>1, <2>2, <2>3, <1>6, RemovalRuns
    <2>5. Answer(op, p, writes, code)
      BY <1>6, <2>3
    <2> QED
      BY <2>4, <2>5, <1>3
  <1>7. CASE rmdir(p)
    <2>1. CASE RmdirRefusal(p) = "ok"
      <3>1. Exists(p) /\ \E code : Answer("rmdir", p, RemovalWrites(p), code)
        BY <1>7, <2>1 DEF rmdir, RmdirRefusal
      <3> QED
        BY <3>1, <1>6
    <2>2. CASE RmdirRefusal(p) # "ok"
      <3>1. \E code : Answer("rmdir", p, <<>>, code)
        BY <1>7, <2>2 DEF rmdir
      <3> QED
        BY <3>1, <1>2
    <2> QED
      BY <2>1, <2>2
  <1>8. CASE unlink(p)
    <2>1. CASE UnlinkRefusal(p) = "ok"
      <3>1. Exists(p) /\ \E code : Answer("unlink", p, RemovalWrites(p), code)
        BY <1>8, <2>1 DEF unlink, UnlinkRefusal
      <3> QED
        BY <3>1, <1>6
    <2>2. CASE UnlinkRefusal(p) # "ok"
      <3>1. \E code : Answer("unlink", p, <<>>, code)
        BY <1>8, <2>2 DEF unlink
      <3> QED
        BY <3>1, <1>2
    <2> QED
      BY <2>1, <2>2
  <1>9. ASSUME NEW buf \in DataChoices, NEW offset \in OffsetChoices, write(p, buf, offset)
        PROVE  \E w \in Q : Running(w, P)'
    <2>1. CASE open(p) = "ok"
      <3>1. PICK e, size : e = Entry(p) /\ size = NewSize(e, buf, offset)
        OBVIOUS
      <3>2. PICK buffer, chain : /\ buffer = FileBuffer(e, buf, offset)
                                 /\ chain = Allocated(e, size)
        OBVIOUS
      <3>3. Exists(p) /\ e \in Entries /\ size \in Nat
        BY <2>1, <3>1, <3>2, WriteChecked
      <3>4. Available(e, size) \subseteq Clusters
        <4>1. ToSet(OldChain(e, size)) \subseteq Clusters
          <5>1. PICK A : A = Available(e, size)
            OBVIOUS
          <5> QED
            BY <5>1, <3>2, <3>3, AllocatedIs
        <4> QED
          BY <4>1 DEF FreeClusters, Available
      <3>5. \A c \in Clusters : NewFileSlot(p, e, c, size) \in S
        BY <2>1, <3>1, <3>3 DEF WritesSlots
      <3>6. \E u \in Q :
              IF Len(chain) < ClustersNeeded(size)
              THEN Running(u, P)'
              ELSE \E w \in Q : Running(w, P)'
        BY <2>1, <1>9, <3>1, <3>2, <3>4, <3>5, WriteRuns
      <3> QED
        BY <3>6
    <2>2. CASE open(p) # "ok"
      <3>1. Answer("write", p, <<>>, "ENOENT")
        BY <1>9, <2>2 DEF write
      <3> QED
        BY <3>1, <1>2
    <2> QED
      BY <2>1, <2>2
  <1> QED
    BY <1>4, <1>5, <1>7, <1>8, <1>9

-----------------------------------------------------------------------------
(* The copies of the FAT.                                                  *)

Differing(u) == {c \in Clusters : \E f \in Copies : u.fat[f][c] # u.fat[1][c]}

Calm(D) == {u \in Volumes : Differing(u) \subseteq D}

Near(D) == {u \in Volumes : \E c : Differing(u) \subseteq D \cup {c}}

LEMMA MirrorsTame ==
    ASSUME NEW D
    PROVE  Tame(Near(D), Calm(D), Clusters, SlotUpdates)
  <1>1. Calm(D) \subseteq Near(D) /\ Near(D) \subseteq Volumes
    BY DEF Calm, Near
  <1>2. 1 \in Copies
    BY Geometry DEF Copies
  <1>3. ASSUME NEW u \in Calm(D), NEW c \in Clusters, NEW x \in Nat
        PROVE  /\ SetFat(u, c, x) \in Calm(D)
               /\ \A m \in 0 .. NumberOfFats : PartFat(u, c, x, m) \in Near(D)
    <2>1. u \in Disks(Contents) /\ Differing(u) \subseteq D
          /\ u.fat \in [Copies -> [Clusters -> Nat]]
      BY DEF Calm, Volumes, Disks
    <2>2. ASSUME NEW w \in Disks(Contents),
                 \A f \in Copies, b \in Clusters \ {c} : w.fat[f][b] = u.fat[f][b]
          PROVE  Differing(w) \subseteq Differing(u) \cup {c}
      BY <2>2, <1>2 DEF Differing
    <2>3. /\ SetFat(u, c, x) \in Disks(Contents)
          /\ \A f \in Copies, b \in Clusters \ {c} : SetFat(u, c, x).fat[f][b] = u.fat[f][b]
          /\ \A f \in Copies : SetFat(u, c, x).fat[f][c] = x
      BY <2>1, PartFatType DEF SetFat
    <2>4. SetFat(u, c, x) \in Calm(D)
      <3>1. c \notin Differing(SetFat(u, c, x))
        BY <2>3, <1>2 DEF Differing
      <3>2. Differing(SetFat(u, c, x)) \subseteq Differing(u) \cup {c}
        BY <2>2, <2>3
      <3> QED
        BY <3>1, <3>2, <2>1, <2>3 DEF Calm, Volumes
    <2>5. ASSUME NEW m \in 0 .. NumberOfFats
          PROVE  PartFat(u, c, x, m) \in Near(D)
      <3>1. m \in Nat
        BY Geometry
      <3>2. PartFat(u, c, x, m) \in Disks(Contents)
        BY <2>1, <3>1, PartFatType
      <3>3. \A f \in Copies, b \in Clusters \ {c} :
              PartFat(u, c, x, m).fat[f][b] = u.fat[f][b]
        BY <2>1 DEF PartFat
      <3>4. Differing(PartFat(u, c, x, m)) \subseteq Differing(u) \cup {c}
        BY <3>2, <3>3, <2>2
      <3> QED
        BY <3>2, <3>4, <2>1 DEF Near, Volumes
    <2> QED
      BY <2>4, <2>5
  <1>4. ASSUME NEW u \in Calm(D), NEW x \in Updates, x.to # "fat"
        PROVE  After(u, x) \in Calm(D)
    <2>1. u \in Disks(Contents) /\ Differing(u) \subseteq D
      BY DEF Calm, Volumes
    <2>2. After(u, x) \in Disks(Contents)
      BY <2>1, AfterType DEF Updates
    <2>3. After(u, x).fat = u.fat
      BY <1>4 DEF After
    <2> QED
      BY <2>1, <2>2, <2>3 DEF Calm, Differing, Volumes
  <1>5. ASSUME NEW u \in Calm(D), NEW c \in Clusters, NEW cells \in Seq(Contents)
        PROVE  After(u, AreaUpdate(c, cells)) \in Calm(D)
    <2>1. AreaUpdate(c, cells) \in Updates /\ AreaUpdate(c, cells).to # "fat"
      BY DEF AreaUpdate, Updates, Writes
    <2> QED
      BY <2>1, <1>4
  <1>6. ASSUME NEW u \in Calm(D), NEW s \in SlotUpdates
        PROVE  After(u, s) \in Calm(D)
    <2>1. s \in Updates /\ s.to # "fat"
      BY DEF SlotUpdates, Updates, Writes
    <2> QED
      BY <2>1, <1>4
  <1> QED
    BY <1>1, <1>3, <1>5, <1>6 DEF Tame

(* The inductive invariant: the writes under way lead to a disk where the  *)
(* copies differ at no more entries than the program was killed, and on    *)
(* the way they differ at one more.                                        *)
MirrorInv ==
    /\ crashes \in Nat
    /\ \E D \in SUBSET Clusters :
          /\ Cardinality(D) <= crashes
          /\ \E w \in Calm(D) : Running(w, Near(D))

LEMMA MirrorVolume ==
    ASSUME MirrorInv
    PROVE  VolumeOK
  <1>1. PICK D, w : Running(w, Near(D))
    BY DEF MirrorInv
  <1> QED
    BY <1>1, RunningIn DEF VolumeOK, Near

LEMMA MirrorInit ==
    ASSUME Init
    PROVE  MirrorInv
  <1>1. Disk \in Volumes
    BY FormattedOK DEF Init, VolumeOK
  <1>2. Differing(Disk) \subseteq {}
    <2>1. 1 \in Copies
      BY Geometry DEF Copies
    <2> QED
      BY <2>1 DEF Init, FormattedVolume, Differing, Disk
  <1>3. Disk \in Calm({}) /\ Disk \in Near({})
    BY <1>1, <1>2 DEF Calm, Near
  <1>4. Running(Disk, Near({}))
    BY <1>3, RunningRest DEF Init
  <1>5. Cardinality({}) = 0
    BY FS_EmptySet
  <1>6. crashes = 0
    BY DEF Init
  <1> QED
    BY <1>3, <1>4, <1>5, <1>6 DEF MirrorInv

LEMMA MirrorNext ==
    ASSUME MirrorInv, [Next]_vars
    PROVE  MirrorInv'
  <1>1. PICK D \in SUBSET Clusters :
          /\ Cardinality(D) <= crashes
          /\ \E w \in Calm(D) : Running(w, Near(D))
    BY DEF MirrorInv
  <1>2. PICK w \in Calm(D) : Running(w, Near(D))
    BY <1>1
  <1>3. crashes \in Nat /\ VolumeOK
    BY MirrorVolume DEF MirrorInv
  <1>4. ASSUME crashes' = crashes, NEW x \in Calm(D), Running(x, Near(D))'
        PROVE  MirrorInv'
    BY <1>1, <1>3, <1>4 DEF MirrorInv
  <1>5. CASE UNCHANGED vars
    <2>1. Disk' = Disk /\ pending' = pending /\ crashes' = crashes
      BY <1>5 DEF vars, volume, Disk
    <2>2. Running(w, Near(D))'
      BY <2>1, <1>2 DEF Running, Owes
    <2> QED
      BY <2>1, <2>2, <1>4
  <1>6. ASSUME NEW p \in Paths,
               \/ create(p)
               \/ mkdir(p)
               \/ rmdir(p)
               \/ unlink(p)
               \/ \E buf \in DataChoices, offset \in OffsetChoices : write(p, buf, offset)
        PROVE  MirrorInv'
    <2>1. pending = <<>> /\ crashes' = crashes
      BY <1>6 DEF create, mkdir, rmdir, unlink, write, Answer, Idle
    <2>2. Disk \in Calm(D)
      BY <2>1, <1>2, RunningIdle
    <2>3. \E x \in Calm(D) : Running(x, Near(D))'
      <3>1. PICK P, Q, S : /\ P = Near(D) /\ Q = Calm(D) /\ S = SlotUpdates
                           /\ Tame(P, Q, Clusters, S)
        BY MirrorsTame
      <3>2. WritesSlots(p, S) /\ Disk \in Q
        BY <2>2, <3>1, <1>3, SlotsAreUpdates
      <3>3. \E x \in Q : Running(x, P)'
        BY <3>1, <3>2, <1>3, <1>6, HandlersKeep
      <3> QED
        BY <3>1, <3>3
    <2> QED
      BY <2>1, <2>3, <1>4
  <1>7. CASE Flush
    <2>1. Running(w, Near(D))'
      BY <1>2, <1>7, RunningFlush
    <2> QED
      BY <2>1, <1>4, <1>7 DEF Flush
  <1>8. CASE Return
    <2>1. Disk' = w /\ w \in Near(D) /\ pending' = <<>> /\ crashes' = crashes
      BY <1>2, <1>8, RunningReturn DEF Return
    <2>2. Running(w, Near(D))'
      BY <2>1, RunningRests
    <2> QED
      BY <2>1, <2>2, <1>4
  <1>9. CASE Crash
    <2>1. PICK v : v = Disk'
      OBVIOUS
    <2>2. v = Disk /\ pending' = <<>> /\ crashes' = crashes + 1
      BY <1>9, <2>1 DEF Crash, Disk, volume
    <2>3. v \in Near(D)
      BY <2>2, <1>2, RunningIn
    <2>4. PICK c : Differing(v) \subseteq D \cup {c}
      BY <2>3 DEF Near
    <2> DEFINE E == IF c \in Clusters THEN D \cup {c} ELSE D
    <2>5. E \in SUBSET Clusters /\ Differing(v) \subseteq E
      BY <2>4 DEF Differing
    <2>6. Cardinality(E) <= crashes + 1
      <3>1. IsFiniteSet(D)
        BY ClustersAreFinite, FS_Subset
      <3>2. /\ Cardinality(D) \in Nat
            /\ Cardinality(D \cup {c}) = IF c \in D THEN Cardinality(D) ELSE Cardinality(D) + 1
        BY <3>1, FS_CardinalityType, FS_AddElement
      <3> QED
        BY <3>2, <1>1, <1>3
    <2> HIDE DEF E
    <2>7. v \in Calm(E) /\ v \in Near(E)
      BY <2>3, <2>5 DEF Calm, Near
    <2>8. Running(v, Near(E))'
      BY <2>1, <2>2, <2>7, RunningRests
    <2> QED
      BY <2>2, <2>5, <2>6, <2>7, <2>8, <1>3 DEF MirrorInv
  <1> QED
    BY <1>5, <1>6, <1>7, <1>8, <1>9, NextSteps

(* However calls, writes and kills follow one another, the copies of the   *)
(* FAT differ at no more entries than the program was killed, and at one   *)
(* more while a handler writes (fat_fuse.c:215, write_fat_entry).          *)
THEOREM Mirrors == Spec => []MirrorsAgree
  <1>1. MirrorInv => MirrorsAgree
    <2> SUFFICES ASSUME MirrorInv PROVE MirrorsAgree
      OBVIOUS
    <2>1. PICK D \in SUBSET Clusters :
            /\ Cardinality(D) <= crashes
            /\ \E w \in Calm(D) : Running(w, Near(D))
      BY DEF MirrorInv
    <2>2. PICK w \in Calm(D) : Running(w, Near(D))
      BY <2>1
    <2>3. IsFiniteSet(D) /\ Cardinality(D) \in Nat /\ crashes \in Nat
      BY ClustersAreFinite, FS_Subset, FS_CardinalityType DEF MirrorInv
    <2>4. Differing(Disk) = {c \in Clusters : \E f \in Copies : fat[f][c] # fat[1][c]}
      BY DEF Differing, Disk
    <2>5. CASE Idle
      <3>1. Differing(Disk) \subseteq D
        BY <2>2, <2>5, RunningIdle DEF Idle, Calm
      <3>2. Cardinality(Differing(Disk)) <= Cardinality(D) /\ Cardinality(Differing(Disk)) \in Nat
        BY <3>1, <2>3, FS_Subset, FS_CardinalityType
      <3>3. Cardinality(Differing(Disk)) <= crashes + 0
        BY <3>2, <2>1, <2>3
      <3> QED
        BY <3>3, <2>4, <2>5 DEF MirrorsAgree
    <2>6. CASE ~Idle
      <3>1. PICK c : Differing(Disk) \subseteq D \cup {c}
        BY <2>2, RunningIn DEF Near
      <3>2. /\ IsFiniteSet(D \cup {c})
            /\ Cardinality(D \cup {c}) = IF c \in D THEN Cardinality(D) ELSE Cardinality(D) + 1
        BY <2>3, FS_AddElement
      <3>3. Cardinality(Differing(Disk)) <= Cardinality(D \cup {c})
            /\ Cardinality(Differing(Disk)) \in Nat
        BY <3>1, <3>2, FS_Subset, FS_CardinalityType
      <3>4. Cardinality(Differing(Disk)) <= crashes + 1
        BY <3>2, <3>3, <2>1, <2>3
      <3> QED
        BY <3>4, <2>4, <2>6 DEF MirrorsAgree
    <2> QED
      BY <2>5, <2>6
  <1>2. Init => MirrorInv
    BY MirrorInit
  <1>3. MirrorInv /\ [Next]_vars => MirrorInv'
    BY MirrorNext
  <1> QED
    BY <1>1, <1>2, <1>3, PTL DEF Spec

-----------------------------------------------------------------------------
(* The handlers on a sound volume.                                         *)

LEMMA ParentIn ==
    ASSUME NEW DS, NEW path, Good(Disk, DS, path), NEW p \in Paths
    PROVE  ParentDir(p) \in DS \cup {Lost}
  <1>1. PICK tokens, n : tokens = Front(p) /\ n = Len(p) - 1
    OBVIOUS
  <1>2. /\ n \in Nat /\ Len(tokens) = n /\ DOMAIN tokens = 1 .. n
        /\ \A k \in 1 .. n : tokens[k] \notin {Dot, DotDot}
    <2>1. \A k \in 1 .. n : tokens[k] = p[k] /\ k \in 1 .. Len(p)
      BY <1>1, PathIs
    <2> QED
      BY <1>1, <2>1, PathIs
  <1>3. PICK walk :
          /\ walk[0] = RootDir
          /\ \A k \in 1 .. n : walk[k] = Walked(walk[k - 1], tokens[k])
          /\ change_dir(RootDir, tokens) = walk[n]
    BY <1>2, ChangeDirIs
  <1> DEFINE T == {k \in 0 .. n : walk[k] \in DS \cup {Lost}}
  <1>4. 0 \in T
    BY <1>2, <1>3 DEF Good
  <1>5. \A k \in 0 .. n - 1 : k \in T => k + 1 \in T
    <2> TAKE k \in 0 .. n - 1
    <2> HAVE k \in T
    <2>1. k + 1 \in 1 .. n /\ (k + 1) - 1 = k /\ k + 1 \in 0 .. n
      BY <1>2
    <2>2. PICK c, name : c = walk[k] /\ name = tokens[k + 1]
      OBVIOUS
    <2>3. walk[k + 1] = Walked(c, name) /\ name \notin {Dot, DotDot}
          /\ c \in DS \cup {Lost}
      BY <2>1, <2>2, <1>2, <1>3
    <2>4. CASE c = Lost
      BY <2>1, <2>3, <2>4 DEF Walked
    <2>5. CASE c # Lost
      <3>1. Enter(c, name) \in DS \cup {Lost}
        BY <2>3, <2>5, EnterIn
      <3> QED
        BY <2>1, <2>3, <2>5, <3>1 DEF Walked
    <2> QED
      BY <2>4, <2>5
  <1> HIDE DEF T
  <1>6. n \in T
    <2>1. n \in Nat
      BY <1>2
    <2>2. \A k \in 0 .. n : k \in T
      BY ONLY <2>1, <1>4, <1>5, UpTo
    <2> QED
      BY <2>1, <2>2
  <1> QED
    BY <1>1, <1>3, <1>6 DEF T, ParentDir

LEMMA RefOf ==
    ASSUME NEW DS, NEW path, Good(Disk, DS, path), NEW p \in Paths, Exists(p),
           NEW r, r = <<ParentDir(p), SlotIn(ParentDir(p), p)>>
    PROVE  /\ r \in Refs(Disk, DS) /\ r[1] \in DS
           /\ r[1] = ParentDir(p) /\ r[2] = SlotIn(ParentDir(p), p)
           /\ Entry(p) = At(Disk, r) /\ At(Disk, r).name = Last(p)
           /\ Chain(Entry(p).start) = path[r]
  <1>1. PICK d, i, name : /\ d = ParentDir(p) /\ i = SlotIn(d, p) /\ name = Last(p)
    OBVIOUS
  <1>2. d # Lost /\ i # 0 /\ i = find_entry_by_name(read_directory(d), name)
    BY <1>1 DEF Exists, SlotIn
  <1>3. d \in DS /\ name \notin {Dot, DotDot}
    <2>1. Len(p) \in 1 .. Len(p) /\ name = p[Len(p)]
      BY <1>1, PathIs
    <2> QED
      BY <2>1, <1>1, <1>2, ParentIn, PathIs
  <1>4. /\ <<d, i>> \in Refs(Disk, DS)
        /\ read_directory(d)[i] = At(Disk, <<d, i>>)
        /\ At(Disk, <<d, i>>).name = name
    BY <1>2, <1>3, FoundRef
  <1>5. r = <<d, i>> /\ Entry(p) = read_directory(d)[i]
    BY <1>1 DEF Entry
  <1>6. OnPath(Disk, path[r], At(Disk, r).start)
    BY <1>4, <1>5 DEF Good
  <1>7. Chain(At(Disk, r).start) = path[r]
    BY <1>6, ChainIsPath
  <1> QED
    BY <1>1, <1>3, <1>4, <1>5, <1>7

(* What a handler makes of a sound volume u: w.                            *)
Removed(u, DS, path, w, r) ==
    /\ Good(w, Shrunk(DS, At(u, r)), path)
    /\ r \in Refs(u, DS)
    /\ Refs(w, Shrunk(DS, At(u, r))) = Refs(u, DS) \ {r}
    /\ \A s \in Refs(u, DS) \ {r} : At(w, s) = At(u, s)
    /\ \A b \in Clusters \ {r[1]} : w.area[b] = u.area[b]
    /\ r[1] \in Shrunk(DS, At(u, r))

Rewritten(u, DS, path, w, r, p) ==
    /\ Good(w, DS, WithPath(path, Refs(u, DS), r, p))
    /\ r \in Refs(u, DS) /\ ~At(u, r).dir /\ ~At(w, r).dir
    /\ At(w, r).name = At(u, r).name
    /\ Refs(w, DS) = Refs(u, DS)
    /\ \A s \in Refs(u, DS) \ {r} : At(w, s) = At(u, s)
    /\ \A s \in Refs(u, DS) \ {r} : ~At(u, s).dir =>
          \A i \in 1 .. Len(path[s]) : w.area[path[s][i]] = u.area[path[s][i]]

LEMMA MakeIsSound ==
    ASSUME NEW DS, NEW path, Good(Disk, DS, path), NEW p \in Paths,
           NEW dir \in BOOLEAN, MakeRefusal(p) = "ok",
           NEW e, e = NewEntry(p, dir),
           NEW r, r = <<ParentDir(p), FreeSlot(read_directory(ParentDir(p)))>>,
           NEW v, v = SetFat(After(Disk, NewSlot(p, dir)), LowestFree, EOC),
           NEW w, w = IF dir THEN After(v, AreaUpdate(LowestFree,
                                              EmptyDirectory(LowestFree, ParentDir(p))))
                      ELSE v
    PROVE  Added(Disk, DS, path, w, r, e)
  <1>1. VolumeOK
    BY DEF Good, VolumeOK
  <1>2. PICK u, d, i, c : /\ u = Disk /\ d = ParentDir(p)
                          /\ i = FreeSlot(read_directory(d)) /\ c = LowestFree
    OBVIOUS
  <1>3. /\ d \in Nat /\ i \in 1 .. Len(read_directory(d))
        /\ read_directory(d)[i] = NoEntry
        /\ c \in Clusters /\ u.fat[1][c] = Free
        /\ e \in Entries /\ EmptyDirectory(c, d) \in Seq(Contents)
    BY <1>1, <1>2, MakeChecked DEF get_fat_entry, Disk
  <1>4. d \in DS /\ read_directory(d) = Slots(u, d) /\ d \in Clusters \cup {RootDir}
        /\ u \in Volumes /\ Good(u, DS, path)
    <2>1. d # Lost
      BY <1>3 DEF Lost
    <2>2. d \in DS
      BY <2>1, <1>2, ParentIn
    <2> QED
      BY <2>2, <1>2, DirectoryIs DEF Good
  <1>5. i \in DOMAIN Slots(u, d) /\ Slots(u, d)[i] = NoEntry
    BY <1>3, <1>4, SlotsType
  <1>6. /\ e.start = c /\ e.dir = dir /\ e.name = format_to_fat_name(Last(p))
        /\ IsLive(e)
    <2>1. e.start = c /\ e.dir = dir /\ e.name = format_to_fat_name(Last(p))
      BY <1>2 DEF NewEntry
    <2>2. Len(p) \in 1 .. Len(p) /\ Last(p) = p[Len(p)]
      BY PathIs
    <2>3. e.name \notin {Dot, DotDot}
      BY <2>1, <2>2, PathIs
    <2> QED
      BY <1>3, <2>1, <2>3, EntryIsLive
  <1>7. PICK cells : cells = EmptyDirectory(c, d)
    OBVIOUS
  <1>8. cells \in Seq(Contents) /\ NoneLive(cells)
    <2>1. DOMAIN cells = 1 .. DirEntriesPerCluster
      BY <1>7 DEF EmptyDirectory
    <2>2. ASSUME NEW k \in 1 .. DirEntriesPerCluster PROVE ~IsLive(cells[k])
      <3>1. CASE k = 1
        BY <1>7, <3>1 DEF EmptyDirectory, IsLive
      <3>2. CASE k = 2
        BY <1>7, <3>2 DEF EmptyDirectory, IsLive
      <3>3. CASE k # 1 /\ k # 2
        BY <1>7, <3>3 DEF EmptyDirectory, IsLive, IsEntry
      <3> QED
        BY <3>1, <3>2, <3>3
    <2> QED
      BY <1>3, <1>7, <2>1, <2>2 DEF NoneLive
  <1>9. /\ v = Entered(u, d, i, e, c)
        /\ w = Made(v, e, c, cells)
        /\ r = <<d, i>>
    BY <1>2, <1>6, <1>7 DEF NewSlot, Entered, Made
  <1>10. d \in DS /\ i \in DOMAIN Slots(u, d) /\ Slots(u, d)[i] = NoEntry
    BY <1>3, <1>4, <1>5
  <1>11. c \in Clusters /\ u.fat[1][c] = Free
    BY <1>3
  <1>12. e \in Entries /\ IsLive(e) /\ e.start = c
    BY <1>3, <1>6
  <1>13. cells \in Seq(Contents) /\ (e.dir => NoneLive(cells))
    BY <1>8
  <1>14. Added(u, DS, path, w, r, e)
    BY ONLY <1>4, <1>9, <1>10, <1>11, <1>12, <1>13, MakeGood
  <1> QED
    BY <1>2, <1>14

(* readdir lists every live entry, and nothing else.                       *)
LEMMA ListedIs ==
    ASSUME NEW d, NEW entries, entries = read_directory(d),
           NEW n \in Nat, Len(entries) = n, DOMAIN entries = 1 .. n
    PROVE  /\ \A k \in DOMAIN Listed(d) :
                Listed(d)[k] \in 1 .. n /\ IsLive(entries[Listed(d)[k]])
           /\ \A i \in 1 .. n : IsLive(entries[i]) =>
                \E k \in DOMAIN Listed(d) : Listed(d)[k] = i
           /\ \A j, k \in DOMAIN Listed(d) : Listed(d)[j] = Listed(d)[k] => j = k
           /\ DOMAIN readdir(d) = DOMAIN Listed(d)
           /\ \A k \in DOMAIN Listed(d) : readdir(d)[k] = entries[Listed(d)[k]].name
           /\ \E m \in Nat : DOMAIN Listed(d) = 1 .. m
  <1> DEFINE S == {i \in 1 .. n : IsLive(entries[i])}
  <1>1. Listed(d) = LowestFirst(S)
    BY DEF Listed, IsLive
  <1>2. S \subseteq Nat /\ IsFiniteSet(S)
    <2>1. IsFiniteSet(1 .. n)
      BY FS_Interval
    <2> QED
      BY <2>1, FS_Subset
  <1>3. \A i : i \in S <=> i \in 1 .. n /\ IsLive(entries[i])
    OBVIOUS
  <1> HIDE DEF S
  <1>4. PICK m : m = Cardinality(S)
    OBVIOUS
  <1>5. /\ m \in Nat /\ DOMAIN Listed(d) = 1 .. m
        /\ \A k \in 1 .. m : Listed(d)[k] \in S
        /\ \A c \in S : \E k \in 1 .. m : Listed(d)[k] = c
        /\ \A i, j \in 1 .. m : i < j => Listed(d)[i] < Listed(d)[j]
    BY <1>1, <1>2, <1>4, LowestFirstIs
  <1>6. \A j, k \in DOMAIN Listed(d) : Listed(d)[j] = Listed(d)[k] => j = k
    <2> SUFFICES ASSUME NEW j \in 1 .. m, NEW k \in 1 .. m, Listed(d)[j] = Listed(d)[k]
                 PROVE  j = k
      BY <1>5
    <2>1. Listed(d)[j] \in Nat
      BY <1>2, <1>5
    <2>2. ~(j < k) /\ ~(k < j)
      BY <2>1, <1>5
    <2> QED
      BY <2>2, <1>5
  <1> QED
    BY <1>3, <1>5, <1>6 DEF readdir

LEMMA EmptyIsBarren ==
    ASSUME NEW DS, NEW path, Good(Disk, DS, path), NEW d \in DS, readdir(d) = <<>>
    PROVE  Barren(Disk, d)
  <1> USE DEF Barren
  <1>1. PICK u, entries, n : /\ u = Disk /\ entries = Slots(u, d)
                             /\ n = Len(entries)
    OBVIOUS
  <1>2. entries = read_directory(d) /\ n \in Nat /\ DOMAIN entries = 1 .. n
    BY <1>1, DirectoryIs, SlotsType DEF Good
  <1>3. /\ DOMAIN readdir(d) = DOMAIN Listed(d)
        /\ \A i \in 1 .. n : IsLive(entries[i]) => \E k \in DOMAIN Listed(d) : TRUE
    BY <1>1, <1>2, ListedIs
  <1>4. DOMAIN readdir(d) = {}
    <2> DEFINE none == <<>>
    <2>1. DOMAIN none = {} /\ readdir(d) = none
      OBVIOUS
    <2> HIDE DEF none
    <2> QED
      BY <2>1
  <1> QED
    BY <1>1, <1>2, <1>3, <1>4

LEMMA RemovalIsSound ==
    ASSUME NEW DS, NEW path, Good(Disk, DS, path), NEW p \in Paths, Exists(p),
           Entry(p).dir => readdir(Entry(p).start) = <<>>,
           NEW r, r = <<ParentDir(p), SlotIn(ParentDir(p), p)>>,
           NEW w,
           w = After(Freed(Disk, ToSet(Chain(Entry(p).start))), OldSlot(p, NoEntry))
    PROVE  Removed(Disk, DS, path, w, r)
  <1>1. /\ r \in Refs(Disk, DS) /\ r[1] \in DS
        /\ r[1] = ParentDir(p) /\ r[2] = SlotIn(ParentDir(p), p)
        /\ Entry(p) = At(Disk, r)
        /\ Chain(Entry(p).start) = path[r]
    BY RefOf
  <1>2. PICK u, e, D2 : u = Disk /\ e = At(u, r) /\ D2 = Shrunk(DS, e)
    OBVIOUS
  <1>3. Good(u, DS, path) /\ r \in Refs(u, DS)
    BY <1>1, <1>2
  <1>4. w = Without(u, ToSet(path[r]), r)
    BY <1>1, <1>2 DEF OldSlot, Without
  <1>5. e.dir => Barren(u, e.start)
    <2> HAVE e.dir
    <2>1. e.start \in DS
      BY <1>2, <1>3 DEF Good
    <2>2. PICK d \in DS : d = e.start
      BY <2>1
    <2>3. readdir(d) = <<>>
      BY <1>1, <1>2, <2>2
    <2>4. Barren(Disk, d)
      BY <2>3, EmptyIsBarren
    <2> QED
      BY <2>2, <2>4, <1>2
  <1>6. /\ Good(w, D2, path)
        /\ Refs(w, D2) = Refs(u, DS) \ {r}
        /\ \A s \in Refs(w, D2) : At(w, s) = At(u, s)
        /\ \A b \in Clusters \ {r[1]} : w.area[b] = u.area[b]
        /\ r[1] \in D2
    BY ONLY <1>2, <1>3, <1>4, <1>5, RemoveGood
  <1> QED
    BY <1>2, <1>3, <1>6 DEF Removed

-----------------------------------------------------------------------------
(* write on a sound volume.                                                *)

(* What the allocation may take: free clusters and those of the old chain. *)
LEMMA Unowned ==
    ASSUME NEW u, NEW DS, NEW path, Good(u, DS, path),
           NEW r \in Refs(u, DS), ~At(u, r).dir,
           NEW old, old = <<>> \/ old = path[r],
           NEW c \in Clusters,
           u.fat[1][c] = Free \/ \E j \in 1 .. Len(old) : old[j] = c
    PROVE  /\ c \notin DS
           /\ \A s \in Refs(u, DS) \ {r} : \A i \in 1 .. Len(path[s]) : path[s][i] # c
           /\ u.fat[1][c] = Free \/ \E j \in 1 .. Len(path[r]) : path[r][j] = c
  <1>1. u.fat[1][c] = Free \/ \E j \in 1 .. Len(path[r]) : path[r][j] = c
    <2>1. CASE old = <<>>
      <3>1. ~ \E j \in 1 .. Len(old) : TRUE
        BY <2>1
      <3> QED
        BY <3>1
    <2>2. CASE old = path[r]
      BY <2>2
    <2> QED
      BY <2>1, <2>2
  <1>2. ASSUME NEW s \in Refs(u, DS) \ {r}, NEW i \in 1 .. Len(path[s]), path[s][i] = c
        PROVE  FALSE
    <2>1. u.fat[1][c] # Free
      <3>1. OnPath(u, path[s], At(u, s).start)
        BY DEF Good
      <3> QED
        BY <3>1, <1>2, OnPathMarked
    <2>2. PICK j \in 1 .. Len(path[r]) : path[r][j] = c
      BY <2>1, <1>1
    <2>3. Apart(path, Refs(u, DS))
      BY DEF Good
    <2> QED
      BY <2>2, <2>3, <1>2 DEF Apart
  <1>3. c \notin DS
    <2> SUFFICES ASSUME c \in DS PROVE FALSE
      OBVIOUS
    <2>1. c # RootDir
      BY ClustersAreFinite
    <2>2. PICK s \in Refs(u, DS) : At(u, s).dir /\ At(u, s).start = c
      BY <2>1 DEF Good
    <2>3. OnPath(u, path[s], c)
      BY <2>2 DEF Good
    <2>4. 1 \in 1 .. Len(path[s]) /\ path[s][1] = c
      BY <2>3 DEF OnPath
    <2>5. s \in Refs(u, DS) \ {r}
      BY <2>2
    <2> QED
      BY <2>4, <2>5, <1>2
  <1> QED
    BY <1>1, <1>2, <1>3

(* The chains are rebuilt: no other entry's cluster was touched.           *)
Takes(u, old, chain) ==
    /\ chain \in Seq(Clusters)
    /\ \A i, j \in 1 .. Len(chain) : chain[i] = chain[j] => i = j
    /\ \A i \in 1 .. Len(chain) :
          u.fat[1][chain[i]] = Free \/ \E j \in 1 .. Len(old) : old[j] = chain[i]

Refilled(u, DS, path, x, r) ==
    /\ x.root = u.root
    /\ \A d \in DS : Slots(x, d) = Slots(u, d)
    /\ Refs(x, DS) = Refs(u, DS)
    /\ \A s \in Refs(u, DS) : At(x, s) = At(u, s)
    /\ \A s \in Refs(u, DS) \ {r} : \A i \in 1 .. Len(path[s]) :
          /\ x.fat[1][path[s][i]] = u.fat[1][path[s][i]]
          /\ x.area[path[s][i]] = u.area[path[s][i]]

LEMMA FillsSound ==
    ASSUME NEW u, NEW DS, NEW path, Good(u, DS, path),
           NEW r \in Refs(u, DS), ~At(u, r).dir,
           NEW old, old = <<>> \/ old = path[r],
           NEW v, v = Freed(u, ToSet(old)),
           NEW chain, Takes(u, old, chain),
           NEW buffer, NEW x, FilledTo(v, x, chain, buffer, Len(chain))
    PROVE  Refilled(u, DS, path, x, r)
  <1>1. /\ u \in Volumes /\ DS \subseteq Clusters \cup {RootDir}
        /\ \A s \in Refs(u, DS) : OnPath(u, path[s], At(u, s).start)
    BY DEF Good
  <1>2. /\ v.root = u.root /\ v.area = u.area
        /\ \A b \in Clusters : b \notin ToSet(old) => v.fat[1][b] = u.fat[1][b]
    BY <1>1, FreedIs, FirstCopy
  <1>3. ToSet(old) = {old[j] : j \in 1 .. Len(old)}
    <2>1. old \in Seq(Clusters)
      <3>1. path[r] \in Seq(Clusters)
        BY <1>1 DEF OnPath
      <3>2. CASE old = <<>>
        BY <3>2
      <3>3. CASE old = path[r]
        BY <3>1, <3>3
      <3> QED
        BY <3>2, <3>3
    <2> QED
      BY <2>1 DEF ToSet
  <1>4. /\ x.root = v.root
        /\ \A c \in Clusters :
             (\A i \in 1 .. Len(chain) : chain[i] # c) =>
                x.fat[1][c] = v.fat[1][c] /\ x.area[c] = v.area[c]
    BY FirstCopy DEF FilledTo
  <1>5. ASSUME NEW i \in 1 .. Len(chain)
        PROVE  /\ chain[i] \in Clusters /\ chain[i] \notin DS
               /\ \A s \in Refs(u, DS) \ {r} : \A k \in 1 .. Len(path[s]) :
                     path[s][k] # chain[i]
    <2>1. PICK c : c = chain[i]
      OBVIOUS
    <2>2. /\ c \in Clusters
          /\ u.fat[1][c] = Free \/ \E j \in 1 .. Len(old) : old[j] = c
      BY <2>1 DEF Takes
    <2>3. /\ c \notin DS
          /\ \A s \in Refs(u, DS) \ {r} : \A k \in 1 .. Len(path[s]) : path[s][k] # c
      BY <2>2, Unowned
    <2> QED
      BY <2>1, <2>2, <2>3
  <1>6. ASSUME NEW s \in Refs(u, DS) \ {r}, NEW i \in 1 .. Len(path[s])
        PROVE  /\ x.fat[1][path[s][i]] = u.fat[1][path[s][i]]
               /\ x.area[path[s][i]] = u.area[path[s][i]]
    <2>1. PICK b : b = path[s][i]
      OBVIOUS
    <2>2. b \in Clusters
      BY <1>1, <2>1, OnPathMarked
    <2>3. \A j \in 1 .. Len(chain) : chain[j] # b
      BY <2>1, <1>5
    <2>4. b \notin ToSet(old)
      <3> SUFFICES ASSUME b \in ToSet(old) PROVE FALSE
        OBVIOUS
      <3>1. \E j \in 1 .. Len(old) : old[j] = b
        BY <1>3
      <3>2. path[s][i] # b
        BY <3>1, <2>2, Unowned
      <3> QED
        BY <2>1, <3>2
    <2>5. x.fat[1][b] = u.fat[1][b] /\ x.area[b] = u.area[b]
      BY <2>2, <2>3, <2>4, <1>2, <1>4
    <2> QED
      BY <2>1, <2>5
  <1>7. ASSUME NEW d \in DS PROVE Slots(x, d) = Slots(u, d)
    <2>1. CASE d = RootDir
      BY <2>1, <1>2, <1>4 DEF Slots
    <2>2. CASE d # RootDir
      <3>1. d \in Clusters /\ \A j \in 1 .. Len(chain) : chain[j] # d
        BY <2>2, <1>1, <1>5
      <3>2. x.area[d] = u.area[d]
        BY <3>1, <1>2, <1>4
      <3> QED
        BY <2>2, <3>2 DEF Slots
    <2> QED
      BY <2>1, <2>2
  <1>8. \A s \in DS \X Nat : Slots(x, s[1]) = Slots(u, s[1]) /\ At(x, s) = At(u, s)
    <2> TAKE s \in DS \X Nat
    <2>1. s[1] \in DS
      OBVIOUS
    <2>2. Slots(x, s[1]) = Slots(u, s[1])
      BY <2>1, <1>7
    <2> QED
      BY <2>2 DEF At
  <1>9. Refs(x, DS) = Refs(u, DS)
    BY <1>8 DEF Refs
  <1>10. \A s \in Refs(u, DS) : At(x, s) = At(u, s)
    <2>1. Refs(u, DS) \subseteq DS \X Nat
      BY DEF Refs
    <2> QED
      BY <2>1, <1>8
  <1> QED
    BY <1>2, <1>4, <1>6, <1>7, <1>9, <1>10 DEF Refilled

(* The entry gets the new chain.                                           *)
LEMMA WriteGood ==
    ASSUME NEW u, NEW DS, NEW path, Good(u, DS, path),
           NEW r \in Refs(u, DS), ~At(u, r).dir,
           NEW old, old = <<>> \/ old = path[r],
           NEW v, v = Freed(u, ToSet(old)),
           NEW chain, Takes(u, old, chain), chain # <<>>,
           NEW buffer, NEW x \in Volumes, FilledTo(v, x, chain, buffer, Len(chain)),
           NEW e \in Entries, e.start = chain[1], ~e.dir, e.name = At(u, r).name,
           NEW w, w = After(x, SlotUpdate(r[1], r[2], e))
    PROVE  /\ Rewritten(u, DS, path, w, r, chain)
           /\ At(w, r) = e
           /\ \A b \in Clusters \ DS : w.area[b] = x.area[b]
  <1>1. Refilled(u, DS, path, x, r)
    BY FillsSound
  <1>2. /\ u \in Volumes /\ DS \subseteq Clusters \cup {RootDir}
        /\ r[1] \in DS /\ r[2] \in 1 .. Len(Slots(u, r[1])) /\ r[2] \in Nat
        /\ r = <<r[1], r[2]>> /\ IsLive(At(u, r)) /\ At(u, r) \in Entries
        /\ r[1] \in Clusters \cup {RootDir}
    BY RefType DEF Good
  <1>3. PICK d, i : d = r[1] /\ i = r[2]
    OBVIOUS
  <1>4. w \in Volumes
    <2>1. d \in Nat /\ i \in Nat /\ e \in Contents
      BY <1>2, <1>3, ClustersAreFinite DEF RootDir, Contents
    <2>2. SlotUpdate(d, i, e) \in SlotUpdates
      BY <2>1 DEF SlotUpdate, SlotUpdates
    <2> QED
      BY <1>3, <2>2, VolumesTame DEF Tame
  <1>5. w = After(x, SlotUpdate(d, i, e)) /\ d \in Clusters \cup {RootDir}
    BY <1>2, <1>3
  <1>6. /\ w.fat = x.fat
        /\ Slots(w, d) = [Slots(x, d) EXCEPT ![i] = e]
        /\ \A b \in (Clusters \cup {RootDir}) \ {d} : Slots(w, b) = Slots(x, b)
        /\ \A b \in Clusters \ {d} : w.area[b] = x.area[b]
    BY ONLY <1>5, x \in Volumes, SlotUpdateIs
  <1>7. SlotChanged(u, w, DS, d, i, e)
    <2>1. i \in DOMAIN Slots(u, d)
      BY <1>2, <1>3, SlotsType
    <2>2. \A b \in DS : Slots(x, b) = Slots(u, b)
      BY <1>1 DEF Refilled
    <2> QED
      BY <2>1, <2>2, <1>2, <1>3, <1>6 DEF SlotChanged
  <1>8. IsLive(e)
    <2>1. e.name \notin {Dot, DotDot}
      BY <1>2 DEF IsLive
    <2> QED
      BY <2>1, EntryIsLive
  <1>9. /\ Refs(w, DS) = Refs(u, DS)
        /\ At(w, r) = e
        /\ \A s \in Refs(u, DS) \ {r} : At(w, s) = At(u, s)
    <2>1. r = <<r[1], r[2]>>
      BY <1>2
    <2>2. RefsAre(u, w, DS, r, e)
      BY <1>2, <1>3, <1>7, <2>1, RefsChanged
    <2> QED
      BY <2>2, <1>8 DEF RefsAre
  <1>10. OnPath(w, chain, e.start)
    <2>1. x.fat[1][chain[Len(chain)]] = EOC
          /\ \A j \in 1 .. Len(chain) - 1 : x.fat[1][chain[j]] = chain[j + 1]
      <3>1. Len(chain) # 0
        BY DEF Takes
      <3> QED
        BY <3>1, FirstCopy DEF FilledTo
    <2> QED
      BY <2>1, <1>6 DEF OnPath, Takes
  <1>11. \A j \in 1 .. Len(chain) :
           \/ u.fat[1][chain[j]] = Free
           \/ \E k \in 1 .. Len(path[r]) : path[r][k] = chain[j]
    <2> TAKE j \in 1 .. Len(chain)
    <2>1. PICK c : c = chain[j]
      OBVIOUS
    <2>2. c \in Clusters /\ (u.fat[1][c] = Free \/ \E k \in 1 .. Len(old) : old[k] = c)
      BY <2>1 DEF Takes
    <2> QED
      BY <2>1, <2>2, Unowned
  <1>12. \A s \in Refs(u, DS) \ {r} : \A j \in 1 .. Len(path[s]) :
           w.fat[1][path[s][j]] = u.fat[1][path[s][j]]
    BY <1>1, <1>6 DEF Refilled
  <1>13. PICK path2 : path2 = WithPath(path, Refs(u, DS), r, chain)
    OBVIOUS
  <1>14. Good(w, DS, path2)
    <2>1. ~At(w, r).dir /\ OnPath(w, chain, At(w, r).start)
      BY <1>9, <1>10
    <2> QED
      BY ONLY Good(u, DS, path), r \in Refs(u, DS), ~At(u, r).dir,
              <1>4, <2>1, <1>9, <1>11, <1>12, <1>13, GoodReplace
  <1>15. \A b \in Clusters \ DS : w.area[b] = x.area[b]
    BY <1>2, <1>3, <1>6
  <1>16. ASSUME NEW s \in Refs(u, DS) \ {r}, ~At(u, s).dir, NEW j \in 1 .. Len(path[s])
         PROVE  w.area[path[s][j]] = u.area[path[s][j]]
    <2>1. OnPath(u, path[s], At(u, s).start)
      BY DEF Good
    <2>2. path[s][j] \in Clusters
      BY <2>1, OnPathMarked
    <2>3. path[s][j] \notin DS
      <3> SUFFICES ASSUME path[s][j] \in DS PROVE FALSE
        OBVIOUS
      <3>1. PICK c : c = path[s][j] /\ c # RootDir
        BY <2>2, ClustersAreFinite
      <3>2. PICK t \in Refs(u, DS) : At(u, t).dir /\ At(u, t).start = c
        BY <3>1 DEF Good
      <3>3. OnPath(u, path[t], c)
        BY <3>2 DEF Good
      <3>4. 1 \in 1 .. Len(path[t]) /\ path[t][1] = c
        BY <3>3 DEF OnPath
      <3>5. Apart(path, Refs(u, DS))
        BY DEF Good
      <3>6. t = s
        BY <3>1, <3>4, <3>5 DEF Apart
      <3> QED
        BY <3>2, <3>6, <1>16
    <2> QED
      BY <2>2, <2>3, <1>1, <1>15 DEF Refilled
  <1>17. Rewritten(u, DS, path, w, r, chain)
    BY <1>9, <1>13, <1>14, <1>16 DEF Rewritten
  <1> QED
    BY <1>9, <1>15, <1>17

(* The disk was full: every free cluster and the whole old chain were      *)
(* taken.  The entry keeps its first cluster, which lies on the new chain  *)
(* or, when the size did not change, on the old one.                       *)
Reused(u, p, old) ==
    \A i \in 1 .. Len(p) : \/ u.fat[1][p[i]] = Free
                           \/ \E j \in 1 .. Len(old) : old[j] = p[i]

(* What is left of the chain own: it stayed, or the end of the new chain   *)
(* from its first cluster on.                                              *)
TailFrom(chain, k, q) ==
    /\ Len(q) = Len(chain) - k + 1
    /\ \A i \in 1 .. Len(q) : i + k - 1 \in 1 .. Len(chain) /\ q[i] = chain[i + k - 1]

Salvaged(u, x, own, q, old, chain) ==
    /\ old = <<>> => q = own /\ \A i \in 1 .. Len(own) : x.area[own[i]] = u.area[own[i]]
    /\ old # <<>> => \E k \in 1 .. Len(chain) : TailFrom(chain, k, q) /\ chain[k] = own[1]

LEMMA SpoiltGood ==
    ASSUME NEW u, NEW DS, NEW path, Good(u, DS, path),
           NEW r \in Refs(u, DS), ~At(u, r).dir,
           NEW old, old = <<>> \/ old = path[r],
           NEW v, v = Freed(u, ToSet(old)),
           NEW chain, Takes(u, old, chain),
           \A j \in 1 .. Len(old) : \E i \in 1 .. Len(chain) : chain[i] = old[j],
           NEW buffer, NEW x \in Volumes, FilledTo(v, x, chain, buffer, Len(chain))
    PROVE  \E p : /\ Rewritten(u, DS, path, x, r, p) /\ At(x, r) = At(u, r)
                  /\ Salvaged(u, x, path[r], p, old, chain)
  <1>1. Refilled(u, DS, path, x, r)
    BY FillsSound
  <1>2. /\ u \in Volumes /\ OnPath(u, path[r], At(u, r).start)
    BY DEF Good
  <1>3. ASSUME NEW p, OnPath(x, p, At(u, r).start), Reused(u, p, path[r]),
               Salvaged(u, x, path[r], p, old, chain)
        PROVE  \E q : /\ Rewritten(u, DS, path, x, r, q) /\ At(x, r) = At(u, r)
                      /\ Salvaged(u, x, path[r], q, old, chain)
    <2>1. At(x, r) = At(u, r) /\ Refs(x, DS) = Refs(u, DS)
          /\ \A s \in Refs(u, DS) \ {r} : At(x, s) = At(u, s)
      BY <1>1 DEF Refilled
    <2>2. \A s \in Refs(u, DS) \ {r} : \A j \in 1 .. Len(path[s]) :
             x.fat[1][path[s][j]] = u.fat[1][path[s][j]]
      BY <1>1 DEF Refilled
    <2>3. PICK path2 : path2 = WithPath(path, Refs(u, DS), r, p)
      OBVIOUS
    <2>4. ~At(x, r).dir /\ OnPath(x, p, At(x, r).start)
      BY <2>1, <1>3
    <2>5. Good(x, DS, path2)
      BY ONLY Good(u, DS, path), r \in Refs(u, DS), ~At(u, r).dir, x \in Volumes,
              <2>1, <2>2, <2>3, <2>4, <1>3, GoodReplace DEF Reused
    <2>6. Rewritten(u, DS, path, x, r, p)
      BY <2>1, <2>3, <2>4, <2>5, <1>1 DEF Rewritten, Refilled
    <2> QED
      BY <2>1, <2>6, <1>3
  <1>4. CASE old = <<>>
    <2>1. \A i \in 1 .. Len(path[r]) : /\ x.fat[1][path[r][i]] = u.fat[1][path[r][i]]
                                       /\ x.area[path[r][i]] = u.area[path[r][i]]
      <3> TAKE i \in 1 .. Len(path[r])
      <3>1. PICK b : b = path[r][i]
        OBVIOUS
      <3>2. b \in Clusters /\ u.fat[1][b] # Free
        BY <3>1, <1>2, OnPathMarked
      <3>3. ASSUME NEW j \in 1 .. Len(chain), chain[j] = b PROVE FALSE
        <4>1. \E k \in 1 .. Len(old) : TRUE
          BY <3>2, <3>3 DEF Takes
        <4>2. Len(old) = 0
          BY <1>4
        <4> QED
          BY <4>1, <4>2
      <3>4. x.fat[1][b] = v.fat[1][b] /\ x.area[b] = v.area[b]
        BY <3>2, <3>3, FirstCopy DEF FilledTo
      <3>5. b \notin ToSet(old)
        BY <1>4 DEF ToSet
      <3>6. v.fat[1][b] = u.fat[1][b] /\ v.area[b] = u.area[b]
        BY <3>2, <3>5, <1>2, FreedIs, FirstCopy
      <3> QED
        BY <3>1, <3>4, <3>6
    <2>2. OnPath(x, path[r], At(u, r).start)
      BY <2>1, <1>2, OnPathKept
    <2>3. Reused(u, path[r], path[r])
      BY DEF Reused
    <2>4. Salvaged(u, x, path[r], path[r], old, chain)
      BY <2>1, <1>4 DEF Salvaged
    <2> QED
      BY <2>2, <2>3, <2>4, <1>3
  <1>5. CASE old = path[r]
    <2>1. 1 \in 1 .. Len(path[r]) /\ path[r][1] = At(u, r).start
      BY <1>2 DEF OnPath
    <2>2. PICK k \in 1 .. Len(chain) : chain[k] = At(u, r).start
      BY <2>1, <1>5
    <2>3. Len(chain) \in Nat
      BY DEF Takes
    <2> DEFINE m == Len(chain) - k + 1
               p == [i \in 1 .. m |-> chain[i + k - 1]]
    <2>4. /\ m \in Nat /\ m # 0
          /\ \A i \in 1 .. m : i + k - 1 \in 1 .. Len(chain)
          /\ m + k - 1 = Len(chain)
          /\ \A i \in 1 .. m - 1 : /\ i + k - 1 \in 1 .. Len(chain) - 1
                                   /\ (i + 1) + k - 1 = (i + k - 1) + 1
                                   /\ i + 1 \in 1 .. m /\ i \in 1 .. m
      BY <2>2, <2>3
    <2>5. /\ p \in Seq(Clusters) /\ Len(p) = m
          /\ \A i \in 1 .. m : p[i] = chain[i + k - 1]
      <3>1. \A i \in 1 .. m : chain[i + k - 1] \in Clusters
        BY <2>4 DEF Takes
      <3> HIDE DEF m
      <3>2. p \in [1 .. m -> Clusters]
        BY <3>1
      <3>3. \A i \in 1 .. m : p[i] = chain[i + k - 1]
        OBVIOUS
      <3>4. m \in Nat
        BY <2>4
      <3> HIDE DEF p
      <3>5. p \in Seq(Clusters) /\ Len(p) = m
        BY ONLY <3>2, <3>4
      <3> QED
        BY <3>3, <3>5
    <2> HIDE DEF m, p
    <2>6. /\ \A j \in 1 .. Len(chain) - 1 : x.fat[1][chain[j]] = chain[j + 1]
          /\ x.fat[1][chain[Len(chain)]] = EOC
      <3>1. Len(chain) # 0
        BY <2>2, <2>3
      <3> QED
        BY <3>1, FirstCopy DEF FilledTo
    <2>7. /\ p # <<>> /\ p[1] = At(u, r).start
      <3>1. 1 \in 1 .. m /\ 1 + k - 1 = k
        BY <2>2, <2>4
      <3> QED
        BY <3>1, <2>2, <2>4, <2>5
    <2>8. \A i, j \in 1 .. Len(p) : p[i] = p[j] => i = j
      <3> TAKE i, j \in 1 .. Len(p)
      <3> HAVE p[i] = p[j]
      <3>1. i \in 1 .. m /\ j \in 1 .. m
        BY <2>5
      <3>2. PICK i2, j2 : i2 = i + k - 1 /\ j2 = j + k - 1
        OBVIOUS
      <3>3. i2 \in 1 .. Len(chain) /\ j2 \in 1 .. Len(chain) /\ chain[i2] = chain[j2]
        BY <3>1, <3>2, <2>4, <2>5
      <3>4. i2 = j2
        BY <3>3 DEF Takes
      <3> QED
        BY <3>1, <3>2, <3>4, <2>2
    <2>9. \A i \in 1 .. Len(p) - 1 : x.fat[1][p[i]] = p[i + 1]
      <3> TAKE i \in 1 .. Len(p) - 1
      <3>1. i \in 1 .. m - 1
        BY <2>5
      <3>2. p[i] = chain[i + k - 1] /\ p[i + 1] = chain[(i + k - 1) + 1]
            /\ i + k - 1 \in 1 .. Len(chain) - 1
        BY <3>1, <2>4, <2>5
      <3> QED
        BY <3>2, <2>6
    <2>10. x.fat[1][p[Len(p)]] = EOC
      <3>1. m \in 1 .. m
        BY <2>4
      <3>2. p[Len(p)] = chain[Len(chain)]
        BY <3>1, <2>4, <2>5
      <3> QED
        BY <3>2, <2>6
    <2>11. OnPath(x, p, At(u, r).start)
      BY <2>5, <2>7, <2>8, <2>9, <2>10 DEF OnPath
    <2>12. \A i \in 1 .. Len(p) :
             \/ u.fat[1][p[i]] = Free
             \/ \E j \in 1 .. Len(path[r]) : path[r][j] = p[i]
      <3> TAKE i \in 1 .. Len(p)
      <3>1. i \in 1 .. m /\ i + k - 1 \in 1 .. Len(chain) /\ p[i] = chain[i + k - 1]
        BY <2>4, <2>5
      <3>2. PICK i2 \in 1 .. Len(chain) : i2 = i + k - 1
        BY <3>1
      <3>3. PICK b : b = chain[i2]
        OBVIOUS
      <3>4. u.fat[1][b] = Free \/ \E j \in 1 .. Len(old) : old[j] = b
        BY <3>3 DEF Takes
      <3> QED
        BY <3>1, <3>2, <3>3, <3>4, <1>5
    <2> HIDE DEF p
    <2>13. Reused(u, p, path[r])
      BY <2>12 DEF Reused
    <2>14. Salvaged(u, x, path[r], p, old, chain)
      <3>1. TailFrom(chain, k, p)
        <4>1. Len(p) = Len(chain) - k + 1
          BY <2>5 DEF m
        <4> QED
          BY <4>1, <2>4, <2>5 DEF TailFrom
      <3>2. old # <<>> /\ chain[k] = path[r][1]
        BY <2>1, <2>2, <1>2, <1>5 DEF OnPath
      <3> QED
        BY <3>1, <3>2, <2>2 DEF Salvaged
    <2> QED
      BY ONLY <2>11, <2>13, <2>14, <1>3
  <1> QED
    BY <1>4, <1>5

(* A directory has the slots of one cluster.                               *)
Sized(u, DS) == \A d \in DS \ {RootDir} : Len(u.area[d]) = DirEntriesPerCluster

LEMMA LengthsKept ==
    ASSUME NEW u \in Volumes, NEW s \in SlotUpdates, NEW w, w = After(u, s), NEW b \in Clusters
    PROVE  Len(w.area[b]) = Len(u.area[b])
  <1>1. u.area[b] \in Seq(Contents) /\ u.area = [c \in Clusters |-> u.area[c]]
    BY DEF Volumes, Disks
  <1>2. PICK q, i, x : q = u.area[b] /\ i = s.slot /\ x = s.value
    OBVIOUS
  <1>3. w.area[b] = q \/ w.area[b] = [q EXCEPT ![i] = x]
    BY <1>1, <1>2 DEF After, SlotUpdates, SlotUpdate
  <1>4. PICK n \in Nat : n = Len(q) /\ DOMAIN q = 1 .. n
    BY <1>1, <1>2
  <1>5. Len([q EXCEPT ![i] = x]) = n
    <2>1. PICK t : t = [q EXCEPT ![i] = x]
      OBVIOUS
    <2>2. t = [j \in 1 .. n |-> IF j = i THEN x ELSE q[j]]
      BY <2>1, <1>4
    <2> QED
      BY <2>1, <2>2
  <1> QED
    BY <1>2, <1>3, <1>4, <1>5

(* write leaves the volume sound, whether or not the disk is full.         *)
Spoilt(u, DS, path, x, r, old, chain) ==
    \E q : /\ Rewritten(u, DS, path, x, r, q) /\ At(x, r) = At(u, r)
           /\ Salvaged(u, x, path[r], q, old, chain)

Updated(u, DS, path, x, w, r, chain, size) ==
    /\ Rewritten(u, DS, path, w, r, chain)
    /\ w.fat = x.fat /\ \A b \in Clusters : Len(w.area[b]) = Len(x.area[b])
    /\ At(w, r) = [At(u, r) EXCEPT !.start = chain[1], !.size = size]
    /\ \A b \in Clusters \ DS : w.area[b] = x.area[b]

LEMMA WriteIsSound ==
    ASSUME NEW DS, NEW path, Good(Disk, DS, path), NEW p \in Paths, open(p) = "ok",
           NEW buf \in DataChoices, NEW offset \in OffsetChoices,
           NEW e, e = Entry(p),
           NEW size, size = NewSize(e, buf, offset),
           NEW chain, chain = Allocated(e, size),
           NEW buffer, NEW u \in Volumes,
           FilledTo(Freed(Disk, ToSet(OldChain(e, size))), u, chain, buffer, Len(chain)),
           NEW r, r = <<ParentDir(p), SlotIn(ParentDir(p), p)>>
    PROVE  IF Len(chain) < ClustersNeeded(size)
           THEN Spoilt(Disk, DS, path, u, r, OldChain(e, size), chain)
           ELSE chain # <<>> => \A w : w = After(u, NewFileSlot(p, e, chain[1], size)) =>
                                       Updated(Disk, DS, path, u, w, r, chain, size)
  <1>1. VolumeOK
    BY DEF Good, VolumeOK
  <1>2. PICK d0, old : d0 = Disk /\ old = OldChain(e, size)
    OBVIOUS
  <1>3. Exists(p) /\ ~e.dir /\ e \in Entries /\ size \in Nat
    <2>1. PICK b : b = FileBuffer(e, buf, offset)
      OBVIOUS
    <2> QED
      BY <1>1, <2>1, WriteChecked
  <1>4. /\ r \in Refs(d0, DS) /\ e = At(d0, r) /\ Chain(e.start) = path[r]
        /\ r[1] = ParentDir(p) /\ r[2] = SlotIn(ParentDir(p), p)
        /\ Good(d0, DS, path)
    BY <1>2, <1>3, RefOf
  <1>5. old = <<>> \/ old = path[r]
    BY <1>2, <1>4 DEF OldChain
  <1>6. PICK S : S = Available(e, size)
    OBVIOUS
  <1>7. /\ chain \in Seq(S) /\ chain \in Seq(Clusters)
        /\ \A i, j \in 1 .. Len(chain) : chain[i] = chain[j] => i = j
        /\ Len(chain) < ClustersNeeded(size) =>
             \A c \in S : \E i \in 1 .. Len(chain) : chain[i] = c
        /\ old \in Seq(Clusters)
    <2>1. /\ OldChain(e, size) \in Seq(Clusters)
          /\ chain \in Seq(S) /\ chain \in Seq(Clusters)
          /\ \A i, j \in 1 .. Len(chain) : chain[i] = chain[j] => i = j
          /\ Len(chain) < ClustersNeeded(size) =>
               \A c \in S : \E i \in 1 .. Len(chain) : chain[i] = c
      <3>1. size \in Nat
        BY <1>3
      <3> QED
        BY ONLY <3>1, <1>6, chain = Allocated(e, size), AllocatedIs
    <2> QED
      BY <2>1, <1>2
  <1>8. \A c : c \in S <=> \/ c \in Clusters /\ d0.fat[1][c] = Free
                           \/ \E j \in 1 .. Len(old) : old[j] = c
    BY <1>2, <1>6, <1>7 DEF Available, FreeClusters, get_fat_entry, Disk, ToSet
  <1>9. Takes(d0, old, chain)
    <2>1. \A i \in 1 .. Len(chain) : chain[i] \in S
      BY <1>7
    <2> QED
      BY <2>1, <1>7, <1>8 DEF Takes
  <1>10. PICK v : v = Freed(d0, ToSet(old)) /\ FilledTo(v, u, chain, buffer, Len(chain))
    BY <1>2
  <1>11. CASE Len(chain) < ClustersNeeded(size)
    <2>1. \A j \in 1 .. Len(old) : \E i \in 1 .. Len(chain) : chain[i] = old[j]
      <3> TAKE j \in 1 .. Len(old)
      <3>1. old[j] \in S
        BY <1>8
      <3> QED
        BY <3>1, <1>7, <1>11
    <2>2. Spoilt(d0, DS, path, u, r, old, chain)
      BY <2>1, <1>3, <1>4, <1>5, <1>9, <1>10, SpoiltGood DEF Spoilt
    <2> QED
      BY <2>2, <1>2, <1>11
  <1>12. ASSUME chain # <<>>, NEW w, w = After(u, NewFileSlot(p, e, chain[1], size))
         PROVE  Updated(Disk, DS, path, u, w, r, chain, size)
    <2>1. PICK e2 : e2 = [e EXCEPT !.start = chain[1], !.size = size]
      OBVIOUS
    <2>2. chain[1] \in Nat
      <3>1. 1 \in 1 .. Len(chain)
        BY <1>7, <1>12
      <3>2. chain[1] \in Clusters
        BY <3>1, <1>7
      <3> QED
        BY <3>2, ClustersAreFinite
    <2>3. e2 \in Entries /\ e2.start = chain[1] /\ ~e2.dir /\ e2.name = At(d0, r).name
      BY <2>1, <2>2, <1>3, <1>4 DEF Entries
    <2>4. w = After(u, SlotUpdate(r[1], r[2], e2))
      BY <2>1, <1>4, <1>12 DEF NewFileSlot, OldSlot
    <2>5. /\ Rewritten(d0, DS, path, w, r, chain)
          /\ At(w, r) = e2
          /\ \A b \in Clusters \ DS : w.area[b] = u.area[b]
      <3>1. ~At(d0, r).dir
        BY <1>3, <1>4
      <3>2. Good(d0, DS, path) /\ r \in Refs(d0, DS) /\ chain # <<>>
        BY <1>4, <1>12
      <3> QED
        BY ONLY <2>3, <2>4, <3>1, <3>2, <1>5, <1>9, <1>10,
                u \in Volumes, WriteGood
    <2>6. w.fat = u.fat
      BY <1>12 DEF NewFileSlot, OldSlot, SlotUpdate, After
    <2>7. \A b \in Clusters : Len(w.area[b]) = Len(u.area[b])
      <3>1. e2 \in Contents
        BY <2>3 DEF Contents
      <3>2. OldSlot(p, e2) \in SlotUpdates /\ w = After(u, OldSlot(p, e2))
        BY <3>1, <2>1, <1>1, <1>3, <1>12, SlotInIsUpdate DEF NewFileSlot
      <3> QED
        BY <3>2, LengthsKept
    <2> QED
      BY <2>1, <2>5, <2>6, <2>7, <1>2, <1>4 DEF Updated
  <1> QED
    BY <1>11, <1>12

-----------------------------------------------------------------------------
(* The disk that a handler is under way to, and what it made of the sound  *)
(* disk it found.                                                          *)

(* The clusters of old have been freed, those of new were marked.          *)
Marks(u, w, old, new) ==
    \A c \in Clusters : w.fat[1][c] # Free <=> c \in new \/ (u.fat[1][c] # Free /\ c \notin old)

(* And the directories, E now and DS before, have their size.              *)
Books(u, w, DS, E, old, new) ==
    Marks(u, w, old, new) /\ (Sized(u, DS) => Sized(w, E))

LEMMA MarkOne ==
    ASSUME NEW u \in Volumes, NEW c \in Clusters, NEW s \in SlotUpdates,
           NEW v, v = SetFat(After(u, s), c, EOC), NEW w, w.fat = v.fat
    PROVE  Marks(u, w, {}, {c})
  <1>1. After(u, s).fat = u.fat
    BY DEF After, SlotUpdates, SlotUpdate
  <1>2. u.fat \in [Copies -> [Clusters -> Nat]]
    BY DEF Volumes, Disks
  <1>3. \A b \in Clusters : w.fat[1][b] = IF b = c THEN EOC ELSE u.fat[1][b]
    BY <1>1, <1>2, FirstCopy DEF SetFat
  <1> QED
    BY <1>3 DEF Marks, EOC, Free

LEMMA MarksFreed ==
    ASSUME NEW u \in Volumes, NEW old, NEW v, v = Freed(u, old), NEW s \in SlotUpdates,
           NEW w, w = After(v, s)
    PROVE  Marks(u, w, old, {})
  <1>1. w.fat = v.fat
    BY DEF After, SlotUpdates, SlotUpdate
  <1>2. \A b \in Clusters : v.fat[1][b] = IF b \in old THEN Free ELSE u.fat[1][b]
    BY FreedIs, FirstCopy
  <1> QED
    BY <1>1, <1>2 DEF Marks

LEMMA MarksFilled ==
    ASSUME NEW u \in Volumes, NEW old, NEW v, v = Freed(u, old),
           NEW chain \in Seq(Clusters), NEW buffer,
           NEW x, FilledTo(v, x, chain, buffer, Len(chain)), NEW w, w.fat = x.fat
    PROVE  Marks(u, w, old, ToSet(chain))
  <1>1. \A b \in Clusters : v.fat[1][b] = IF b \in old THEN Free ELSE u.fat[1][b]
    BY FreedIs, FirstCopy
  <1>2. PICK n \in Nat : n = Len(chain) /\ DOMAIN chain = 1 .. n
    OBVIOUS
  <1>3. /\ \A i \in 1 .. n - 1 : x.fat[1][chain[i]] = chain[i + 1]
        /\ n # 0 => x.fat[1][chain[n]] = EOC
        /\ \A c \in Clusters : (\A i \in 1 .. n : chain[i] # c) => x.fat[1][c] = v.fat[1][c]
    BY <1>2, FirstCopy DEF FilledTo
  <1>4. \A c : c \in ToSet(chain) <=> \E i \in 1 .. n : chain[i] = c
    BY <1>2 DEF ToSet
  <1>5. ASSUME NEW i \in 1 .. n
        PROVE  x.fat[1][chain[i]] # Free
    <2>1. CASE i = n
      BY <2>1, <1>3 DEF EOC, Free
    <2>2. CASE i # n
      <3>1. i \in 1 .. n - 1 /\ i + 1 \in 1 .. n
        BY <2>2
      <3>2. chain[i + 1] \in Clusters
        BY <3>1, <1>2
      <3>3. chain[i + 1] # Free
        BY <3>2, ClustersAreFinite DEF Free
      <3> QED
        BY <3>1, <3>3, <1>3
    <2> QED
      BY <2>1, <2>2
  <1>6. ASSUME NEW c \in Clusters
        PROVE  w.fat[1][c] # Free <=> c \in ToSet(chain) \/ (u.fat[1][c] # Free /\ c \notin old)
    <2>1. CASE c \in ToSet(chain)
      BY <2>1, <1>4, <1>5
    <2>2. CASE c \notin ToSet(chain)
      BY <2>2, <1>1, <1>3, <1>4
    <2> QED
      BY <2>1, <2>2
  <1> QED
    BY <1>6 DEF Marks

LEMMA MakeSteps ==
    ASSUME NEW DS, NEW path, Good(Disk, DS, path), NEW p \in Paths,
           NEW dir \in BOOLEAN, IF dir THEN mkdir(p) ELSE create(p),
           MakeRefusal(p) = "ok",
           NEW P, NEW Q, NEW C, NEW S, Tame(P, Q, C, S), Disk \in Q,
           LowestFree \in C, NewSlot(p, dir) \in S,
           NEW e, e = NewEntry(p, dir),
           NEW r, r = <<ParentDir(p), FreeSlot(read_directory(ParentDir(p)))>>
    PROVE  \E w \in Q : /\ Added(Disk, DS, path, w, r, e) /\ Running(w, P)'
                         /\ Books(Disk, w, DS, Grown(DS, e), {}, {e.start})
  <1>1. VolumeOK
    BY DEF Good, VolumeOK
  <1>2. PICK cells : cells = EmptyDirectory(LowestFree, ParentDir(p))
    OBVIOUS
  <1>3. PICK v : v = SetFat(After(Disk, NewSlot(p, dir)), LowestFree, EOC)
    OBVIOUS
  <1>4. PICK w : w = IF dir THEN After(v, AreaUpdate(LowestFree, cells)) ELSE v
    OBVIOUS
  <1>5. Added(Disk, DS, path, w, r, e)
    <2>1. w = IF dir THEN After(v, AreaUpdate(LowestFree,
                                     EmptyDirectory(LowestFree, ParentDir(p))))
              ELSE v
      BY <1>2, <1>4
    <2> QED
      BY <1>3, <2>1, MakeIsSound
  <1>6. \E writes \in Seq(Updates) : \E op, code :
          /\ Answer(op, p, writes, code)
          /\ Runs(writes, Disk, w, P)
          /\ w \in Q
    <2>1. CASE dir
      <3>1. w = After(SetFat(After(Disk, NewSlot(p, TRUE)), LowestFree, EOC),
                      AreaUpdate(LowestFree, cells))
        BY <1>3, <1>4, <2>1
      <3>2. PICK writes : writes = EntryWrites(p, TRUE) \o AreaWrite(LowestFree, cells)
        OBVIOUS
      <3>3. writes \in Seq(Updates) /\ Runs(writes, Disk, w, P) /\ w \in Q
        BY <1>1, <1>2, <2>1, <3>1, <3>2, DirectoryRuns
      <3>4. \E code : Answer("mkdir", p, writes, code)
        BY <2>1, <1>2, <3>2 DEF mkdir
      <3> QED
        BY <3>3, <3>4
    <2>2. CASE ~dir
      <3>1. w = SetFat(After(Disk, NewSlot(p, FALSE)), LowestFree, EOC)
        BY <1>3, <1>4, <2>2
      <3>2. PICK writes : writes = EntryWrites(p, FALSE)
        OBVIOUS
      <3>3. writes \in Seq(Updates) /\ Runs(writes, Disk, w, P) /\ w \in Q
        BY <1>1, <2>2, <3>1, <3>2, EntryRuns
      <3>4. \E code : Answer("create", p, writes, code)
        BY <2>2, <3>2 DEF create
      <3> QED
        BY <3>3, <3>4
    <2> QED
      BY <2>1, <2>2
  <1>7. PICK writes \in Seq(Updates) : \E op, code :
          /\ Answer(op, p, writes, code)
          /\ Runs(writes, Disk, w, P)
          /\ w \in Q
    BY <1>6
  <1>8. Running(w, P)'
    BY <1>7, RunningAnswer
  <1>9. Marks(Disk, w, {}, {e.start})
    <2>1. /\ Disk \in Volumes /\ LowestFree \in Clusters /\ NewSlot(p, dir) \in SlotUpdates
          /\ e.start = LowestFree
      BY <1>1, MakeChecked DEF VolumeOK, NewEntry
    <2>2. w.fat = v.fat
      BY <1>4 DEF After, AreaUpdate
    <2> QED
      BY ONLY <2>1, <2>2, <1>3, MarkOne
  <1>10. ASSUME Sized(Disk, DS) PROVE Sized(w, Grown(DS, e))
    <2>1. /\ Disk \in Volumes /\ LowestFree \in Clusters /\ NewSlot(p, dir) \in SlotUpdates
          /\ e.start = LowestFree /\ e.dir = dir
      BY <1>1, MakeChecked DEF VolumeOK, NewEntry
    <2>2. \A b \in Clusters : Len(v.area[b]) = Len(Disk.area[b])
      BY <2>1, <1>3, LengthsKept DEF SetFat
    <2>3. v.area = [b \in Clusters |-> v.area[b]]
      <3>1. Disk.area = [b \in Clusters |-> Disk.area[b]]
        BY <2>1 DEF Volumes, Disks
      <3> QED
        BY <3>1, <2>1, <1>3 DEF SetFat, After, SlotUpdates, SlotUpdate
    <2>4. Len(cells) = DirEntriesPerCluster
      BY <1>2, Geometry DEF EmptyDirectory
    <2>5. \A b \in Clusters : Len(w.area[b]) = IF dir /\ b = LowestFree
                                               THEN DirEntriesPerCluster ELSE Len(Disk.area[b])
      <3>1. CASE dir
        BY <3>1, <2>2, <2>3, <2>4, <1>4 DEF After, AreaUpdate
      <3>2. CASE ~dir
        BY <3>2, <2>2, <1>4
      <3> QED
        BY <3>1, <3>2
    <2>6. DS \subseteq Clusters \cup {RootDir}
      BY DEF Good
    <2> QED
      BY <2>1, <2>5, <2>6, <1>10 DEF Sized, Grown
  <1> QED
    BY <1>5, <1>7, <1>8, <1>9, <1>10 DEF Books

LEMMA RemoveSteps ==
    ASSUME NEW DS, NEW path, Good(Disk, DS, path), NEW p \in Paths, Exists(p),
           Entry(p).dir => readdir(Entry(p).start) = <<>>,
           NEW op, NEW code, Answer(op, p, RemovalWrites(p), code),
           NEW P, NEW Q, NEW C, NEW S, Tame(P, Q, C, S), Disk \in Q,
           ToSet(Chain(Entry(p).start)) \subseteq C, OldSlot(p, NoEntry) \in S,
           NEW r, r = <<ParentDir(p), SlotIn(ParentDir(p), p)>>
    PROVE  \E w \in Q : /\ Removed(Disk, DS, path, w, r) /\ Running(w, P)'
                         /\ Books(Disk, w, DS, Shrunk(DS, At(Disk, r)), ToSet(path[r]), {})
  <1>1. VolumeOK
    BY DEF Good, VolumeOK
  <1>2. PICK w : w = After(Freed(Disk, ToSet(Chain(Entry(p).start))), OldSlot(p, NoEntry))
    OBVIOUS
  <1>3. PICK writes : writes = RemovalWrites(p)
    OBVIOUS
  <1>4. writes \in Seq(Updates) /\ Runs(writes, Disk, w, P) /\ w \in Q
    BY <1>1, <1>2, <1>3, RemovalRuns
  <1>5. Answer(op, p, writes, code)
    BY <1>3
  <1>6. Running(w, P)'
    BY <1>4, <1>5, RunningAnswer
  <1>7. Removed(Disk, DS, path, w, r)
    BY <1>2, RemovalIsSound
  <1>8. Marks(Disk, w, ToSet(path[r]), {})
    <2>1. Chain(Entry(p).start) = path[r]
      BY RefOf
    <2>2. Disk \in Volumes /\ OldSlot(p, NoEntry) \in SlotUpdates
      BY <1>1, SlotInIsUpdate DEF VolumeOK, Contents
    <2> QED
      BY <2>1, <2>2, <1>2, MarksFreed
  <1>9. ASSUME Sized(Disk, DS) PROVE Sized(w, Shrunk(DS, At(Disk, r)))
    <2>1. PICK v : v = Freed(Disk, ToSet(Chain(Entry(p).start)))
      OBVIOUS
    <2>2. v \in Volumes /\ v.area = Disk.area
      <3>1. Disk \in Volumes
        BY <1>1 DEF VolumeOK
      <3> QED
        BY <3>1, <2>1 DEF Freed, Volumes, Disks, Free
    <2>3. OldSlot(p, NoEntry) \in SlotUpdates
      BY <1>1, SlotInIsUpdate DEF Contents
    <2>4. \A b \in Clusters : Len(w.area[b]) = Len(Disk.area[b])
      BY <2>1, <2>2, <2>3, <1>2, LengthsKept
    <2>5. DS \subseteq Clusters \cup {RootDir}
      BY DEF Good
    <2> QED
      BY <2>4, <2>5, <1>9 DEF Sized, Shrunk
  <1> QED
    BY <1>4, <1>6, <1>7, <1>8, <1>9 DEF Books

(* The whole of a write that finds its file.                               *)
LEMMA WriteSteps ==
    ASSUME NEW DS, NEW path, Good(Disk, DS, path), NEW p \in Paths, open(p) = "ok",
           NEW buf \in DataChoices, NEW offset \in OffsetChoices,
           write(p, buf, offset),
           NEW e, e = Entry(p),
           NEW size, size = NewSize(e, buf, offset),
           NEW buffer, buffer = FileBuffer(e, buf, offset),
           NEW chain, chain = Allocated(e, size),
           NEW P, NEW Q, NEW C, NEW S, Tame(P, Q, C, S), Disk \in Q,
           Available(e, size) \subseteq C,
           \A c \in C : NewFileSlot(p, e, c, size) \in S,
           NEW r, r = <<ParentDir(p), SlotIn(ParentDir(p), p)>>
    PROVE  \E u \in Q :
              /\ FilledTo(Freed(Disk, ToSet(OldChain(e, size))), u, chain, buffer,
                          Len(chain))
              /\ IF Len(chain) < ClustersNeeded(size)
                 THEN Spoilt(Disk, DS, path, u, r, OldChain(e, size), chain) /\ Running(u, P)'
                 ELSE \E w \in Q :
                      /\ chain # <<>>
                      /\ Updated(Disk, DS, path, u, w, r, chain, size)
                      /\ Running(w, P)'
  <1>1. VolumeOK
    BY DEF Good, VolumeOK
  <1>2. PICK u \in Q :
          /\ FilledTo(Freed(Disk, ToSet(OldChain(e, size))), u, chain, buffer,
                      Len(chain))
          /\ IF Len(chain) < ClustersNeeded(size)
             THEN Running(u, P)'
             ELSE /\ chain # <<>>
                  /\ \E w \in Q :
                       /\ w = After(u, NewFileSlot(p, e, chain[1], size))
                       /\ Running(w, P)'
    BY <1>1, WriteRuns
  <1>3. u \in Volumes
    BY <1>2 DEF Tame
  <1>4. IF Len(chain) < ClustersNeeded(size)
        THEN Spoilt(Disk, DS, path, u, r, OldChain(e, size), chain)
        ELSE chain # <<>> => \A w : w = After(u, NewFileSlot(p, e, chain[1], size)) =>
                                    Updated(Disk, DS, path, u, w, r, chain, size)
    <2>1. FilledTo(Freed(Disk, ToSet(OldChain(e, size))), u, chain, buffer, Len(chain))
      BY <1>2
    <2> QED
      BY ONLY Good(Disk, DS, path), p \in Paths, open(p) = "ok", buf \in DataChoices,
              offset \in OffsetChoices, e = Entry(p), size = NewSize(e, buf, offset),
              chain = Allocated(e, size), r = <<ParentDir(p), SlotIn(ParentDir(p), p)>>,
              <2>1, <1>3, WriteIsSound
  <1>5. CASE Len(chain) < ClustersNeeded(size)
    BY <1>2, <1>4, <1>5
  <1>6. CASE ~(Len(chain) < ClustersNeeded(size))
    <2>1. PICK w \in Q : /\ w = After(u, NewFileSlot(p, e, chain[1], size))
                         /\ Running(w, P)'
      BY <1>2, <1>6
    <2>2. /\ chain # <<>>
          /\ Updated(Disk, DS, path, u, w, r, chain, size)
      BY <1>2, <1>4, <1>6, <2>1
    <2> QED
      BY <1>2, <1>6, <2>1, <2>2
  <1> QED
    BY <1>5, <1>6

-----------------------------------------------------------------------------
(* Chains are disjoint and marked.                                         *)

(* Two live entries of a directory have different names, or one that was   *)
(* cut.                                                                    *)
NamedOnce(u, DS) ==
    \A r, s \in Refs(u, DS) :
       r[1] = s[1] /\ At(u, r).name = At(u, s).name
         => r = s \/ At(u, r).name \in LongForms

(* The name of a new entry is new in its directory, or was cut.            *)
LEMMA NameLookedUp ==
    ASSUME NEW p \in Paths, NEW q, NEW m \in Nat, Len(q) = m,
           find_entry_by_name(q, Last(p)) = 0,
           NEW n, n = format_to_fat_name(Last(p)), n \notin LongForms
    PROVE  n = Last(p) /\ \A j \in 1 .. m : ~(IsEntry(q[j]) /\ q[j].name = n)
  <1>1. Last(p) = <<Last(p)[1], Last(p)[2]>>
    <2>1. PICK A, B, k : A = STRING \cup {".", ".."} /\ B = STRING \cup {""} /\ k = Last(p)
      OBVIOUS
    <2>2. k \in A \X B
      BY <2>1, PathIs DEF Names
    <2>3. k = <<k[1], k[2]>>
      BY ONLY <2>2
    <2> QED
      BY <2>1, <2>3
  <1>2. Last(p)[2] = ""
    BY DEF LongForms
  <1>3. n = Last(p)
    BY <1>1, <1>2 DEF format_to_fat_name
  <1> QED
    BY <1>3, FoundEntry

LEMMA NameIsNew ==
    ASSUME NEW DS, NEW path, Good(Disk, DS, path), NEW p \in Paths,
           MakeRefusal(p) = "ok", NEW s \in Refs(Disk, DS), s[1] = ParentDir(p),
           At(Disk, s).name = format_to_fat_name(Last(p))
    PROVE  At(Disk, s).name \in LongForms
  <1>1. PICK u, d, q, m : /\ u = Disk /\ d = ParentDir(p) /\ q = Slots(u, d)
                          /\ m = Len(q)
    OBVIOUS
  <1>2. s[1] \in DS /\ s[2] \in DOMAIN Slots(u, s[1]) /\ IsLive(At(u, s))
    BY <1>1 DEF Refs
  <1>3. u \in Volumes /\ d \in DS /\ d \in Clusters \cup {RootDir} /\ d # Lost
    BY <1>1, <1>2 DEF Good, MakeRefusal
  <1>4. q = read_directory(d) /\ m \in Nat /\ DOMAIN q = 1 .. m
    BY <1>1, <1>3, DirectoryIs, SlotsType
  <1>5. find_entry_by_name(q, Last(p)) = 0
    BY <1>1, <1>3, <1>4 DEF MakeRefusal, Exists, SlotIn
  <1>6. s[2] \in 1 .. m /\ At(u, s) = q[s[2]] /\ IsEntry(q[s[2]])
    BY <1>1, <1>2, <1>4 DEF At, IsLive
  <1> QED
    BY <1>1, <1>4, <1>5, <1>6, NameLookedUp

LEMMA AddedOnce ==
    ASSUME NEW DS, NEW path, Good(Disk, DS, path), NEW p \in Paths,
           NEW dir \in BOOLEAN, MakeRefusal(p) = "ok",
           NEW e, e = NewEntry(p, dir), NEW r, r[1] = ParentDir(p),
           NEW w, Added(Disk, DS, path, w, r, e), NamedOnce(Disk, DS)
    PROVE  NamedOnce(w, Grown(DS, e))
  <1>1. PICK R, T : R = Refs(Disk, DS) /\ T = Refs(w, Grown(DS, e))
    OBVIOUS
  <1>2. /\ T = R \cup {r} /\ At(w, r) = e
        /\ \A s \in R : At(w, s) = At(Disk, s)
        /\ e.name = format_to_fat_name(Last(p))
    BY <1>1 DEF Added, NewEntry
  <1>3. ASSUME NEW s \in R, s[1] = r[1], At(w, s).name = e.name
        PROVE  e.name \in LongForms
    <2>1. /\ s \in Refs(Disk, DS) /\ s[1] = ParentDir(p)
          /\ At(Disk, s).name = format_to_fat_name(Last(p))
      BY <1>1, <1>2, <1>3
    <2>2. At(Disk, s).name \in LongForms
      BY <2>1, NameIsNew
    <2> QED
      BY <1>2, <1>3, <2>2
  <1>4. ASSUME NEW s \in T, NEW t \in T, s[1] = t[1], At(w, s).name = At(w, t).name, s # t
        PROVE  At(w, s).name \in LongForms
    <2>1. CASE s \in R /\ t \in R
      BY <2>1, <1>1, <1>2, <1>4 DEF NamedOnce
    <2>2. CASE s = r
      BY <2>2, <1>2, <1>3, <1>4
    <2>3. CASE t = r
      BY <2>3, <1>2, <1>3, <1>4
    <2> QED
      BY <2>1, <2>2, <2>3, <1>2
  <1> QED
    BY <1>1, <1>4 DEF NamedOnce

LEMMA KeptOnce ==
    ASSUME NEW u, NEW DS, NamedOnce(u, DS), NEW w, NEW D2,
           Refs(w, D2) \subseteq Refs(u, DS),
           \A s \in Refs(w, D2) : At(w, s).name = At(u, s).name
    PROVE  NamedOnce(w, D2)
  <1>1. PICK R, T : R = Refs(u, DS) /\ T = Refs(w, D2)
    OBVIOUS
  <1>2. T \subseteq R /\ \A s \in T : At(w, s).name = At(u, s).name
    BY <1>1
  <1>3. ASSUME NEW s \in T, NEW t \in T, s[1] = t[1], At(w, s).name = At(w, t).name, s # t
        PROVE  At(w, s).name \in LongForms
    BY <1>1, <1>2, <1>3 DEF NamedOnce
  <1> QED
    BY <1>1, <1>3 DEF NamedOnce

LEMMA RewrittenOnce ==
    ASSUME NEW u, NEW DS, NamedOnce(u, DS), NEW path, NEW w, NEW r, NEW q,
           Rewritten(u, DS, path, w, r, q)
    PROVE  NamedOnce(w, DS)
  <1>1. /\ Refs(w, DS) = Refs(u, DS)
        /\ \A s \in Refs(w, DS) : At(w, s).name = At(u, s).name
    BY DEF Rewritten
  <1> QED
    BY <1>1, KeptOnce

(* Where a handler starts from a sound volume, its writes lead to one.     *)
Sound(w, D2, path2, DS) ==
    /\ Good(w, D2, path2)
    /\ NamedOnce(Disk, DS) => NamedOnce(w, D2)

LEMMA HandlersSound ==
    ASSUME NEW DS, NEW path, Good(Disk, DS, path), NEW p \in Paths,
           \/ create(p)
           \/ mkdir(p)
           \/ rmdir(p)
           \/ unlink(p)
           \/ \E buf \in DataChoices, offset \in OffsetChoices : write(p, buf, offset)
    PROVE  \E w, D2, path2 : Sound(w, D2, path2, DS) /\ Running(w, Volumes)'
  <1>1. VolumeOK /\ Disk \in Volumes
    BY DEF Good, VolumeOK
  <1>2. PICK P, Q, C, S : /\ P = Volumes /\ Q = Volumes /\ C = Clusters
                          /\ S = SlotUpdates /\ Tame(P, Q, C, S) /\ Disk \in Q
    BY <1>1, VolumesTame
  <1>3. ASSUME NEW op, NEW code, Answer(op, p, <<>>, code)
        PROVE  \E w, D2, path2 : Sound(w, D2, path2, DS) /\ Running(w, Volumes)'
    <2>1. PICK w : w = Disk /\ w \in Volumes
      BY <1>1
    <2>2. Running(w, Volumes)'
      BY <1>3, <2>1, RefusedRuns
    <2> QED
      BY <2>1, <2>2 DEF Sound
  <1>4. ASSUME NEW dir \in BOOLEAN, IF dir THEN mkdir(p) ELSE create(p)
        PROVE  \E w, D2, path2 : Sound(w, D2, path2, DS) /\ Running(w, Volumes)'
    <2>1. CASE MakeRefusal(p) = "ok"
      <3>1. PICK e, r : /\ e = NewEntry(p, dir)
                        /\ r = <<ParentDir(p), FreeSlot(read_directory(ParentDir(p)))>>
        OBVIOUS
      <3>2. LowestFree \in C /\ NewSlot(p, dir) \in S
        BY <1>1, <1>2, <2>1, MakeChecked
      <3>3. PICK w \in Q : /\ Added(Disk, DS, path, w, r, e) /\ Running(w, P)'
                           /\ Books(Disk, w, DS, Grown(DS, e), {}, {e.start})
        BY <1>2, <1>4, <2>1, <3>1, <3>2, MakeSteps
      <3>4. NamedOnce(Disk, DS) => NamedOnce(w, Grown(DS, e))
        BY <2>1, <3>1, <3>3, AddedOnce
      <3> QED
        BY <3>3, <3>4, <1>2 DEF Added, Sound
    <2>2. CASE MakeRefusal(p) # "ok"
      <3>1. \E op, code : Answer(op, p, <<>>, code)
        BY <1>4, <2>2 DEF create, mkdir
      <3> QED
        BY <3>1, <1>3
    <2> QED
      BY <2>1, <2>2
  <1>5. ASSUME Exists(p), Entry(p).dir => readdir(Entry(p).start) = <<>>,
               NEW op, NEW code, Answer(op, p, RemovalWrites(p), code)
        PROVE  \E w, D2, path2 : Sound(w, D2, path2, DS) /\ Running(w, Volumes)'
    <2>1. PICK r : r = <<ParentDir(p), SlotIn(ParentDir(p), p)>>
      OBVIOUS
    <2>2. ToSet(Chain(Entry(p).start)) \subseteq C /\ OldSlot(p, NoEntry) \in S
      BY <1>1, <1>2, <1>5, ChainType, SlotInIsUpdate DEF Contents
    <2>3. PICK w \in Q : /\ Removed(Disk, DS, path, w, r) /\ Running(w, P)'
                         /\ Books(Disk, w, DS, Shrunk(DS, At(Disk, r)), ToSet(path[r]), {})
      BY <1>2, <1>5, <2>1, <2>2, RemoveSteps
    <2>4. NamedOnce(Disk, DS) => NamedOnce(w, Shrunk(DS, At(Disk, r)))
      <3>1. PICK D2 : D2 = Shrunk(DS, At(Disk, r))
        OBVIOUS
      <3>2. /\ Refs(w, D2) = Refs(Disk, DS) \ {r}
            /\ \A s \in Refs(Disk, DS) \ {r} : At(w, s) = At(Disk, s)
        BY <2>3, <3>1 DEF Removed
      <3>3. NamedOnce(Disk, DS) => NamedOnce(w, D2)
        BY <3>2, KeptOnce
      <3> QED
        BY <3>1, <3>3
    <2> QED
      BY <2>3, <2>4, <1>2 DEF Removed, Sound
  <1>6. CASE rmdir(p)
    <2>1. CASE RmdirRefusal(p) = "ok"
      <3>1. /\ Exists(p)
            /\ Entry(p).dir => readdir(Entry(p).start) = <<>>
            /\ \E code : Answer("rmdir", p, RemovalWrites(p), code)
        BY <1>6, <2>1 DEF rmdir, RmdirRefusal
      <3> QED
        BY <3>1, <1>5
    <2>2. CASE RmdirRefusal(p) # "ok"
      <3>1. \E code : Answer("rmdir", p, <<>>, code)
        BY <1>6, <2>2 DEF rmdir
      <3> QED
        BY <3>1, <1>3
    <2> QED
      BY <2>1, <2>2
  <1>7. CASE unlink(p)
    <2>1. CASE UnlinkRefusal(p) = "ok"
      <3>1. /\ Exists(p) /\ ~Entry(p).dir
            /\ \E code : Answer("unlink", p, RemovalWrites(p), code)
        BY <1>7, <2>1 DEF unlink, UnlinkRefusal
      <3> QED
        BY <3>1, <1>5
    <2>2. CASE UnlinkRefusal(p) # "ok"
      <3>1. \E code : Answer("unlink", p, <<>>, code)
        BY <1>7, <2>2 DEF unlink
      <3> QED
        BY <3>1, <1>3
    <2> QED
      BY <2>1, <2>2
  <1>8. ASSUME NEW buf \in DataChoices, NEW offset \in OffsetChoices, write(p, buf, offset)
        PROVE  \E w, D2, path2 : Sound(w, D2, path2, DS) /\ Running(w, Volumes)'
    <2>1. CASE open(p) = "ok"
      <3>1. PICK e, size : e = Entry(p) /\ size = NewSize(e, buf, offset)
        OBVIOUS
      <3>2. PICK buffer, chain, r : /\ buffer = FileBuffer(e, buf, offset)
                                    /\ chain = Allocated(e, size)
                                    /\ r = <<ParentDir(p), SlotIn(ParentDir(p), p)>>
        OBVIOUS
      <3>3. Exists(p) /\ e \in Entries /\ size \in Nat
        BY <1>1, <2>1, <3>1, <3>2, WriteChecked
      <3>4. Available(e, size) \subseteq C
        <4>1. PICK A : A = Available(e, size)
          OBVIOUS
        <4>2. ToSet(OldChain(e, size)) \subseteq Clusters
          BY <3>2, <3>3, <4>1, AllocatedIs
        <4> QED
          BY <4>2, <1>2 DEF Available, FreeClusters
      <3>5. \A c \in C : NewFileSlot(p, e, c, size) \in S
        <4> TAKE c \in C
        <4>1. [e EXCEPT !.start = c, !.size = size] \in Contents
          BY <3>3, <1>2, ClustersAreFinite DEF Entries, Contents
        <4> QED
          BY <4>1, <1>1, <1>2, <3>3, SlotInIsUpdate DEF NewFileSlot
      <3>6. \E u \in Q :
              /\ FilledTo(Freed(Disk, ToSet(OldChain(e, size))), u, chain, buffer,
                          Len(chain))
              /\ IF Len(chain) < ClustersNeeded(size)
                 THEN Spoilt(Disk, DS, path, u, r, OldChain(e, size), chain) /\ Running(u, P)'
                 ELSE \E w \in Q :
                      /\ chain # <<>>
                      /\ Updated(Disk, DS, path, u, w, r, chain, size)
                      /\ Running(w, P)'
        BY <1>2, <2>1, <1>8, <3>1, <3>2, <3>4, <3>5, WriteSteps
      <3>7. \E x, q : Rewritten(Disk, DS, path, x, r, q) /\ Running(x, P)'
        BY <3>6 DEF Spoilt, Updated
      <3>8. PICK x, q : Rewritten(Disk, DS, path, x, r, q) /\ Running(x, P)'
        BY <3>7
      <3>9. PICK path2 : Good(x, DS, path2)
        BY <3>8 DEF Rewritten
      <3>10. NamedOnce(Disk, DS) => NamedOnce(x, DS)
        BY <3>8, RewrittenOnce
      <3> QED
        BY <3>8, <3>9, <3>10, <1>2 DEF Sound
    <2>2. CASE open(p) # "ok"
      <3>1. Answer("write", p, <<>>, "ENOENT")
        BY <1>8, <2>2 DEF write
      <3> QED
        BY <3>1, <1>3
    <2> QED
      BY <2>1, <2>2
  <1>9. create(p) \/ mkdir(p) => \E dir \in BOOLEAN : IF dir THEN mkdir(p) ELSE create(p)
    OBVIOUS
  <1> QED
    BY <1>4, <1>6, <1>7, <1>8, <1>9

(* The inductive invariant: until the program is killed, the writes under  *)
(* way lead to a sound volume.                                             *)
SoundInv ==
    /\ crashes \in Nat
    /\ crashes = 0 => \E w, DS, path : /\ Good(w, DS, path) /\ NamedOnce(w, DS)
                                        /\ Running(w, Volumes)

(* The formatted volume has no entries.                                    *)
LEMMA FormattedGood ==
    ASSUME FormattedVolume, NEW path
    PROVE  Good(Disk, {RootDir}, path) /\ Refs(Disk, {RootDir}) = {}
  <1>1. PICK u : u = Disk
    OBVIOUS
  <1>2. u \in Volumes
    BY <1>1, FormattedOK DEF VolumeOK
  <1>3. \A i \in 1 .. RootDirEntries : Slots(u, RootDir)[i] = NoEntry
    BY <1>1 DEF FormattedVolume, Slots, Disk
  <1>4. DOMAIN Slots(u, RootDir) = 1 .. RootDirEntries
    BY <1>1 DEF FormattedVolume, Slots, Disk
  <1>5. Refs(u, {RootDir}) = {}
    BY <1>3, <1>4 DEF Refs, At, IsLive, IsEntry
  <1> QED
    BY <1>1, <1>2, <1>5 DEF Good, Apart

LEMMA SoundInit ==
    ASSUME Init
    PROVE  SoundInv
  <1>1. PICK path : path = 0
    OBVIOUS
  <1>2. Good(Disk, {RootDir}, path)
    BY FormattedGood DEF Init
  <1>3. Running(Disk, Volumes)
    BY <1>2, RunningRest DEF Init, Good
  <1>4. NamedOnce(Disk, {RootDir})
    BY FormattedGood DEF NamedOnce, Init
  <1> QED
    BY <1>2, <1>3, <1>4 DEF SoundInv, Init

LEMMA SoundNext ==
    ASSUME SoundInv, [Next]_vars
    PROVE  SoundInv'
  <1>1. crashes \in Nat
    BY DEF SoundInv
  <1>2. CASE crashes # 0
    <2>1. crashes' \in Nat /\ crashes' # 0
      <3>1. ASSUME NEW p, create(p) \/ mkdir(p) \/ rmdir(p) \/ unlink(p)
                          \/ \E buf, offset : write(p, buf, offset)
            PROVE  crashes' = crashes
        BY <3>1 DEF create, mkdir, rmdir, unlink, write, Answer
      <3>2. Flush \/ Return \/ UNCHANGED vars => crashes' = crashes
        BY DEF Flush, Return, vars
      <3>3. Crash => crashes' = crashes + 1
        BY DEF Crash
      <3> QED
        BY <3>1, <3>2, <3>3, <1>1, <1>2, NextSteps
    <2> QED
      BY <2>1 DEF SoundInv
  <1>3. CASE crashes = 0
    <2>1. PICK w, DS, path : /\ Good(w, DS, path) /\ NamedOnce(w, DS)
                             /\ Running(w, Volumes)
      BY <1>3 DEF SoundInv
    <2>2. ASSUME crashes' = crashes, NEW x, NEW D2, NEW path2,
                 Good(x, D2, path2), NamedOnce(x, D2), Running(x, Volumes)'
          PROVE  SoundInv'
      BY <1>1, <2>2 DEF SoundInv
    <2>3. CASE UNCHANGED vars
      <3>1. Disk' = Disk /\ pending' = pending /\ crashes' = crashes
        BY <2>3 DEF vars, volume, Disk
      <3>2. Running(w, Volumes)'
        BY <3>1, <2>1 DEF Running, Owes
      <3> QED
        BY <3>1, <3>2, <2>1, <2>2
    <2>4. ASSUME NEW p \in Paths,
                 \/ create(p)
                 \/ mkdir(p)
                 \/ rmdir(p)
                 \/ unlink(p)
                 \/ \E buf \in DataChoices, offset \in OffsetChoices :
                      write(p, buf, offset)
          PROVE  SoundInv'
      <3>1. pending = <<>> /\ crashes' = crashes
        BY <2>4 DEF create, mkdir, rmdir, unlink, write, Answer, Idle
      <3>2. Good(Disk, DS, path) /\ NamedOnce(Disk, DS)
        BY <3>1, <2>1, RunningIdle
      <3>3. PICK x, D2, path2 : Sound(x, D2, path2, DS) /\ Running(x, Volumes)'
        BY <3>2, <2>4, HandlersSound
      <3> QED
        BY <3>1, <3>2, <3>3, <2>2 DEF Sound
    <2>5. CASE Flush
      <3>1. Running(w, Volumes)'
        BY <2>1, <2>5, RunningFlush
      <3> QED
        BY <3>1, <2>1, <2>2, <2>5 DEF Flush
    <2>6. CASE Return
      <3>1. Disk' = w /\ w \in Volumes /\ pending' = <<>> /\ crashes' = crashes
        BY <2>1, <2>6, RunningReturn DEF Return
      <3>2. Running(w, Volumes)'
        BY <3>1, RunningRests
      <3> QED
        BY <3>1, <3>2, <2>1, <2>2
    <2>7. CASE Crash
      <3>1. crashes' = 1
        BY <1>3, <2>7 DEF Crash
      <3> QED
        BY <3>1 DEF SoundInv
    <2> QED
      BY <2>3, <2>4, <2>5, <2>6, <2>7, NextSteps
  <1> QED
    BY <1>2, <1>3

LEMMA SoundIdle ==
    ASSUME SoundInv, Idle, crashes = 0
    PROVE  \E DS, path : Good(Disk, DS, path) /\ NamedOnce(Disk, DS)
  <1>1. PICK w, DS, path : /\ Good(w, DS, path) /\ NamedOnce(w, DS)
                           /\ Running(w, Volumes)
    BY DEF SoundInv
  <1>2. Disk = w
    BY <1>1, RunningIdle DEF Idle
  <1> QED
    BY <1>1, <1>2

(* Between calls no cluster belongs to two entries, up to the first kill:  *)
(* the allocator (fat_fuse.c:764-772) never hands out a cluster that a     *)
(* live chain holds, and nothing is freed that another chain holds.        *)
THEOREM Sharing == Spec => []NoSharing
  <1>1. SoundInv => NoSharing
    <2> SUFFICES ASSUME SoundInv, Idle, crashes = 0
                 PROVE  \A r1, r2 \in LiveEntries :
                          r1 # r2 => ClustersOf(r1) \cap ClustersOf(r2) = {}
      BY DEF NoSharing
    <2>1. PICK DS, path : Good(Disk, DS, path)
      BY SoundIdle
    <2> QED
      BY <2>1, GoodIsSound
  <1>2. Init => SoundInv
    BY SoundInit
  <1>3. SoundInv /\ [Next]_vars => SoundInv'
    BY SoundNext
  <1> QED
    BY <1>1, <1>2, <1>3, PTL DEF Spec

(* Between calls every cluster of a live chain is marked in the FAT, up to *)
(* the first kill, even after a write that ran out of space and never      *)
(* updated its entry (fat_fuse.c:774-782).                                 *)
THEOREM Dangling == Spec => []NoDangling
  <1>1. SoundInv => NoDangling
    <2> SUFFICES ASSUME SoundInv, Idle, crashes = 0
                 PROVE  \A r \in LiveEntries :
                          /\ EntryAt(r).start \in Clusters
                          /\ ClustersOf(r) \cap FreeClusters = {}
      BY DEF NoDangling
    <2>1. PICK DS, path : Good(Disk, DS, path)
      BY SoundIdle
    <2> QED
      BY <2>1, GoodIsSound
  <1>2. Init => SoundInv
    BY SoundInit
  <1>3. SoundInv /\ [Next]_vars => SoundInv'
    BY SoundNext
  <1> QED
    BY <1>1, <1>2, <1>3, PTL DEF Spec

-----------------------------------------------------------------------------
(* Where the paths of a volume lie.                                        *)

(* Names that fit an 8.3 entry.                                            *)
ShortNames == \A p \in Paths : \A k \in 1 .. Len(p) : p[k][2] = ""

(* Path q is looked up in directory d: at[p] is the slot of path p, D the  *)
(* paths that are there.                                                   *)
Leads(u, D, at, q, d) ==
    \/ Len(q) = 1 /\ d = RootDir
    \/ /\ Len(q) > 1 /\ Front(q) \in D
       /\ At(u, at[Front(q)]).dir /\ d = At(u, at[Front(q)]).start

PathNames == Seq(Names) \ {<<>>}

Placed(u, D, at, p) ==
    /\ at[p] = <<at[p][1], at[p][2]>> /\ Leads(u, D, at, p, at[p][1])
    /\ at[p][2] \in DOMAIN Slots(u, at[p][1])
    /\ IsLive(At(u, at[p])) /\ At(u, at[p]).name = Last(p)

(* A live entry of directory d with the last name of q is q's.             *)
FindsIn(u, D, at, q, d) ==
    /\ d = RootDir \/ (d \in Clusters /\ u.fat[1][d] = EOC)
    /\ \A i \in DOMAIN Slots(u, d) :
          IsLive(Slots(u, d)[i]) /\ Slots(u, d)[i].name = Last(q) =>
            q \in D /\ at[q] = <<d, i>>

(* The lookup of every path but those below a path of X works on u.        *)
Tree(u, D, at, X) ==
    /\ u \in Volumes /\ D \subseteq Paths
    /\ \A p \in D : Placed(u, D, at, p) /\ (Len(p) > 1 => Front(p) \notin X)
    /\ \A q \in PathNames : \A d :
          Leads(u, D, at, q, d) /\ (Len(q) > 1 => Front(q) \notin X) =>
            FindsIn(u, D, at, q, d)

LEMMA NamesAre ==
    ASSUME NEW q \in PathNames
    PROVE  /\ Len(q) \in Nat /\ Len(q) # 0 /\ q \in [1 .. Len(q) -> Names]
           /\ q = [k \in 1 .. Len(q) |-> q[k]]
           /\ \A k \in 1 .. Len(q) - 1 : Front(q)[k] = q[k]
           /\ Len(Front(q)) = Len(q) - 1
           /\ Len(q) > 1 => Front(q) \in PathNames
           /\ Last(q) = q[Len(q)]
  <1>1. PICK n \in Nat : Len(q) = n + 1 /\ q \in [1 .. n + 1 -> Names]
    BY DEF PathNames
  <1>2. Front(q) = [k \in 1 .. n |-> q[k]]
    BY <1>1 DEF Front, PathNames
  <1>3. n # 0 => Front(q) \in PathNames
    BY <1>1, <1>2 DEF PathNames
  <1> QED
    BY <1>1, <1>2, <1>3 DEF Last

LEMMA SameName ==
    ASSUME NEW q \in PathNames, NEW p \in PathNames, Last(p) = Last(q),
           \/ Len(p) = 1 /\ Len(q) = 1
           \/ Len(p) > 1 /\ Len(q) > 1 /\ Front(p) = Front(q)
    PROVE  p = q
  <1>1. PICK n \in Nat : /\ n = Len(q) /\ n # 0 /\ Last(q) = q[n]
                        /\ Len(Front(q)) = n - 1
                        /\ q = [k \in 1 .. n |-> q[k]]
                        /\ \A k \in 1 .. n - 1 : Front(q)[k] = q[k]
    BY NamesAre
  <1>2. PICK m \in Nat : /\ m = Len(p) /\ m # 0 /\ Last(p) = p[m]
                        /\ Len(Front(p)) = m - 1
                        /\ p = [k \in 1 .. m |-> p[k]]
                        /\ \A k \in 1 .. m - 1 : Front(p)[k] = p[k]
    BY NamesAre
  <1>3. m = n
    <2>1. CASE Len(p) = 1 /\ Len(q) = 1
      BY <2>1, <1>1, <1>2
    <2>2. CASE Front(p) = Front(q)
      <3>1. n - 1 = m - 1
        BY ONLY <2>2, <1>1, <1>2
      <3> QED
        BY <3>1
    <2> QED
      BY <2>1, <2>2
  <1>4. ASSUME NEW k \in 1 .. n
        PROVE  p[k] = q[k]
    <2>1. CASE k = n
      BY <2>1, <1>1, <1>2, <1>3
    <2>2. CASE k # n
      <3>1. k \in 1 .. n - 1 /\ n # 1
        BY <2>2
      <3>2. Front(p) = Front(q)
        BY <3>1, <1>1
      <3> QED
        BY <3>1, <3>2, <1>1, <1>2, <1>3
    <2> QED
      BY <2>1, <2>2
  <1> QED
    BY <1>1, <1>2, <1>3, <1>4

LEMMA PathsNamed ==
    ASSUME NEW p \in Paths
    PROVE  /\ p \in PathNames /\ Last(p) \notin {Dot, DotDot}
           /\ \A k \in 1 .. Len(p) : p[k] \notin {Dot, DotDot}
  <1>1. Len(p) \in 1 .. Len(p)
    BY PathIs
  <1> QED
    BY <1>1, PathIs DEF PathNames

LEMMA LeadsOnce ==
    ASSUME NEW u, NEW D, NEW at, NEW q \in PathNames, NEW b, NEW d,
           Leads(u, D, at, q, b), Leads(u, D, at, q, d)
    PROVE  b = d
  <1>1. PICK n \in Nat : n = Len(q)
    BY NamesAre
  <1>2. CASE n = 1
    BY <1>1, <1>2 DEF Leads
  <1>3. CASE n # 1
    BY <1>1, <1>3 DEF Leads
  <1> QED
    BY <1>2, <1>3

(* One step of the walk along a path.                                      *)
LEMMA LookedUp ==
    ASSUME NEW D, NEW at, NEW X, Tree(Disk, D, at, X),
           NEW q \in PathNames, Last(q) \notin {Dot, DotDot},
           NEW d, Leads(Disk, D, at, q, d), Len(q) > 1 => Front(q) \notin X,
           NEW i, i = find_entry_by_name(read_directory(d), Last(q))
    PROVE  /\ i # 0 <=> q \in D
           /\ q \in D => at[q] = <<d, i>> /\ read_directory(d)[i] = At(Disk, at[q])
           /\ read_directory(d) = Slots(Disk, d)
  <1>1. FindsIn(Disk, D, at, q, d) /\ VolumeOK
    BY DEF Tree, VolumeOK
  <1>2. read_directory(d) = Slots(Disk, d) /\ d \in Clusters \cup {RootDir}
    <2>1. CASE d = RootDir
      BY <2>1 DEF read_directory, Slots, Disk
    <2>2. CASE d # RootDir
      <3>1. d \in Clusters /\ Disk.fat[1][d] = EOC
        BY <1>1, <2>2 DEF FindsIn
      <3> DEFINE p == <<d>>
      <3>2. p \in Seq(Clusters) /\ Len(p) = 1 /\ p[1] = d /\ p # <<>>
        BY <3>1
      <3> HIDE DEF p
      <3>3. OnPath(Disk, p, d)
        BY <3>1, <3>2 DEF OnPath
      <3> QED
        BY <1>1, <3>1, <3>2, <3>3, OneClusterCells
    <2> QED
      BY <2>1, <2>2
  <1>3. PICK s : s = Slots(Disk, d) /\ Len(s) \in Nat /\ DOMAIN s = 1 .. Len(s)
    BY <1>1, <1>2, SlotsType DEF VolumeOK
  <1>4. /\ i \in 0 .. Len(s)
        /\ i # 0 => IsEntry(s[i]) /\ s[i].name = Last(q)
        /\ i = 0 => \A j \in 1 .. Len(s) : ~(IsEntry(s[j]) /\ s[j].name = Last(q))
    BY <1>2, <1>3, FoundEntry
  <1>5. ASSUME i # 0
        PROVE  q \in D /\ at[q] = <<d, i>>
    <2>1. i \in DOMAIN s /\ IsLive(s[i]) /\ s[i].name = Last(q)
      BY <1>3, <1>4, <1>5 DEF IsLive
    <2> QED
      BY <2>1, <1>1, <1>3 DEF FindsIn
  <1>6. ASSUME q \in D
        PROVE  i # 0
    <2>1. Placed(Disk, D, at, q)
      BY <1>6 DEF Tree
    <2>2. at[q][1] = d
      <3>1. PICK b : b = at[q][1]
        OBVIOUS
      <3>2. Leads(Disk, D, at, q, b)
        BY <2>1, <3>1 DEF Placed
      <3>3. b = d
        BY <3>2, LeadsOnce
      <3> QED
        BY <3>1, <3>3
    <2>3. at[q][2] \in DOMAIN s /\ IsEntry(s[at[q][2]]) /\ s[at[q][2]].name = Last(q)
      BY <2>1, <2>2, <1>3 DEF Placed, At, IsLive
    <2> QED
      BY <2>3, <1>3, <1>4
  <1>7. ASSUME q \in D
        PROVE  read_directory(d)[i] = At(Disk, at[q])
    <2>1. at[q] = <<d, i>>
      BY <1>5, <1>6, <1>7
    <2>2. at[q][1] = d /\ at[q][2] = i
      BY <2>1
    <2> QED
      BY <2>2, <1>2 DEF At
  <1> QED
    BY <1>2, <1>5, <1>6, <1>7

(* The first k names of a path.                                            *)
Prefix(q, k) == [j \in 1 .. k |-> q[j]]

LEMMA PrefixIs ==
    ASSUME NEW q \in PathNames, NEW k \in 1 .. Len(q)
    PROVE  /\ Prefix(q, k) \in PathNames /\ Len(Prefix(q, k)) = k
           /\ Last(Prefix(q, k)) = q[k]
           /\ k > 1 => Front(Prefix(q, k)) = Prefix(q, k - 1)
           /\ Prefix(q, Len(q)) = q
           /\ Len(q) > 1 => Front(q) = Prefix(q, Len(q) - 1)
  <1>1. PICK n \in Nat : n = Len(q) /\ n # 0 /\ q \in [1 .. n -> Names]
    BY NamesAre
  <1>2. ASSUME NEW m \in 1 .. n
        PROVE  /\ Prefix(q, m) \in PathNames /\ Len(Prefix(q, m)) = m
               /\ Last(Prefix(q, m)) = q[m]
               /\ Front(Prefix(q, m)) = Prefix(q, m - 1)
    <2>1. Prefix(q, m) \in [1 .. m -> Names]
      BY <1>1 DEF Prefix
    <2>2. Prefix(q, m) \in Seq(Names) /\ Len(Prefix(q, m)) = m /\ Prefix(q, m)[m] = q[m]
      BY <2>1 DEF Prefix
    <2>3. Prefix(q, m) \in PathNames
      BY <2>2 DEF PathNames
    <2>4. Front(Prefix(q, m)) = [j \in 1 .. m - 1 |-> Prefix(q, m)[j]]
      BY <2>1, <2>2 DEF Front
    <2>5. [j \in 1 .. m - 1 |-> Prefix(q, m)[j]] = [j \in 1 .. m - 1 |-> q[j]]
      BY DEF Prefix
    <2> QED
      BY <2>2, <2>3, <2>4, <2>5 DEF Last, Prefix
  <1>3. Prefix(q, n) = q
    BY <1>1 DEF Prefix
  <1>4. n \in 1 .. n
    BY <1>1
  <1> QED
    BY <1>1, <1>2, <1>3, <1>4

(* How far a lookup may look.                                              *)
Visible(X, q) == \A k \in 1 .. Len(q) - 1 : Prefix(q, k) \notin X

LEMMA Resolved ==
    ASSUME NEW D, NEW at, NEW X, Tree(Disk, D, at, X), NEW q \in Paths, Visible(X, q)
    PROVE  /\ IF ParentDir(q) = Lost THEN \A d : ~Leads(Disk, D, at, q, d)
                                     ELSE Leads(Disk, D, at, q, ParentDir(q))
           /\ Exists(q) <=> q \in D
           /\ q \in D => /\ at[q] = <<ParentDir(q), SlotIn(ParentDir(q), q)>>
                         /\ Entry(q) = At(Disk, at[q])
           /\ ParentDir(q) # Lost => read_directory(ParentDir(q)) = Slots(Disk, ParentDir(q))
  <1>1. q \in PathNames /\ \A k \in 1 .. Len(q) : q[k] \notin {Dot, DotDot}
    BY PathsNamed
  <1>2. PICK n \in Nat : Len(q) = n + 1
    <2>1. PICK m \in Nat : m = Len(q) /\ m # 0
      BY <1>1, NamesAre
    <2>2. m - 1 \in Nat /\ m = (m - 1) + 1
      BY <2>1
    <2> QED
      BY <2>1, <2>2
  <1>3. PICK walk :
          /\ walk[0] = RootDir
          /\ \A k \in 1 .. n : walk[k] = Walked(walk[k - 1], q[k])
          /\ ParentDir(q) = walk[n]
    <2>1. PICK tokens : tokens = Front(q)
      OBVIOUS
    <2>2. /\ Len(tokens) = n /\ DOMAIN tokens = 1 .. n
          /\ \A k \in 1 .. n : tokens[k] = q[k]
      BY <2>1, <1>2, PathIs
    <2>3. \E walk :
            /\ walk[0] = RootDir
            /\ \A k \in 1 .. n : walk[k] = Walked(walk[k - 1], tokens[k])
            /\ change_dir(RootDir, tokens) = walk[n]
      BY <2>2, ChangeDirIs
    <2> QED
      BY <2>1, <2>2, <2>3 DEF ParentDir
  <1>4. ASSUME NEW p \in PathNames, NEW c, c # Lost, Leads(Disk, D, at, p, c),
               Last(p) \notin {Dot, DotDot}, Len(p) > 1 => Front(p) \notin X
        PROVE  IF p \in D /\ At(Disk, at[p]).dir
               THEN Enter(c, Last(p)) = At(Disk, at[p]).start /\ Enter(c, Last(p)) # Lost
               ELSE Enter(c, Last(p)) = Lost
    <2>1. PICK i : i = find_entry_by_name(read_directory(c), Last(p))
      OBVIOUS
    <2>2. /\ i # 0 <=> p \in D
          /\ p \in D => read_directory(c)[i] = At(Disk, at[p])
      BY <2>1, <1>4, LookedUp
    <2>3. Enter(c, Last(p)) = IF i # 0 /\ read_directory(c)[i].dir
                              THEN read_directory(c)[i].start ELSE Lost
      BY <2>1, <1>4 DEF Enter
    <2>4. i # 0 => read_directory(c)[i] \in Entries
      BY <2>1, FoundInDirectory DEF Tree, VolumeOK
    <2>5. i # 0 => read_directory(c)[i].start # Lost
      BY <2>4 DEF Entries, Lost
    <2> QED
      BY <2>2, <2>3, <2>5
  <1> DEFINE Known(k) == IF walk[k] = Lost THEN \A d : ~Leads(Disk, D, at, Prefix(q, k + 1), d)
                         ELSE Leads(Disk, D, at, Prefix(q, k + 1), walk[k])
             T == {k \in 0 .. n : Known(k)}
  <1>5. 0 \in T
    <2>1. Len(Prefix(q, 0 + 1)) = 1
      <3>1. 1 \in 1 .. Len(q) /\ 0 + 1 = 1
        BY <1>2
      <3>2. Len(Prefix(q, 1)) = 1
        BY ONLY <3>1, <1>1, PrefixIs
      <3> QED
        BY <3>1, <3>2
    <2> QED
      BY <2>1, <1>2, <1>3 DEF Leads, RootDir, Lost
  <1>6. ASSUME NEW k \in 0 .. n - 1, k \in T
        PROVE  k + 1 \in T
    <2>1. PICK p, p2, c : p = Prefix(q, k + 1) /\ p2 = Prefix(q, k + 2) /\ c = walk[k]
      OBVIOUS
    <2>2. /\ p \in PathNames /\ Len(p) = k + 1 /\ Last(p) = q[k + 1]
          /\ Len(p) > 1 => Front(p) = Prefix(q, k) /\ k \in 1 .. Len(q) - 1
          /\ Len(p2) = k + 2 /\ Front(p2) = p
      <3>1. k + 1 \in 1 .. Len(q) /\ k + 2 \in 1 .. Len(q)
            /\ k + 2 > 1 /\ (k + 2) - 1 = k + 1 /\ (k + 1) - 1 = k
        BY <1>2
      <3>2. Len(p2) = k + 2 /\ Front(p2) = p
        BY ONLY <3>1, <2>1, <1>1, PrefixIs
      <3>3. /\ p \in PathNames /\ Len(p) = k + 1 /\ Last(p) = q[k + 1]
            /\ k + 1 > 1 => Front(p) = Prefix(q, k)
        BY ONLY <3>1, <2>1, <1>1, PrefixIs
      <3>4. k + 1 > 1 => k \in 1 .. Len(q) - 1
        BY <1>2
      <3> QED
        BY <3>2, <3>3, <3>4
    <2>3. Last(p) \notin {Dot, DotDot} /\ (Len(p) > 1 => Front(p) \notin X)
      <3>1. k + 1 \in 1 .. Len(q)
        BY <1>2
      <3> QED
        BY <3>1, <2>2, <1>1 DEF Visible
    <2>4. walk[k + 1] = Walked(c, Last(p))
      <3>1. k + 1 \in 1 .. n /\ (k + 1) - 1 = k
        OBVIOUS
      <3> QED
        BY <3>1, <2>1, <2>2, <1>3
    <2>5. IF c = Lost THEN \A d : ~Leads(Disk, D, at, p, d) ELSE Leads(Disk, D, at, p, c)
      BY <2>1, <1>6
    <2>6. IF walk[k + 1] = Lost THEN \A d : ~Leads(Disk, D, at, p2, d)
                                ELSE Leads(Disk, D, at, p2, walk[k + 1])
      <3>1. Len(p2) > 1 /\ Len(p2) # 1
        BY <2>2
      <3>2. CASE c = Lost
        <4>1. walk[k + 1] = Lost
          BY <3>2, <2>4 DEF Walked
        <4>2. p \notin D
          BY <3>2, <2>5 DEF Tree, Placed
        <4> QED
          BY <4>1, <4>2, <3>1, <2>2 DEF Leads
      <3>3. CASE c # Lost
        <4>1. walk[k + 1] = Enter(c, Last(p))
          BY <3>3, <2>4 DEF Walked
        <4>2. IF p \in D /\ At(Disk, at[p]).dir
              THEN Enter(c, Last(p)) = At(Disk, at[p]).start /\ Enter(c, Last(p)) # Lost
              ELSE Enter(c, Last(p)) = Lost
          BY <3>3, <2>2, <2>3, <2>5, <1>4
        <4> QED
          BY <4>1, <4>2, <3>1, <2>2 DEF Leads
      <3> QED
        BY <3>2, <3>3
    <2>7. (k + 1) + 1 = k + 2 /\ k + 1 \in 0 .. n
      OBVIOUS
    <2> QED
      BY <2>1, <2>6, <2>7
  <1> HIDE DEF T
  <1>7. n \in T
    <2>1. \A k \in 0 .. n : k \in T
      BY <1>5, <1>6, UpTo
    <2> QED
      BY <2>1
  <1>8. Prefix(q, n + 1) = q
    <2>1. n + 1 \in 1 .. Len(q)
      BY <1>2
    <2> QED
      BY <2>1, <1>1, <1>2, PrefixIs
  <1>9. PICK d : d = ParentDir(q)
    OBVIOUS
  <1>10. IF d = Lost THEN \A b : ~Leads(Disk, D, at, q, b) ELSE Leads(Disk, D, at, q, d)
    BY <1>3, <1>7, <1>8, <1>9 DEF T
  <1>11. CASE d = Lost
    <2>1. SlotIn(d, q) = 0 /\ q \notin D
      BY <1>10, <1>11 DEF SlotIn, Tree, Placed
    <2> QED
      BY <2>1, <1>9, <1>10, <1>11 DEF Exists
  <1>12. CASE d # Lost
    <2>1. PICK i : i = find_entry_by_name(read_directory(d), Last(q))
      OBVIOUS
    <2>2. Len(q) > 1 => Front(q) \notin X
      <3>1. ASSUME n # 0
            PROVE  n \in 1 .. Len(q) - 1 /\ Front(q) = Prefix(q, n)
        <4>1. Len(q) \in 1 .. Len(q) /\ Len(q) > 1 /\ Len(q) - 1 = n /\ n \in 1 .. Len(q) - 1
          BY <1>2, <3>1
        <4> QED
          BY <4>1, <1>1, PrefixIs
      <3> QED
        BY <3>1, <1>2 DEF Visible
    <2>3. Last(q) \notin {Dot, DotDot}
      BY PathsNamed
    <2>4. /\ i # 0 <=> q \in D
          /\ q \in D => at[q] = <<d, i>> /\ read_directory(d)[i] = At(Disk, at[q])
          /\ read_directory(d) = Slots(Disk, d)
      BY <2>1, <2>2, <2>3, <1>1, <1>10, <1>12, LookedUp
    <2>5. SlotIn(d, q) = i
      BY <2>1, <1>12 DEF SlotIn
    <2> QED
      BY <2>4, <2>5, <1>9, <1>10, <1>12 DEF Exists, Entry
  <1> QED
    BY <1>11, <1>12

-----------------------------------------------------------------------------
(* The paths of a sound volume: at gives each its slot.                    *)

(* Path p names the entry in its slot.                                     *)
Names1(u, DS, D, at, p) ==
    /\ at[p] \in Refs(u, DS)
    /\ At(u, at[p]).name = Last(p)
    /\ Leads(u, D, at, p, at[p][1])

Named(u, DS, D, at) ==
    /\ D \subseteq Paths
    /\ \A p \in D : Names1(u, DS, D, at, p)
    /\ \A p, q \in D : at[p] = at[q] => p = q
    /\ \A r \in Refs(u, DS) : \E p \in D : at[p] = r

(* A directory that a path leads to is one cluster that is its own.        *)
LEMMA LeadsIn ==
    ASSUME NEW u, NEW DS, NEW path, Good(u, DS, path), NEW D, NEW at,
           Named(u, DS, D, at), NEW q \in PathNames, NEW d, Leads(u, D, at, q, d)
    PROVE  /\ d \in DS
           /\ d # RootDir => d \in Clusters /\ u.fat[1][d] = EOC
           /\ d = RootDir <=> Len(q) = 1
  <1>1. CASE Len(q) = 1
    BY <1>1 DEF Leads, Good
  <1>2. CASE Len(q) # 1
    <2>1. Front(q) \in D /\ At(u, at[Front(q)]).dir /\ d = At(u, at[Front(q)]).start
      BY <1>2 DEF Leads
    <2>2. PICK r : r = at[Front(q)] /\ r \in Refs(u, DS)
      BY <2>1 DEF Named, Names1
    <2>3. At(u, r).dir /\ d = At(u, r).start
      BY <2>1, <2>2
    <2>4. d \in DS /\ Len(path[r]) = 1 /\ OnPath(u, path[r], d)
      BY <2>2, <2>3 DEF Good
    <2>5. path[r][1] = d /\ u.fat[1][path[r][1]] = EOC /\ 1 \in 1 .. Len(path[r])
      BY <2>4 DEF OnPath
    <2>6. d \in Clusters
      BY <2>4, <2>5, OnPathMarked
    <2> QED
      BY <1>2, <2>4, <2>5, <2>6, ClustersAreFinite
  <1> QED
    BY <1>1, <1>2

(* Two paths of the same directory with the same last name are the same.   *)
LEMMA LeadsApart ==
    ASSUME NEW u, NEW DS, NEW path, Good(u, DS, path), NEW D, NEW at,
           Named(u, DS, D, at), NEW p \in PathNames, NEW q \in PathNames,
           NEW d, Leads(u, D, at, p, d), Leads(u, D, at, q, d), Last(p) = Last(q)
    PROVE  p = q
  <1>1. d = RootDir => Len(p) = 1 /\ Len(q) = 1
    BY LeadsIn
  <1>2. d # RootDir => Len(p) # 1 /\ Len(q) # 1
    BY LeadsIn
  <1>3. CASE d = RootDir
    BY <1>1, <1>3, SameName
  <1>4. CASE d # RootDir
    <2>1. /\ Len(p) > 1 /\ Front(p) \in D
          /\ At(u, at[Front(p)]).dir /\ d = At(u, at[Front(p)]).start
      BY <1>2, <1>4 DEF Leads
    <2>2. /\ Len(q) > 1 /\ Front(q) \in D
          /\ At(u, at[Front(q)]).dir /\ d = At(u, at[Front(q)]).start
      BY <1>2, <1>4 DEF Leads
    <2>3. PICK r, s : r = at[Front(p)] /\ s = at[Front(q)]
      OBVIOUS
    <2>4. r \in Refs(u, DS) /\ s \in Refs(u, DS)
      BY <2>1, <2>2, <2>3 DEF Named, Names1
    <2>5. OnPath(u, path[r], d) /\ OnPath(u, path[s], d)
      BY <2>1, <2>2, <2>3, <2>4 DEF Good
    <2>6. /\ path[r][1] = d /\ 1 \in 1 .. Len(path[r])
          /\ path[s][1] = d /\ 1 \in 1 .. Len(path[s])
      BY <2>5 DEF OnPath
    <2>7. Apart(path, Refs(u, DS))
      BY DEF Good
    <2>8. r = s
      BY <2>4, <2>6, <2>7 DEF Apart
    <2>9. Front(p) = Front(q)
      BY <2>1, <2>2, <2>3, <2>8 DEF Named
    <2> QED
      BY <2>1, <2>2, <2>9, SameName
  <1> QED
    BY <1>3, <1>4

LEMMA NamedPlaced ==
    ASSUME NEW u, NEW DS, NEW path, Good(u, DS, path), NEW D, NEW at,
           Named(u, DS, D, at), NEW p \in D
    PROVE  Placed(u, D, at, p) /\ p \in PathNames /\ at[p] \in Refs(u, DS)
  <1>1. PICK r : r = at[p]
    OBVIOUS
  <1>2. /\ r \in Refs(u, DS) /\ At(u, r).name = Last(p)
        /\ Leads(u, D, at, p, at[p][1]) /\ p \in Paths
    BY <1>1 DEF Named, Names1
  <1>3. r = <<r[1], r[2]>> /\ r[2] \in DOMAIN Slots(u, r[1]) /\ IsLive(At(u, r))
    BY <1>2, RefType DEF Refs, Good
  <1> QED
    BY <1>1, <1>2, <1>3, PathsNamed DEF Placed

LEMMA NamedTree ==
    ASSUME NEW u, NEW DS, NEW path, Good(u, DS, path), NEW D, NEW at,
           Named(u, DS, D, at)
    PROVE  Tree(u, D, at, {})
  <1>1. ASSUME NEW q \in PathNames, NEW d, Leads(u, D, at, q, d),
               NEW i \in DOMAIN Slots(u, d), IsLive(Slots(u, d)[i]),
               Slots(u, d)[i].name = Last(q)
        PROVE  q \in D /\ at[q] = <<d, i>>
    <2>1. d \in DS /\ d \in Clusters \cup {RootDir} /\ u \in Volumes
      BY <1>1, LeadsIn DEF Good
    <2>2. i \in Nat
      BY <2>1, <1>1, SlotsType
    <2>3. PICK r : r = <<d, i>>
      OBVIOUS
    <2>4. r \in Refs(u, DS) /\ At(u, r) = Slots(u, d)[i] /\ r[1] = d
      BY <2>1, <2>2, <2>3, <1>1 DEF Refs, At
    <2>5. PICK p \in D : at[p] = r
      BY <2>4 DEF Named
    <2>6. /\ At(u, at[p]).name = Last(p) /\ p \in PathNames
          /\ Leads(u, D, at, p, at[p][1])
      BY NamedPlaced DEF Placed
    <2>7. Leads(u, D, at, p, d) /\ Last(p) = Last(q)
      BY  <2>4, <2>5, <2>6, <1>1
    <2>8. p = q
      BY <2>6, <2>7, <1>1, LeadsApart
    <2> QED
      BY <2>3, <2>5, <2>8
  <1>2. ASSUME NEW q \in PathNames, NEW d, Leads(u, D, at, q, d)
        PROVE  FindsIn(u, D, at, q, d)
    <2>1. d = RootDir \/ (d \in Clusters /\ u.fat[1][d] = EOC)
      BY <1>2, LeadsIn
    <2> QED
      BY <1>1, <1>2, <2>1 DEF FindsIn
  <1>3. \A p \in D : Placed(u, D, at, p)
    BY NamedPlaced
  <1> QED
    BY <1>2, <1>3 DEF Tree, Named, Good

(* A path that was led to still is.                                        *)
LEMMA LeadsKept ==
    ASSUME NEW u, NEW w, NEW D, NEW D2, NEW at, NEW at2, NEW q, NEW d,
           Leads(u, D, at, q, d),
           Front(q) \in D => /\ Front(q) \in D2
                             /\ At(w, at2[Front(q)]).dir = At(u, at[Front(q)]).dir
                             /\ \/ At(w, at2[Front(q)]).start = At(u, at[Front(q)]).start
                                \/ ~At(u, at[Front(q)]).dir
    PROVE  Leads(w, D2, at2, q, d)
  BY DEF Leads

With(D, at, p, r) == [q \in D \cup {p} |-> IF q = p THEN r ELSE at[q]]

LEMMA NamedAdd ==
    ASSUME NEW u, NEW DS, NEW path, Good(u, DS, path), NEW D, NEW at,
           Named(u, DS, D, at), NEW w, NEW r, NEW e, Added(u, DS, path, w, r, e),
           NEW p \in Paths, p \notin D, e.name = Last(p), Leads(u, D, at, p, r[1]),
           NEW E, E = Grown(DS, e), NEW D2, D2 = D \cup {p},
           NEW at2, at2 = With(D, at, p, r)
    PROVE  Named(w, E, D2, at2)
  <1>1. /\ Refs(w, E) = Refs(u, DS) \cup {r} /\ r \notin Refs(u, DS)
        /\ At(w, r) = e
        /\ \A s \in Refs(u, DS) : At(w, s) = At(u, s)
    BY DEF Added
  <1>2. /\ at2[p] = r
        /\ \A q \in D : at2[q] = at[q] /\ q # p
    BY DEF With
  <1>3. \A q \in D : at[q] \in Refs(u, DS) /\ At(w, at2[q]) = At(u, at[q])
    BY <1>1, <1>2 DEF Named, Names1
  <1>4. ASSUME NEW q, NEW d, Leads(u, D, at, q, d)
        PROVE  Leads(w, D2, at2, q, d)
    <2>1. Front(q) \in D => /\ Front(q) \in D2
                            /\ At(w, at2[Front(q)]) = At(u, at[Front(q)])
      BY <1>3
    <2> QED
      BY <2>1, <1>4, LeadsKept
  <1>5. ASSUME NEW q \in D2 PROVE Names1(w, E, D2, at2, q)
    <2>1. CASE q = p
      BY <2>1, <1>1, <1>2, <1>4 DEF Names1
    <2>2. CASE q # p
      <3>1. Names1(u, DS, D, at, q) /\ q \in D
        BY <2>2 DEF Named
      <3>2. Leads(w, D2, at2, q, at2[q][1])
        BY <3>1, <1>2, <1>4 DEF Names1
      <3> QED
        BY <3>1, <3>2, <1>1, <1>2, <1>3 DEF Names1
    <2> QED
      BY <2>1, <2>2
  <1>6. \A q, s \in D2 : at2[q] = at2[s] => q = s
    BY <1>1, <1>2, <1>3 DEF Named
  <1>7. \A s \in Refs(w, E) : \E q \in D2 : at2[q] = s
    BY <1>1, <1>2 DEF Named
  <1>8. D2 \subseteq Paths
    BY DEF Named
  <1> QED
    BY <1>5, <1>6, <1>7, <1>8 DEF Named

LEMMA NamedRemove ==
    ASSUME NEW u, NEW DS, NEW path, Good(u, DS, path), NEW D, NEW at,
           Named(u, DS, D, at), NEW p \in D, NEW w, NEW r, r = at[p],
           Removed(u, DS, path, w, r),
           NEW E, E = Shrunk(DS, At(u, r)), NEW D2, D2 = D \ {p}
    PROVE  Named(w, E, D2, at) /\ \A q \in D : Len(q) > 1 => Front(q) # p
  <1>1. /\ Refs(w, E) = Refs(u, DS) \ {r} /\ r \in Refs(u, DS)
        /\ \A s \in Refs(u, DS) \ {r} : At(w, s) = At(u, s)
        /\ r[1] \in E
    BY DEF Removed
  <1>2. ASSUME NEW q \in D, q # p
        PROVE  at[q] \in Refs(w, E) /\ At(w, at[q]) = At(u, at[q])
    BY <1>1, <1>2 DEF Named, Names1
  <1>3. ASSUME NEW q \in D, Len(q) > 1, Front(q) = p PROVE FALSE
    <2>1. Leads(u, D, at, q, at[q][1])
      BY DEF Named, Names1
    <2>2. At(u, r).dir /\ at[q][1] = At(u, r).start
      <3>1. Len(q) # 1
        <4>1. PICK n \in Nat : n = Len(q)
          BY PathIs DEF Named
        <4>2. n > 1
          BY <4>1, <1>3
        <4> QED
          BY <4>1, <4>2
      <3> QED
        BY <2>1, <3>1, <1>3 DEF Leads
    <2>3. at[q][1] \notin E
      BY <2>2 DEF Shrunk
    <2>4. q # p
      BY <2>3, <1>1
    <2>5. at[q] \in Refs(w, E)
      BY <2>4, <1>2
    <2> QED
      BY <2>3, <2>5 DEF Refs
  <1>4. ASSUME NEW q \in D2 PROVE Names1(w, E, D2, at, q)
    <2>1. Names1(u, DS, D, at, q) /\ q \in D /\ q # p
      BY DEF Named
    <2>2. Leads(u, D, at, q, at[q][1])
      BY <2>1 DEF Names1
    <2>3. Leads(w, D2, at, q, at[q][1])
      <3>1. CASE Len(q) = 1
        BY <3>1, <2>2 DEF Leads
      <3>2. CASE Len(q) # 1
        <4>1. Len(q) > 1 /\ Front(q) \in D
          BY <3>2, <2>2 DEF Leads
        <4>2. Front(q) # p
          BY <4>1, <2>1, <1>3
        <4>3. At(w, at[Front(q)]) = At(u, at[Front(q)])
          BY <4>1, <4>2, <1>2
        <4> QED
          BY <4>1, <4>2, <4>3, <2>2, LeadsKept
      <3> QED
        BY <3>1, <3>2
    <2> QED
      BY <2>1, <2>3, <1>2 DEF Names1
  <1>5. \A s \in Refs(w, E) : \E q \in D2 : at[q] = s
    BY <1>1 DEF Named
  <1> QED
    BY <1>3, <1>4, <1>5 DEF Named

LEMMA NamedRewrite ==
    ASSUME NEW u, NEW DS, NEW path, Good(u, DS, path), NEW D, NEW at,
           Named(u, DS, D, at), NEW w, NEW r, NEW c, Rewritten(u, DS, path, w, r, c)
    PROVE  Named(w, DS, D, at)
  <1>1. /\ Refs(w, DS) = Refs(u, DS)
        /\ ~At(u, r).dir /\ ~At(w, r).dir /\ At(w, r).name = At(u, r).name
        /\ \A s \in Refs(u, DS) \ {r} : At(w, s) = At(u, s)
    BY DEF Rewritten
  <1>2. ASSUME NEW q \in D
        PROVE  /\ at[q] \in Refs(w, DS)
               /\ At(w, at[q]).name = At(u, at[q]).name
               /\ At(w, at[q]) = At(u, at[q]) \/ (~At(u, at[q]).dir /\ ~At(w, at[q]).dir)
    BY <1>1 DEF Named, Names1
  <1>3. ASSUME NEW q \in D PROVE Names1(w, DS, D, at, q)
    <2>1. Names1(u, DS, D, at, q)
      BY DEF Named
    <2>2. Leads(u, D, at, q, at[q][1])
      BY <2>1 DEF Names1
    <2>3. Leads(w, D, at, q, at[q][1])
      BY <2>2, <1>2 DEF Leads
    <2> QED
      BY <2>1, <2>3, <1>2 DEF Names1
  <1> QED
    BY <1>1, <1>3 DEF Named

-----------------------------------------------------------------------------
(* What the files hold.                                                    *)

(* The clusters p of the file behind e hold data.                          *)
Stores(u, e, p, data) ==
    /\ data \in Seq(Contents) /\ e.size = Len(data) /\ Len(data) <= MaxSize
    /\ \A i, j \in 1 .. Len(p) : i < j => p[i] < p[j]
    /\ Len(data) # 0 =>
          /\ Len(data) <= Len(p) * ClusterSize
          /\ \A i \in 1 .. Len(p) : Len(u.area[p[i]]) = ClusterSize
          /\ \A i \in 1 .. Len(p), j \in 1 .. ClusterSize :
                Place(i, j) <= Len(data) => u.area[p[i]][j] = data[Place(i, j)]

(* A program sees s of the entry e.                                        *)
Seen(u, e, p, s) ==
    /\ s = [dir |-> e.dir, data |-> s.data]
    /\ IF e.dir THEN s.data = <<>> ELSE Stores(u, e, p, s.data)

Views(u, D, at, path, V) ==
    /\ V = [p \in D |-> V[p]]
    /\ \A p \in D : Seen(u, At(u, at[p]), path[at[p]], V[p])

LEMMA StoresReads ==
    ASSUME VolumeOK, NEW e, NEW p, OnPath(Disk, p, e.start),
           NEW data, Stores(Disk, e, p, data), NEW cells, cells = Cells(e.start)
    PROVE  /\ cells \in Seq(Contents)
           /\ \A k \in 1 .. Len(data) : k <= Len(cells) /\ cells[k] = data[k]
  <1>1. cells \in Seq(Contents)
    BY CellsType
  <1>2. PICK m \in Nat : m = Len(p) /\ p \in Seq(Clusters)
    BY DEF OnPath
  <1>3. PICK n \in Nat : n = Len(data)
    BY DEF Stores
  <1>4. ASSUME NEW k \in 1 .. n
        PROVE  k <= Len(cells) /\ cells[k] = data[k]
    <2>1. /\ n <= m * ClusterSize
          /\ \A i \in 1 .. m : Len(area[p[i]]) = ClusterSize
          /\ \A i \in 1 .. m, j \in 1 .. ClusterSize :
                Place(i, j) <= n => area[p[i]][j] = data[Place(i, j)]
      <3>1. n # 0
        OBVIOUS
      <3> QED
        BY <3>1, <1>2, <1>3 DEF Stores, Disk
    <2>2. IsPath(p, e.start)
      BY DEF OnPath, IsPath, Disk, get_fat_entry
    <2>3. /\ m * ClusterSize <= Len(cells)
          /\ \A i \in 1 .. m, j \in 1 .. ClusterSize : cells[Place(i, j)] = area[p[i]][j]
      <3>1. \A i \in 1 .. Len(p) : Len(area[p[i]]) = ClusterSize
        BY <2>1, <1>2
      <3> QED
        BY <3>1, <2>2, <1>2, CellsStart
    <2>4. m * ClusterSize \in Nat /\ Len(cells) \in Nat
      BY <1>1, <1>2, Multiples
    <2>5. k \in 1 .. m * ClusterSize
      BY <2>1, <2>4
    <2>6. PICK i \in 1 .. m, j \in 1 .. ClusterSize : k = Place(i, j)
      BY <2>5, PlaceOf
    <2>7. cells[k] = area[p[i]][j] /\ area[p[i]][j] = data[k]
      BY <2>1, <2>3, <2>6
    <2>8. k <= Len(cells)
      BY <2>1, <2>3, <2>4
    <2> QED
      BY <2>7, <2>8
  <1> QED
    BY <1>1, <1>3, <1>4

LEMMA ReadsData ==
    ASSUME VolumeOK, NEW e, NEW p, OnPath(Disk, p, e.start),
           NEW data, Stores(Disk, e, p, data)
    PROVE  SubSeq(FileContent(e, e.size, Junk), 0 + 1, Min({0 + MaxSize, e.size})) = data
  <1>1. PICK n \in Nat : n = Len(data) /\ e.size = n /\ data = [k \in 1 .. n |-> data[k]]
                         /\ n <= MaxSize /\ data \in Seq(Contents)
    <2>1. data \in Seq(Contents) /\ e.size = Len(data) /\ Len(data) <= MaxSize
      BY DEF Stores
    <2>2. Len(data) \in Nat /\ data = [k \in 1 .. Len(data) |-> data[k]]
      BY <2>1
    <2> QED
      BY <2>1, <2>2
  <1>2. PICK cells : cells = Cells(e.start)
    OBVIOUS
  <1>3. \A k \in 1 .. n : k <= Len(cells) /\ cells[k] = data[k]
    BY <1>1, <1>2, StoresReads
  <1>4. FileContent(e, e.size, Junk) = data
    <2>1. FileContent(e, e.size, Junk) =
            [k \in 1 .. n |-> IF k <= n /\ k <= Len(cells) THEN cells[k] ELSE Junk]
      BY <1>1, <1>2 DEF FileContent
    <2>2. \A k \in 1 .. n : k <= n
      OBVIOUS
    <2>3. FileContent(e, e.size, Junk) = [k \in 1 .. n |-> data[k]]
      BY <2>1, <2>2, <1>3
    <2> QED
      BY <2>3, <1>1
  <1>5. Min({0 + MaxSize, e.size}) = n /\ 0 + 1 = 1
    <2>1. PICK M \in Nat : M = 0 + MaxSize /\ n <= M
      BY <1>1, CallsAssumption
    <2>2. Min({M, n}) = n
      <3>1. Min({M, n}) = IF M <= n THEN M ELSE n
        BY MinOfTwo
      <3> QED
        BY <2>1, <3>1
    <2>3. 0 + MaxSize = M /\ e.size = n
      BY <2>1, <1>1
    <2>4. Min({0 + MaxSize, e.size}) = Min({M, n})
      BY ONLY <2>3
    <2> QED
      BY <2>2, <2>4
  <1>6. SubSeq(data, 1, n) = data
    <2>1. PICK kept : kept = SubSeq(data, 1, n)
      OBVIOUS
    <2>2. n \in 0 .. Len(data)
      BY <1>1
    <2>3. kept \in Seq(Contents) /\ Len(kept) = n /\ \A i \in 1 .. n : kept[i] = data[i]
      BY <2>1, <2>2, <1>1, FrontIs
    <2>4. kept = [k \in 1 .. n |-> kept[k]]
      BY <2>3
    <2>5. kept = [k \in 1 .. n |-> data[k]]
      BY <2>3, <2>4
    <2> QED
      BY <2>1, <2>5, <1>1
  <1> QED
    BY <1>4, <1>5, <1>6

(* What is read of one path.                                               *)
LEMMA OneStored ==
    ASSUME NEW D, NEW at, NEW X, Tree(Disk, D, at, X), NEW q \in Paths, Visible(X, q),
           NEW e, e = At(Disk, at[q]), NEW p, q \in D => e.dir \/ OnPath(Disk, p, e.start),
           NEW s, q \in D => Seen(Disk, e, p, s)
    PROVE  /\ q \in DOMAIN Stored <=> q \in D
           /\ q \in D => Stored[q] = s
  <1>1. Exists(q) <=> q \in D
    BY Resolved
  <1>2. DOMAIN Stored = {x \in Paths : Exists(x)}
    BY DEF Stored
  <1>3. ASSUME q \in D PROVE Stored[q] = s
    <2>1. Entry(q) = e /\ Exists(q)
      BY <1>3, Resolved
    <2>2. Stored[q] = [dir |-> getattr(q).dir,
                       data |-> IF open(q) = "ok" THEN read(q, MaxSize, 0) ELSE <<>>]
      BY <2>1 DEF Stored
    <2>3. getattr(q).dir = e.dir
      BY <2>1 DEF getattr
    <2>4. open(q) = "ok" <=> ~e.dir
      BY <2>1 DEF open
    <2>5. s = [dir |-> e.dir, data |-> s.data]
      BY <1>3 DEF Seen
    <2>6. CASE e.dir
      <3>1. s.data = <<>>
        BY <2>6, <1>3 DEF Seen
      <3> QED
        BY <2>2, <2>3, <2>4, <2>5, <2>6, <3>1
    <2>7. CASE ~e.dir
      <3>1. Stores(Disk, e, p, s.data) /\ OnPath(Disk, p, e.start) /\ VolumeOK
        BY <2>7, <1>3 DEF Seen, Tree, VolumeOK
      <3>2. SubSeq(FileContent(e, e.size, Junk), 0 + 1, Min({0 + MaxSize, e.size})) = s.data
        BY <3>1, ReadsData
      <3>3. read(q, MaxSize, 0) = s.data
        BY <2>1, <2>4, <2>7, <3>2 DEF read
      <3> QED
        BY <2>2, <2>3, <2>4, <2>5, <2>7, <3>3
    <2> QED
      BY <2>6, <2>7
  <1> QED
    BY <1>1, <1>2, <1>3

(* Between calls programs see what was stored.                             *)
LEMMA StoredIs ==
    ASSUME NEW DS, NEW path, Good(Disk, DS, path), NEW D, NEW at, Named(Disk, DS, D, at),
           NEW V, Views(Disk, D, at, path, V)
    PROVE  Stored = V
  <1>1. PICK X : X = {}
    OBVIOUS
  <1>2. Tree(Disk, D, at, X)
    BY <1>1, NamedTree
  <1>3. ASSUME NEW q \in Paths
        PROVE  /\ q \in DOMAIN Stored <=> q \in D
               /\ q \in D => Stored[q] = V[q]
    <2>1. Visible(X, q)
      BY <1>1 DEF Visible
    <2>2. PICK e, p, s : e = At(Disk, at[q]) /\ p = path[at[q]] /\ s = V[q]
      OBVIOUS
    <2>3. ASSUME q \in D
          PROVE  Seen(Disk, e, p, s) /\ OnPath(Disk, p, e.start)
      <3>1. at[q] \in Refs(Disk, DS)
        BY <2>3, NamedPlaced
      <3> QED
        BY <2>2, <2>3, <3>1 DEF Views, Good
    <2>4. /\ q \in DOMAIN Stored <=> q \in D
          /\ q \in D => Stored[q] = s
      BY ONLY <1>2, <2>1, <2>2, <2>3, q \in Paths, OneStored
    <2> QED
      BY <2>2, <2>4
  <1>4. DOMAIN Stored \subseteq Paths /\ D \subseteq Paths
    BY DEF Stored, Named
  <1>5. PICK st : st = Stored
    OBVIOUS
  <1>6. st = [q \in DOMAIN st |-> st[q]]
    BY <1>5 DEF Stored
  <1>7. DOMAIN st = D /\ \A q \in D : st[q] = V[q]
    BY <1>3, <1>4, <1>5
  <1>8. st = [q \in D |-> V[q]]
    BY <1>6, <1>7
  <1> QED
    BY <1>5, <1>8 DEF Views

LEMMA StoresKept ==
    ASSUME NEW u, NEW w, NEW e, NEW p, NEW data, Stores(u, e, p, data),
           \A i \in 1 .. Len(p) : w.area[p[i]] = u.area[p[i]]
    PROVE  Stores(w, e, p, data)
  BY DEF Stores

LEMMA SeenKept ==
    ASSUME NEW u, NEW w, NEW e, NEW p, NEW s, Seen(u, e, p, s),
           ~e.dir => \A i \in 1 .. Len(p) : w.area[p[i]] = u.area[p[i]]
    PROVE  Seen(w, e, p, s)
  BY StoresKept DEF Seen

(* The clusters of a file hold no directory.                               *)
LEMMA FileClusters ==
    ASSUME NEW u, NEW DS, NEW path, Good(u, DS, path),
           NEW r \in Refs(u, DS), ~At(u, r).dir, NEW i \in 1 .. Len(path[r])
    PROVE  path[r][i] \in Clusters \ DS /\ u.fat[1][path[r][i]] # Free
  <1>1. OnPath(u, path[r], At(u, r).start)
    BY DEF Good
  <1>2. PICK c : c = path[r][i]
    OBVIOUS
  <1>3. c \in Clusters /\ u.fat[1][c] # Free
    BY <1>1, <1>2, OnPathMarked
  <1>4. c \notin DS
    <2> SUFFICES ASSUME c \in DS PROVE FALSE
      OBVIOUS
    <2>1. c # RootDir
      BY <1>3, ClustersAreFinite
    <2>2. PICK t \in Refs(u, DS) : At(u, t).dir /\ At(u, t).start = c
      BY <2>1 DEF Good
    <2>3. OnPath(u, path[t], c)
      BY <2>2 DEF Good
    <2>4. 1 \in 1 .. Len(path[t]) /\ path[t][1] = c
      BY <2>3 DEF OnPath
    <2>5. Apart(path, Refs(u, DS))
      BY DEF Good
    <2>6. t = r
      BY <1>2, <2>4, <2>5 DEF Apart
    <2> QED
      BY <2>2, <2>6
  <1> QED
    BY <1>2, <1>3, <1>4

LEMMA ViewsAdd ==
    ASSUME NEW u, NEW DS, NEW path, Good(u, DS, path), NEW D, NEW at,
           Named(u, DS, D, at), NEW V, Views(u, D, at, path, V),
           NEW w, NEW r, NEW e, Added(u, DS, path, w, r, e), e.size = 0,
           NEW p, p \notin D, NEW s, s = [dir |-> e.dir, data |-> <<>>],
           NEW path2, path2 = WithPath(path, Refs(w, Grown(DS, e)), r, <<e.start>>),
           NEW D2, D2 = D \cup {p}, NEW at2, at2 = With(D, at, p, r),
           NEW V2, V2 = With(D, V, p, s), ~e.dir => w.area[e.start] = u.area[e.start]
    PROVE  Views(w, D2, at2, path2, V2)
  <1>1. /\ Refs(w, Grown(DS, e)) = Refs(u, DS) \cup {r} /\ r \notin Refs(u, DS)
        /\ At(w, r) = e
        /\ \A t \in Refs(u, DS) : At(w, t) = At(u, t)
        /\ u.fat[1][e.start] = Free
        /\ \A b \in Clusters \ (DS \cup {e.start}) : w.area[b] = u.area[b]
    BY DEF Added
  <1>2. path2[r] = <<e.start>> /\ \A t \in Refs(u, DS) : path2[t] = path[t]
    BY <1>1 DEF WithPath
  <1>3. /\ V2 = [q \in D2 |-> V2[q]]
        /\ at2[p] = r /\ V2[p] = s
        /\ \A q \in D : q # p /\ at2[q] = at[q] /\ V2[q] = V[q]
    BY DEF With
  <1>4. ASSUME NEW q \in D
        PROVE  Seen(w, At(w, at2[q]), path2[at2[q]], V2[q])
    <2>1. PICK t, f : t = at[q] /\ f = At(u, t)
      OBVIOUS
    <2>2. t \in Refs(u, DS)
      BY <2>1 DEF Named, Names1
    <2>3. Seen(u, f, path[t], V[q])
      BY <2>1 DEF Views
    <2>4. ~f.dir => \A i \in 1 .. Len(path[t]) : w.area[path[t][i]] = u.area[path[t][i]]
      <3> SUFFICES ASSUME ~f.dir, NEW i \in 1 .. Len(path[t])
                   PROVE  w.area[path[t][i]] = u.area[path[t][i]]
        OBVIOUS
      <3>1. PICK b : b = path[t][i]
        OBVIOUS
      <3>2. b \in Clusters \ DS /\ u.fat[1][b] # Free
        BY <2>1, <2>2, <3>1, FileClusters
      <3> QED
        BY <3>1, <3>2, <1>1
    <2>5. Seen(w, f, path[t], V[q])
      BY <2>3, <2>4, SeenKept
    <2>6. At(w, t) = f /\ path2[t] = path[t] /\ at2[q] = t /\ V2[q] = V[q]
      BY <2>1, <2>2, <1>1, <1>2, <1>3
    <2> QED
      BY <2>5, <2>6
  <1>5. Seen(w, e, <<e.start>>, s)
    <2>1. s = [dir |-> e.dir, data |-> s.data] /\ s.data = <<>>
      OBVIOUS
    <2>2. Stores(w, e, <<e.start>>, s.data)
      <3>1. s.data \in Seq(Contents) /\ Len(s.data) = 0
        BY <2>1
      <3>2. Len(s.data) <= MaxSize
        BY <3>1, CallsAssumption
      <3>3. \A i, j \in 1 .. Len(<<e.start>>) : ~(i < j)
        OBVIOUS
      <3> QED
        BY <3>1, <3>2, <3>3 DEF Stores
    <2> QED
      BY <2>1, <2>2 DEF Seen
  <1>6. Seen(w, At(w, at2[p]), path2[at2[p]], V2[p])
    BY <1>1, <1>2, <1>3, <1>5
  <1> QED
    BY <1>3, <1>4, <1>6 DEF Views

Less(D, V, p) == [q \in D \ {p} |-> V[q]]

LEMMA ViewsRemove ==
    ASSUME NEW u, NEW DS, NEW path, Good(u, DS, path), NEW D, NEW at,
           Named(u, DS, D, at), NEW V, Views(u, D, at, path, V),
           NEW p \in D, NEW w, NEW r, r = at[p], Removed(u, DS, path, w, r),
           NEW D2, D2 = D \ {p}, NEW V2, V2 = Less(D, V, p)
    PROVE  Views(w, D2, at, path, V2)
  <1>1. /\ \A t \in Refs(u, DS) \ {r} : At(w, t) = At(u, t)
        /\ \A b \in Clusters \ {r[1]} : w.area[b] = u.area[b]
        /\ r[1] \in DS
    BY DEF Removed, Shrunk
  <1>2. /\ V2 = [q \in D2 |-> V2[q]]
        /\ \A q \in D2 : V2[q] = V[q] /\ q \in D /\ q # p
    BY DEF Less
  <1>3. ASSUME NEW q \in D2
        PROVE  Seen(w, At(w, at[q]), path[at[q]], V2[q])
    <2>1. PICK t, f : t = at[q] /\ f = At(u, t)
      OBVIOUS
    <2>2. t \in Refs(u, DS) \ {r}
      BY <2>1, <1>2 DEF Named, Names1
    <2>3. Seen(u, f, path[t], V[q])
      BY <2>1, <1>2 DEF Views
    <2>4. ~f.dir => \A i \in 1 .. Len(path[t]) : w.area[path[t][i]] = u.area[path[t][i]]
      <3> SUFFICES ASSUME ~f.dir, NEW i \in 1 .. Len(path[t])
                   PROVE  w.area[path[t][i]] = u.area[path[t][i]]
        OBVIOUS
      <3>1. PICK b : b = path[t][i]
        OBVIOUS
      <3>2. b \in Clusters \ DS
        BY <2>1, <2>2, <3>1, FileClusters
      <3> QED
        BY <3>1, <3>2, <1>1
    <2>5. Seen(w, f, path[t], V[q])
      BY <2>3, <2>4, SeenKept
    <2>6. At(w, t) = f /\ V2[q] = V[q]
      BY <2>1, <2>2, <1>1, <1>2
    <2> QED
      BY <2>1, <2>5, <2>6
  <1> QED
    BY <1>2, <1>3 DEF Views

(* What a rewritten file holds is seen, and all the others as before.      *)
LEMMA ViewsRewrite ==
    ASSUME NEW u, NEW DS, NEW path, Good(u, DS, path), NEW D, NEW at,
           Named(u, DS, D, at), NEW V, Views(u, D, at, path, V),
           NEW p \in D, NEW w, NEW r, r = at[p], NEW c, Rewritten(u, DS, path, w, r, c),
           NEW data, Stores(w, At(w, r), c, data),
           NEW s, s = [dir |-> FALSE, data |-> data],
           NEW path2, path2 = WithPath(path, Refs(u, DS), r, c),
           NEW V2, V2 = With(D, V, p, s)
    PROVE  Views(w, D, at, path2, V2)
  <1>1. /\ \A t \in Refs(u, DS) \ {r} : At(w, t) = At(u, t)
        /\ \A t \in Refs(u, DS) \ {r} : ~At(u, t).dir =>
              \A i \in 1 .. Len(path[t]) : w.area[path[t][i]] = u.area[path[t][i]]
        /\ r \in Refs(u, DS) /\ ~At(w, r).dir
    BY DEF Rewritten
  <1>2. path2[r] = c /\ \A t \in Refs(u, DS) \ {r} : path2[t] = path[t]
    BY <1>1 DEF WithPath
  <1>3. /\ V2 = [q \in D |-> V2[q]] /\ V2[p] = s
        /\ \A q \in D : q # p => V2[q] = V[q]
    <2>1. D \cup {p} = D
      OBVIOUS
    <2> QED
      BY <2>1 DEF With
  <1>4. ASSUME NEW q \in D, q # p
        PROVE  Seen(w, At(w, at[q]), path2[at[q]], V2[q])
    <2>1. PICK t, f : t = at[q] /\ f = At(u, t)
      OBVIOUS
    <2>2. t \in Refs(u, DS) \ {r}
      BY <2>1, <1>4 DEF Named, Names1
    <2>3. Seen(u, f, path[t], V[q])
      BY <2>1 DEF Views
    <2>4. ~f.dir => \A i \in 1 .. Len(path[t]) : w.area[path[t][i]] = u.area[path[t][i]]
      BY <2>1, <2>2, <1>1
    <2>5. Seen(w, f, path[t], V[q])
      BY <2>3, <2>4, SeenKept
    <2>6. At(w, t) = f /\ V2[q] = V[q] /\ path2[t] = path[t]
      BY <2>1, <2>2, <1>1, <1>2, <1>3, <1>4
    <2> QED
      BY <2>1, <2>5, <2>6
  <1>5. Seen(w, At(w, at[p]), path2[at[p]], V2[p])
    <2>1. s.dir = FALSE /\ s.data = data
      OBVIOUS
    <2>2. At(w, r).dir = FALSE
      <3>1. At(w, r).dir \in BOOLEAN
        <4>1. Refs(w, DS) = Refs(u, DS) /\ Good(w, DS, path2)
          BY DEF Rewritten
        <4>2. At(w, r) \in Entries
          BY <4>1, <1>1, RefType DEF Good
        <4> QED
          BY <4>2 DEF Entries
      <3> QED
        BY <3>1, <1>1
    <2>3. Seen(w, At(w, r), c, s)
      BY <2>1, <2>2 DEF Seen
    <2> QED
      BY <2>3, <1>2, <1>3
  <1> QED
    BY <1>3, <1>4, <1>5 DEF Views

LEMMA DataCellsLength ==
    ASSUME NEW units
    PROVE  Len(DataCells(units)) = ClusterSize
  BY Geometry DEF DataCells

Ascends(p) == \A i, j \in 1 .. Len(p) : i < j => p[i] < p[j]

(* A chain that was filled with data stores it.                            *)
LEMMA FilledStores ==
    ASSUME NEW w, NEW chain, chain \in Seq(Clusters), Ascends(chain),
           NEW data, data \in Seq(Contents),
           \A i \in 1 .. Len(chain) : w.area[chain[i]] = DataCells(Piece(data, i)),
           Len(data) <= MaxSize, Len(data) <= Len(chain) * ClusterSize,
           NEW e, e.size = Len(data)
    PROVE  Stores(w, e, chain, data)
  <1>1. ASSUME NEW i \in 1 .. Len(chain) PROVE Len(w.area[chain[i]]) = ClusterSize
    BY DataCellsLength
  <1>2. ASSUME NEW i \in 1 .. Len(chain), NEW j \in 1 .. ClusterSize,
               Place(i, j) <= Len(data)
        PROVE  w.area[chain[i]][j] = data[Place(i, j)]
    <2>1. i \in Nat \ {0}
      OBVIOUS
    <2>2. DataCells(Piece(data, i))[j] = data[Place(i, j)]
      BY <2>1, <1>2, CellIs
    <2> QED
      BY <2>2
  <1> QED
    BY <1>1, <1>2 DEF Stores, Ascends

(* No two cells are in the same place.                                     *)
LEMMA PlaceOnce ==
    ASSUME NEW i \in Nat \ {0}, NEW j \in 1 .. ClusterSize,
           NEW k \in Nat \ {0}, NEW l \in 1 .. ClusterSize, Place(i, j) = Place(k, l)
    PROVE  i = k /\ j = l
  <1>1. ASSUME NEW a \in Nat \ {0}, NEW b \in 1 .. ClusterSize,
               NEW c \in Nat \ {0}, NEW d \in 1 .. ClusterSize, a < c
        PROVE  Place(a, b) # Place(c, d)
    <2>1. PICK x \in Nat, y \in Nat :
            x = a * ClusterSize /\ y = (c - 1) * ClusterSize /\ x <= y
      <3>1. c - 1 \in Nat /\ a <= c - 1 /\ a \in Nat
        BY <1>1
      <3>2. PICK n \in Nat : n = c - 1
        BY <3>1
      <3>3. a * ClusterSize \in Nat /\ a * ClusterSize <= n * ClusterSize
        BY <3>1, <3>2, Multiples
      <3>4. n * ClusterSize \in Nat
        BY <3>2, Multiples
      <3> QED
        BY <3>2, <3>3, <3>4
    <2>2. Place(a, b) \in Nat /\ Place(a, b) <= x
      BY <2>1, PlaceIs
    <2>3. Place(c, d) = y + d
      BY <2>1, PlaceIs
    <2> QED
      BY <2>1, <2>2, <2>3
  <1>2. ~(i < k) /\ ~(k < i)
    BY <1>1
  <1>3. i = k
    BY <1>2
  <1>4. PICK y \in Nat : y = (i - 1) * ClusterSize
    BY PlaceIs
  <1>5. Place(i, j) = y + j /\ Place(k, l) = y + l
    BY <1>3, <1>4, PlaceIs
  <1> QED
    BY <1>3, <1>5

(* Full clusters store something.                                          *)
LEMMA SomethingStored ==
    ASSUME NEW w \in Volumes, NEW p, p \in Seq(Clusters), Ascends(p),
           \A i \in 1 .. Len(p) : Len(w.area[p[i]]) = ClusterSize,
           NEW n \in Nat, n <= MaxSize, n <= Len(p) * ClusterSize,
           NEW e, e.size = n
    PROVE  \E data : Stores(w, e, p, data) /\ Len(data) = n
  <1>1. PICK m \in Nat : m = Len(p)
    OBVIOUS
  <1>2. ASSUME NEW i \in 1 .. m, NEW j \in 1 .. ClusterSize
        PROVE  w.area[p[i]][j] \in Contents
    <2>1. PICK c : c = p[i] /\ c \in Clusters
      BY <1>1
    <2>2. w.area[c] \in Seq(Contents) /\ Len(w.area[c]) = ClusterSize
      BY <2>1, <1>1 DEF Volumes, Disks
    <2> QED
      BY <2>1, <2>2
  <1> DEFINE Cell(k) == CHOOSE v \in Contents : \E i \in 1 .. m, j \in 1 .. ClusterSize :
                           k = Place(i, j) /\ v = w.area[p[i]][j]
             data == [k \in 1 .. n |-> Cell(k)]
  <1>3. ASSUME NEW i \in 1 .. m, NEW j \in 1 .. ClusterSize
        PROVE  Cell(Place(i, j)) = w.area[p[i]][j]
    <2>1. i \in Nat \ {0}
      OBVIOUS
    <2>2. ASSUME NEW k \in 1 .. m, NEW l \in 1 .. ClusterSize, Place(i, j) = Place(k, l)
          PROVE  i = k /\ j = l
      <3>1. k \in Nat \ {0}
        OBVIOUS
      <3> QED
        BY <2>1, <2>2, <3>1, PlaceOnce
    <2> QED
      BY <2>2, <1>2
  <1> HIDE DEF Cell
  <1>4. ASSUME NEW k \in 1 .. n PROVE Cell(k) \in Contents
    <2>1. k \in 1 .. m * ClusterSize
      <3>1. m * ClusterSize \in Nat
        BY Multiples
      <3> QED
        BY <3>1, <1>1
    <2>2. PICK i \in 1 .. m, j \in 1 .. ClusterSize : k = Place(i, j)
      BY <2>1, PlaceOf
    <2>3. Cell(k) = w.area[p[i]][j]
      BY <2>2, <1>3
    <2> QED
      BY <2>3, <1>2
  <1>5. data \in [1 .. n -> Contents]
    BY <1>4
  <1>6. data \in Seq(Contents) /\ Len(data) = n
    <2> HIDE DEF data
    <2> QED
      BY <1>5
  <1>7. ASSUME NEW i \in 1 .. m, NEW j \in 1 .. ClusterSize, Place(i, j) <= n
        PROVE  w.area[p[i]][j] = data[Place(i, j)]
    <2>1. i \in Nat \ {0}
      OBVIOUS
    <2>2. Place(i, j) \in 1 .. n
      BY <2>1, <1>7, PlaceIs
    <2> QED
      BY <2>2, <1>3
  <1> HIDE DEF data
  <1>8. Stores(w, e, p, data)
    BY <1>1, <1>6, <1>7 DEF Stores, Ascends
  <1> QED
    BY <1>6, <1>8

(* The end of a longer ascending chain is no shorter.                      *)
LEMMA TailIsLong ==
    ASSUME NEW chain, chain \in Seq(Clusters), Ascends(chain),
           NEW own, own \in Seq(Clusters), own # <<>>, Ascends(own),
           \A j \in 1 .. Len(own) : \E i \in 1 .. Len(chain) : chain[i] = own[j],
           NEW k \in 1 .. Len(chain), chain[k] = own[1]
    PROVE  Len(own) <= Len(chain) - k + 1
  <1>0. PICK n \in Nat, L \in Nat : Len(own) = n /\ n # 0 /\ Len(chain) = L
    OBVIOUS
  <1> DEFINE m == n - 1
  <1>1. m \in Nat /\ Len(own) = m + 1 /\ Len(chain) = L
    BY <1>0
  <1> HIDE DEF m
  <1>2. \A i \in 1 .. L : chain[i] \in Nat
    <2>1. \A i \in 1 .. L : chain[i] \in Clusters
      BY <1>1
    <2> QED
      BY <2>1, ClustersAreFinite
  <1>3. ASSUME NEW i \in 1 .. L, NEW j \in 1 .. L, chain[i] < chain[j]
        PROVE  i < j
    <2>1. CASE j < i
      BY <2>1, <1>1, <1>2, <1>3 DEF Ascends
    <2>2. CASE i = j
      BY <2>2, <1>2, <1>3
    <2> QED
      BY <2>1, <2>2
  <1> DEFINE T == {j \in 0 .. m : \E i \in 1 .. L : chain[i] = own[j + 1] /\ i >= k + j}
  <1>4. 0 \in T
    BY <1>1
  <1>5. ASSUME NEW j \in 0 .. m - 1, j \in T PROVE j + 1 \in T
    <2>1. PICK i \in 1 .. L : chain[i] = own[j + 1] /\ i >= k + j
      BY <1>5
    <2>2. /\ j + 1 \in 1 .. Len(own) /\ (j + 1) + 1 \in 1 .. Len(own) /\ j + 1 < (j + 1) + 1
          /\ j + 1 \in 0 .. m
      BY <1>1
    <2>3. own[j + 1] < own[(j + 1) + 1]
      BY <2>2 DEF Ascends
    <2>4. PICK h \in 1 .. L : chain[h] = own[(j + 1) + 1]
      BY <2>2, <1>1
    <2>5. i < h
      BY <2>1, <2>3, <2>4, <1>3
    <2>6. h >= k + (j + 1)
      BY <2>1, <2>5
    <2> QED
      BY <2>2, <2>4, <2>6
  <1> HIDE DEF T
  <1>6. \A j \in 0 .. m : j \in T
    BY <1>1, <1>4, <1>5, UpTo
  <1>7. m \in T
    BY <1>1, <1>6
  <1>8. PICK i \in 1 .. L : i >= k + m
    BY <1>7 DEF T
  <1> QED
    BY <1>1, <1>8

(* What the file holds after a write: old, with buf laid over it.          *)
Overlaid(old, offset, buf) ==
    [k \in 1 .. (IF offset + Len(buf) > Len(old) THEN offset + Len(buf) ELSE Len(old)) |->
        IF k > offset /\ k <= offset + Len(buf) THEN buf[k - offset]
        ELSE IF k <= Len(old) THEN old[k] ELSE Zero]

LEMMA BufferIs ==
    ASSUME VolumeOK, NEW p \in Paths, open(p) = "ok",
           NEW buf \in DataChoices, NEW offset \in OffsetChoices,
           NEW e, e = Entry(p), NEW c, OnPath(Disk, c, e.start),
           NEW old, Stores(Disk, e, c, old),
           NEW size, size = NewSize(e, buf, offset),
           NEW buffer, buffer = FileBuffer(e, buf, offset)
    PROVE  buffer = Overlaid(old, offset, buf)
  <1>1. PICK end \in Nat : end = offset + Len(buf) /\ offset \in Nat
    BY CallsAssumption
  <1>2. PICK n \in Nat : n = Len(old) /\ e.size = n
    BY DEF Stores
  <1>3. /\ size \in Nat /\ end <= size /\ n <= size
        /\ size = end \/ size = n
        /\ Len(buffer) = size
    BY <1>1, <1>2, WriteChecked
  <1>4. PICK cells : cells = Cells(e.start)
    OBVIOUS
  <1>5. \A k \in 1 .. n : k <= Len(cells) /\ cells[k] = old[k]
    BY <1>2, <1>4, StoresReads
  <1> DEFINE filled == [k \in 1 .. size |->
                          IF k <= n /\ k <= Len(cells) THEN cells[k] ELSE Zero]
  <1>6. FileContent(e, size, Zero) = filled
    BY <1>2, <1>4 DEF FileContent
  <1>7. DOMAIN filled = 1 .. size
        /\ \A k \in 1 .. size : filled[k] = IF k <= n THEN old[k] ELSE Zero
    <2>1. DOMAIN filled = 1 .. size
      OBVIOUS
    <2>2. \A k \in 1 .. size : k <= n => k \in 1 .. n
      BY <1>2, <1>3
    <2> QED
      BY <2>1, <2>2, <1>5
  <1> HIDE DEF filled
  <1>8. buffer = [k \in 1 .. size |->
                    IF k > offset /\ k <= end THEN buf[k - offset] ELSE filled[k]]
    BY <1>1, <1>6, <1>7 DEF FileBuffer
  <1>9. buffer = [k \in 1 .. size |->
                    IF k > offset /\ k <= end THEN buf[k - offset]
                    ELSE IF k <= n THEN old[k] ELSE Zero]
    BY <1>7, <1>8
  <1>10. size = IF end > n THEN end ELSE n
    BY <1>1, <1>2, <1>3
  <1> QED
    BY <1>1, <1>2, <1>9, <1>10 DEF Overlaid

LEMMA ViewsWrite ==
    ASSUME NEW u, NEW DS, NEW path, Good(u, DS, path), NEW D, NEW at,
           Named(u, DS, D, at), NEW V, Views(u, D, at, path, V),
           NEW p \in D, NEW r, r = at[p], NEW x, NEW w, NEW size,
           NEW chain, chain \in Seq(Clusters), Ascends(chain),
           Updated(u, DS, path, x, w, r, chain, size),
           NEW v, NEW buffer, buffer \in Seq(Contents),
           FilledTo(v, x, chain, buffer, Len(chain)),
           Len(buffer) = size, size <= MaxSize, size <= Len(chain) * ClusterSize,
           NEW path2, path2 = WithPath(path, Refs(u, DS), r, chain),
           NEW V2, V2 = With(D, V, p, [dir |-> FALSE, data |-> buffer])
    PROVE  Views(w, D, at, path2, V2)
  <1>1. /\ Rewritten(u, DS, path, w, r, chain)
        /\ At(w, r) = [At(u, r) EXCEPT !.start = chain[1], !.size = size]
        /\ \A b \in Clusters \ DS : w.area[b] = x.area[b]
    BY DEF Updated
  <1>2. /\ Good(w, DS, path2) /\ r \in Refs(w, DS) /\ ~At(w, r).dir
        /\ path2[r] = chain /\ r \in Refs(u, DS)
    BY <1>1 DEF Rewritten, WithPath
  <1>3. At(w, r).size = size
    <2>1. At(u, r) \in Entries
      BY <1>2, RefType DEF Good
    <2> QED
      BY <2>1, <1>1 DEF Entries
  <1>4. ASSUME NEW i \in 1 .. Len(chain)
        PROVE  w.area[chain[i]] = DataCells(Piece(buffer, i))
    <2>1. chain[i] \in Clusters \ DS
      BY <1>2, FileClusters
    <2>2. x.area[chain[i]] = DataCells(Piece(buffer, i))
      BY DEF FilledTo
    <2> QED
      BY <2>1, <2>2, <1>1
  <1>5. PICK e : e = At(w, r)
    OBVIOUS
  <1>6. Stores(w, e, chain, buffer)
    <2>1. e.size = Len(buffer)
      BY <1>3, <1>5
    <2> QED
      BY <2>1, <1>4, FilledStores
  <1> QED
    BY <1>1, <1>5, <1>6, ViewsRewrite

(* A write that ran out of space may have spoilt the content of its file.  *)
Spoils(V, V2, D, p, same) ==
    \E data : /\ V2 = With(D, V, p, [dir |-> FALSE, data |-> data])
              /\ Len(data) = Len(V[p].data)
              /\ same => V2 = V

LEMMA ViewsSpoilt ==
    ASSUME NEW u, NEW DS, NEW path, Good(u, DS, path), NEW D, NEW at,
           Named(u, DS, D, at), NEW V, Views(u, D, at, path, V),
           NEW p \in D, NEW r, r = at[p], ~At(u, r).dir, NEW x \in Volumes,
           NEW old, old = <<>> \/ old = path[r],
           NEW chain, chain \in Seq(Clusters), Ascends(chain),
           \A j \in 1 .. Len(old) : \E i \in 1 .. Len(chain) : chain[i] = old[j],
           NEW v, NEW buffer, FilledTo(v, x, chain, buffer, Len(chain)),
           Spoilt(u, DS, path, x, r, old, chain)
    PROVE  \E c, V2 : /\ Good(x, DS, WithPath(path, Refs(u, DS), r, c))
                      /\ Named(x, DS, D, at)
                      /\ Views(x, D, at, WithPath(path, Refs(u, DS), r, c), V2)
                      /\ Spoils(V, V2, D, p, old = <<>>)
                      /\ Salvaged(u, x, path[r], c, old, chain) /\ Refs(x, DS) = Refs(u, DS)
  <1>1. PICK c : /\ Rewritten(u, DS, path, x, r, c) /\ At(x, r) = At(u, r)
                 /\ Salvaged(u, x, path[r], c, old, chain)
    BY DEF Spoilt
  <1>2. PICK e, own, path2 : /\ e = At(u, r) /\ own = path[r]
                             /\ path2 = WithPath(path, Refs(u, DS), r, c)
    OBVIOUS
  <1>3. r \in Refs(u, DS) /\ Good(x, DS, path2) /\ Refs(x, DS) = Refs(u, DS)
    BY <1>1, <1>2 DEF Rewritten
  <1>4. Seen(u, e, own, V[p]) /\ ~e.dir
    BY <1>2 DEF Views
  <1>5. PICK kept : kept = V[p].data /\ Stores(u, e, own, kept)
    BY <1>4 DEF Seen
  <1>6. OnPath(u, own, e.start) /\ OnPath(x, c, e.start)
    <2>1. OnPath(u, own, e.start)
      BY <1>2, <1>3 DEF Good
    <2>2. path2[r] = c
      BY <1>2, <1>3 DEF WithPath
    <2>3. OnPath(x, path2[r], At(x, r).start)
      BY <1>3 DEF Good
    <2> QED
      BY <2>1, <2>2, <2>3, <1>1, <1>2
  <1>7. \E data : /\ Stores(x, e, c, data) /\ Len(data) = Len(kept)
                  /\ old = <<>> => data = kept
    <2>1. CASE old = <<>>
      <3>1. c = own /\ \A i \in 1 .. Len(own) : x.area[own[i]] = u.area[own[i]]
        BY <2>1, <1>1, <1>2 DEF Salvaged
      <3>2. Stores(x, e, c, kept)
        BY <3>1, <1>5, StoresKept
      <3> QED
        BY <3>2
    <2>2. CASE old # <<>>
      <3>1. old = own
        BY <2>2, <1>2
      <3>2. PICK k \in 1 .. Len(chain) : TailFrom(chain, k, c) /\ chain[k] = own[1]
        BY <2>2, <1>1, <1>2 DEF Salvaged
      <3>3. /\ own \in Seq(Clusters) /\ own # <<>> /\ c \in Seq(Clusters)
        BY <1>6 DEF OnPath
      <3>4. Ascends(own)
        BY <1>5 DEF Stores, Ascends
      <3>5. PICK m \in Nat, l \in Nat, L \in Nat : m = Len(own) /\ l = Len(c) /\ L = Len(chain)
        BY <3>3
      <3>6. m <= L - k + 1 /\ l = L - k + 1
        BY ONLY <3>1, <3>2, <3>3, <3>4, <3>5, chain \in Seq(Clusters), Ascends(chain),
                \A j \in 1 .. Len(old) : \E i \in 1 .. Len(chain) : chain[i] = old[j],
                TailIsLong DEF TailFrom
      <3>7. m <= l
        BY <3>2, <3>5, <3>6
      <3>8. \A i \in 1 .. Len(c) : i + k - 1 \in 1 .. Len(chain) /\ c[i] = chain[i + k - 1]
        BY <3>2 DEF TailFrom
      <3>9. Ascends(c)
        <4> SUFFICES ASSUME NEW i \in 1 .. Len(c), NEW j \in 1 .. Len(c), i < j
                     PROVE  c[i] < c[j]
          BY DEF Ascends
        <4>1. PICK i2 \in 1 .. Len(chain), j2 \in 1 .. Len(chain) :
                i2 = i + k - 1 /\ j2 = j + k - 1
          BY <3>8
        <4>2. i2 < j2
          BY <4>1, <3>2
        <4> QED
          BY <4>1, <4>2, <3>8 DEF Ascends
      <3>10. \A i \in 1 .. Len(c) : Len(x.area[c[i]]) = ClusterSize
        <4> TAKE i \in 1 .. Len(c)
        <4>1. PICK i2 \in 1 .. Len(chain) : i2 = i + k - 1 /\ c[i] = chain[i2]
          BY <3>8
        <4>2. x.area[chain[i2]] = DataCells(Piece(buffer, i2))
          BY DEF FilledTo
        <4> QED
          BY <4>1, <4>2, DataCellsLength
      <3>11. PICK n \in Nat : n = Len(kept) /\ n <= MaxSize /\ e.size = n
        BY <1>5 DEF Stores
      <3>12. n <= Len(c) * ClusterSize
        <4>1. n # 0 => n <= m * ClusterSize
          BY <1>5, <3>5, <3>11 DEF Stores
        <4>2. m * ClusterSize <= l * ClusterSize /\ m * ClusterSize \in Nat
              /\ l * ClusterSize \in Nat
          BY <3>5, <3>7, Multiples
        <4> QED
          BY <4>1, <4>2, <3>5
      <3>13. \E data : Stores(x, e, c, data) /\ Len(data) = n
        BY <3>3, <3>9, <3>10, <3>11, <3>12, SomethingStored
      <3> QED
        BY <3>11, <3>13, <2>2
    <2> QED
      BY <2>1, <2>2
  <1>8. PICK data : /\ Stores(x, e, c, data) /\ Len(data) = Len(kept)
                    /\ old = <<>> => data = kept
    BY <1>7
  <1>9. PICK V2 : V2 = With(D, V, p, [dir |-> FALSE, data |-> data])
    OBVIOUS
  <1>10. Views(x, D, at, path2, V2)
    <2>1. Stores(x, At(x, r), c, data)
      BY <1>1, <1>2, <1>8
    <2> QED
      BY <2>1, <1>1, <1>2, <1>9, ViewsRewrite
  <1>11. Named(x, DS, D, at)
    BY <1>1, NamedRewrite
  <1>12. ASSUME old = <<>> PROVE V2 = V
    <2>1. V[p] = [dir |-> FALSE, data |-> data]
      <3>1. V[p] = [dir |-> e.dir, data |-> V[p].data]
        BY <1>4 DEF Seen
      <3>2. e.dir = FALSE
        <4>1. e \in Entries
          BY <1>2, <1>3, RefType DEF Good
        <4> QED
          BY <4>1, <1>4 DEF Entries
      <3>3. V[p].data = data
        BY <1>5, <1>8, <1>12
      <3> QED
        BY <3>1, <3>2, <3>3
    <2>2. V2 = [q \in D |-> IF q = p THEN V[p] ELSE V[q]]
      <3>1. D \cup {p} = D
        OBVIOUS
      <3> QED
        BY <3>1, <2>1, <1>9 DEF With
    <2>3. V2 = [q \in D |-> V[q]]
      BY <2>2
    <2> QED
      BY <2>3 DEF Views
  <1>13. Spoils(V, V2, D, p, old = <<>>)
    BY <1>5, <1>8, <1>9, <1>12 DEF Spoils
  <1> QED
    BY <1>1, <1>2, <1>3, <1>10, <1>11, <1>13

-----------------------------------------------------------------------------
(* The reply that is queued.                                               *)

Ends(code) == pending # <<>> /\ Last(pending) = [to |-> "reply", value |-> code]

LEMMA LastAppended ==
    ASSUME NEW W, NEW q, q \in Seq(W), NEW x, NEW s, s = Append(q, x)
    PROVE  /\ s # <<>> /\ Last(s) = x
           /\ Tail(s) # <<>> => Last(Tail(s)) = x
  <1>1. Len(s) = Len(q) + 1 /\ Len(q) \in Nat /\ s[Len(q) + 1] = x
    OBVIOUS
  <1>2. PICK V : V = W \cup {x}
    OBVIOUS
  <1>3. s \in Seq(V)
    <2>1. q \in Seq(V) /\ x \in V
      BY <1>2
    <2> QED
      BY <2>1
  <1>4. s # <<>>
    BY <1>1
  <1>5. Last(s) = x
    BY <1>1 DEF Last
  <1>6. Tail(s) # <<>> => Last(Tail(s)) = Last(s)
    BY <1>3, <1>4, TailLast
  <1> QED
    BY <1>4, <1>5, <1>6

LEMMA AnswerEnds ==
    ASSUME NEW op, NEW p, NEW writes, NEW code, Answer(op, p, writes, code),
           writes \in Seq(Updates)
    PROVE  Ends(code)'
  <1>1. PICK x, s : /\ x = [to |-> "reply", value |-> code]
                    /\ s = Append(writes, x) /\ pending' = s
    BY DEF Answer
  <1>2. s # <<>> /\ Last(s) = x
    BY <1>1, LastAppended
  <1> QED
    BY <1>1, <1>2 DEF Ends

LEMMA EndsFlush ==
    ASSUME NEW w, NEW P, Running(w, P), NEW code, Ends(code), Flush
    PROVE  Ends(code)'
  <1>1. PICK q \in Seq(Updates) : Owes(q) /\ Runs(q, Disk, w, P)
    BY DEF Running
  <1>2. PICK b, x, s : /\ x = [to |-> "reply", value |-> b]
                       /\ s = pending /\ s = Append(q, x)
    BY <1>1 DEF Owes, Flush, Idle
  <1>3. s # <<>> /\ Last(s) = x /\ (Tail(s) # <<>> => Last(Tail(s)) = x)
    <2>1. s = Append(q, x)
      BY <1>2
    <2> QED
      BY ONLY <2>1, q \in Seq(Updates), LastAppended
  <1>4. Tail(s) # <<>>
    <2>1. q # <<>>
      <3> SUFFICES ASSUME q = <<>> PROVE FALSE
        OBVIOUS
      <3>1. Head(s) = x
        BY <1>2
      <3> QED
        BY <3>1, <1>2 DEF Flush
    <2>2. Tail(s) = Append(Tail(q), x) /\ Tail(q) \in Seq(Updates)
      BY <2>1, <1>2
    <2> QED
      BY <2>2
  <1>5. Last(Tail(s)) = Last(s)
    BY <1>3, <1>4
  <1>6. pending' = Tail(s)
    BY <1>2 DEF Flush
  <1> QED
    BY <1>2, <1>4, <1>5, <1>6 DEF Ends

LEMMA EndsReturn ==
    ASSUME NEW w, NEW P, Running(w, P), NEW code, Ends(code), Return
    PROVE  reply' = code
  <1>1. PICK q \in Seq(Updates) : Owes(q) /\ Runs(q, Disk, w, P)
    BY DEF Running
  <1>2. PICK b, x, s : /\ x = [to |-> "reply", value |-> b]
                       /\ s = pending /\ s = Append(q, x)
    BY <1>1 DEF Owes, Return, Idle
  <1>3. q = <<>>
    <2> SUFFICES ASSUME q # <<>> PROVE FALSE
      OBVIOUS
    <2>1. Head(s) = Head(q) /\ Head(q) \in Updates
      BY <1>2
    <2> QED
      BY <2>1, <1>2, UpdateIsNoReply DEF Return
  <1>4. Head(s) = x /\ Last(s) = x
    <2>1. s = <<x>>
      BY <1>2, <1>3
    <2> QED
      BY <2>1 DEF Last
  <1>5. x = [to |-> "reply", value |-> code]
    BY <1>2, <1>4 DEF Ends
  <1> QED
    BY <1>2, <1>4, <1>5 DEF Return

-----------------------------------------------------------------------------
(* What a call may make of the files V, and its reply (FileStore).         *)

HasParent(V, p) == Len(p) = 1 \/ (Front(p) \in DOMAIN V /\ V[Front(p)].dir)

IsFileOf(V, p) == p \in DOMAIN V /\ ~V[p].dir

MakeAnswer(V, V2, p, dir, code) ==
    \/ ~HasParent(V, p) /\ code = "ENOENT" /\ V2 = V
    \/ p \in DOMAIN V /\ code = "EEXIST" /\ V2 = V
    \/ HasParent(V, p) /\ p \notin DOMAIN V /\ code = "ENOSPC" /\ V2 = V
    \/ /\ HasParent(V, p) /\ p \notin DOMAIN V /\ code = "ok"
       /\ V2 = With(DOMAIN V, V, p, [dir |-> dir, data |-> <<>>])

WriteAnswer(V, V2, p, offset, buf, code) ==
    \/ ~IsFileOf(V, p) /\ code = "ENOENT" /\ V2 = V
    \/ /\ IsFileOf(V, p) /\ code = "ok"
       /\ V2 = With(DOMAIN V, V, p,
                    [dir |-> FALSE, data |-> Overlaid(V[p].data, offset, buf)])
    \/ /\ IsFileOf(V, p) /\ code = "ENOSPC"
       /\ Spoils(V, V2, DOMAIN V, p,
                 Len(Overlaid(V[p].data, offset, buf)) = Len(V[p].data))

UnlinkAnswer(V, V2, p, code) ==
    \/ p \notin DOMAIN V /\ code = "ENOENT" /\ V2 = V
    \/ p \in DOMAIN V /\ V[p].dir /\ code = "EISDIR" /\ V2 = V
    \/ IsFileOf(V, p) /\ code = "ok" /\ V2 = Less(DOMAIN V, V, p)

RmdirAnswer(V, V2, p, code) ==
    \/ p \notin DOMAIN V /\ code = "ENOENT" /\ V2 = V
    \/ IsFileOf(V, p) /\ code = "ENOTDIR" /\ V2 = V
    \/ /\ p \in DOMAIN V /\ V[p].dir /\ code = "ENOTEMPTY" /\ V2 = V
       /\ \E q \in DOMAIN V : Len(q) > 1 /\ Front(q) = p
    \/ /\ p \in DOMAIN V /\ V[p].dir /\ code = "ok" /\ V2 = Less(DOMAIN V, V, p)
       /\ \A q \in DOMAIN V : Len(q) = 1 \/ Front(q) # p

Answers(V, V2, code) ==
    \E p \in Paths :
       \/ \E dir \in BOOLEAN : MakeAnswer(V, V2, p, dir, code)
       \/ \E offset \in OffsetChoices, buf \in DataChoices :
            WriteAnswer(V, V2, p, offset, buf, code)
       \/ UnlinkAnswer(V, V2, p, code)
       \/ RmdirAnswer(V, V2, p, code)

(* Such an answer is a step of the abstract store.                         *)
LEMMA AnswersStep ==
    ASSUME crashes = 0, crashes' = 0, reply = "busy",
           Answers(view, view', reply')
    PROVE  Store!Next
  <1>1. PICK p \in Paths :
          \/ \E dir \in BOOLEAN : MakeAnswer(view, view', p, dir, reply')
          \/ \E offset \in OffsetChoices, buf \in DataChoices :
               WriteAnswer(view, view', p, offset, buf, reply')
          \/ UnlinkAnswer(view, view', p, reply')
          \/ RmdirAnswer(view, view', p, reply')
    BY DEF Answers
  <1>2. Store!ParentIsDir(p) <=> HasParent(view, p)
    BY DEF Store!ParentIsDir, Store!Parent, Store!Exists, HasParent, Front
  <1>3. ASSUME NEW dir \in BOOLEAN, MakeAnswer(view, view', p, dir, reply')
        PROVE  Store!Make(p, dir)
    BY <1>2, <1>3 DEF MakeAnswer, Store!Make, Store!Exists, Store!Refuse, Store!With, With
  <1>4. UnlinkAnswer(view, view', p, reply') => Store!Unlink(p)
    BY DEF UnlinkAnswer, Store!Unlink, Store!Exists, Store!Refuse, Store!Without, Less,
           IsFileOf, Store!IsFile
  <1>5. RmdirAnswer(view, view', p, reply') => Store!Rmdir(p)
    BY DEF RmdirAnswer, Store!Rmdir, Store!Exists, Store!Refuse, Store!Without, Less,
           IsFileOf, Store!IsFile, Store!Parent, Front
  <1>6. ASSUME NEW offset \in OffsetChoices, NEW buf \in DataChoices,
               WriteAnswer(view, view', p, offset, buf, reply')
        PROVE  Store!Write(p, offset, buf)
    <2>1. PICK old, new : old = view[p].data /\ new = Overlaid(old, offset, buf)
      OBVIOUS
    <2>2. IsFileOf(view, p) <=> Store!IsFile(p)
      BY DEF IsFileOf, Store!IsFile, Store!Exists
    <2>3. CASE ~IsFileOf(view, p) /\ reply' = "ENOENT" /\ view' = view
      BY <2>2, <2>3 DEF Store!Write, Store!Refuse
    <2>4. CASE /\ IsFileOf(view, p) /\ reply' = "ok"
               /\ view' = With(DOMAIN view, view, p, [dir |-> FALSE, data |-> new])
      <3>1. view' = Store!With(p, [dir |-> FALSE, data |-> new])
        BY <2>4 DEF Store!With, With
      <3> QED
        BY <3>1, <2>1, <2>2, <2>4 DEF Store!Write, Overlaid
    <2>5. CASE /\ IsFileOf(view, p) /\ reply' = "ENOSPC"
               /\ Spoils(view, view', DOMAIN view, p, Len(new) = Len(old))
      <3>1. PICK data : /\ view' = With(DOMAIN view, view, p, [dir |-> FALSE, data |-> data])
                        /\ Len(data) = Len(old)
                        /\ Len(new) = Len(old) => view' = view
        BY <2>1, <2>5 DEF Spoils
      <3>2. /\ DOMAIN view' = DOMAIN view
            /\ \A q \in DOMAIN view \ {p} : view'[q] = view[q]
            /\ ~view'[p].dir /\ view'[p].data = data
        <4>1. PICK s : s = [dir |-> FALSE, data |-> data]
          OBVIOUS
        <4>2. view' = [q \in DOMAIN view \cup {p} |-> IF q = p THEN s ELSE view[q]]
          BY <3>1, <4>1 DEF With
        <4>3. DOMAIN view \cup {p} = DOMAIN view /\ p \in DOMAIN view
          BY <2>5 DEF IsFileOf
        <4>4. view'[p] = s
          BY <4>2, <4>3
        <4>5. s.dir = FALSE /\ s.data = data
          BY <4>1
        <4> QED
          BY <4>2, <4>3, <4>4, <4>5
      <3>3. CASE Len(new) = Len(old)
        BY <3>1, <3>3, <2>1, <2>2, <2>5 DEF Store!Write, Store!Refuse, Overlaid
      <3>4. CASE Len(new) # Len(old)
        BY <3>1, <3>2, <3>4, <2>1, <2>2, <2>5 DEF Store!Write, Overlaid
      <3> QED
        BY <3>3, <3>4
    <2> QED
      BY <1>6, <2>1, <2>3, <2>4, <2>5 DEF WriteAnswer
  <1> QED
    BY <1>1, <1>3, <1>4, <1>5, <1>6 DEF Store!Next

-----------------------------------------------------------------------------
(* The lookups of the handlers, told by the files a program sees.          *)

LEMMA Lookups ==
    ASSUME NEW DS, NEW path, Good(Disk, DS, path), NEW D, NEW at, Named(Disk, DS, D, at),
           NEW V, Views(Disk, D, at, path, V), NEW p \in Paths
    PROVE  /\ DOMAIN V = D
           /\ Exists(p) <=> p \in D
           /\ p \in D => /\ at[p] = <<ParentDir(p), SlotIn(ParentDir(p), p)>>
                         /\ Entry(p) = At(Disk, at[p]) /\ V[p].dir = Entry(p).dir
                         /\ Seen(Disk, Entry(p), path[at[p]], V[p])
           /\ HasParent(V, p) <=> ParentDir(p) # Lost
           /\ ParentDir(p) # Lost => Leads(Disk, D, at, p, ParentDir(p))
  <1>1. PICK X : X = {} /\ Tree(Disk, D, at, X) /\ Visible(X, p)
    <2>1. PICK X : X = {}
      OBVIOUS
    <2>2. Tree(Disk, D, at, X) /\ Visible(X, p)
      BY <2>1, NamedTree DEF Visible
    <2> QED
      BY <2>1, <2>2
  <1>2. PICK d : d = ParentDir(p)
    OBVIOUS
  <1>3. /\ IF d = Lost THEN \A b : ~Leads(Disk, D, at, p, b) ELSE Leads(Disk, D, at, p, d)
        /\ Exists(p) <=> p \in D
        /\ p \in D => /\ at[p] = <<ParentDir(p), SlotIn(ParentDir(p), p)>>
                      /\ Entry(p) = At(Disk, at[p])
    BY <1>1, <1>2, Resolved
  <1>4. DOMAIN V = D
    BY DEF Views
  <1>5. ASSUME NEW q \in D
        PROVE  V[q].dir = At(Disk, at[q]).dir /\ Seen(Disk, At(Disk, at[q]), path[at[q]], V[q])
    <2>1. PICK e : e = At(Disk, at[q])
      OBVIOUS
    <2>2. Seen(Disk, e, path[at[q]], V[q])
      BY <2>1 DEF Views
    <2>3. PICK s : s = V[q] /\ s = [dir |-> e.dir, data |-> s.data]
      BY <2>2 DEF Seen
    <2>4. s.dir = e.dir
      BY <2>3
    <2> QED
      BY <2>1, <2>2, <2>3, <2>4
  <1>6. PICK n \in Nat : n = Len(p) /\ n # 0
    BY PathIs
  <1>7. ASSUME d # Lost PROVE HasParent(V, p)
    <2>1. Leads(Disk, D, at, p, d)
      BY <1>3, <1>7
    <2> QED
      BY <2>1, <1>4, <1>5 DEF Leads, HasParent
  <1>8. ASSUME HasParent(V, p) PROVE d # Lost
    <2>1. CASE n = 1
      <3>1. Leads(Disk, D, at, p, RootDir)
        BY <2>1, <1>6 DEF Leads
      <3> QED
        BY <3>1, <1>3
    <2>2. CASE n # 1
      <3>1. Front(p) \in D /\ V[Front(p)].dir /\ Len(p) > 1
        BY <2>2, <1>4, <1>6, <1>8 DEF HasParent
      <3>2. PICK b : b = At(Disk, at[Front(p)]).start /\ At(Disk, at[Front(p)]).dir
        BY <3>1, <1>5
      <3>3. Leads(Disk, D, at, p, b)
        BY <3>1, <3>2 DEF Leads
      <3> QED
        BY <3>3, <1>3
    <2> QED
      BY <2>1, <2>2
  <1>9. ASSUME p \in D
        PROVE  V[p].dir = Entry(p).dir /\ Seen(Disk, Entry(p), path[at[p]], V[p])
    <2>1. Entry(p) = At(Disk, at[p])
      BY <1>3, <1>9
    <2> QED
      BY <2>1, <1>5, <1>9
  <1> QED
    BY <1>2, <1>3, <1>4, <1>7, <1>8, <1>9

(* A directory that readdir lists something of holds another path.         *)
LEMMA Occupied ==
    ASSUME NEW DS, NEW path, Good(Disk, DS, path), NEW D, NEW at, Named(Disk, DS, D, at),
           NEW p \in D, NEW d, At(Disk, at[p]).dir, d = At(Disk, at[p]).start,
           readdir(d) # <<>>
    PROVE  d \in Clusters /\ \E q \in D : Len(q) > 1 /\ Front(q) = p
  <1>1. PICK t : t = at[p] /\ t \in Refs(Disk, DS)
    BY DEF Named, Names1
  <1>2. /\ d \in DS /\ OnPath(Disk, path[t], d)
        /\ 1 \in 1 .. Len(path[t]) /\ path[t][1] = d /\ d \in Clusters
    <2>1. d \in DS /\ OnPath(Disk, path[t], d)
      BY <1>1 DEF Good
    <2>2. path[t] \in Seq(Clusters) /\ path[t] # <<>> /\ path[t][1] = d
      BY <2>1 DEF OnPath
    <2>3. 1 \in 1 .. Len(path[t])
      BY <2>2
    <2> QED
      BY <2>1, <2>2, <2>3
  <1>3. PICK entries : entries = read_directory(d) /\ entries = Slots(Disk, d)
    BY <1>2, DirectoryIs
  <1>4. PICK n \in Nat : Len(entries) = n /\ DOMAIN entries = 1 .. n
    BY <1>2, <1>3, SlotsType DEF Good
  <1>5. /\ \A k \in DOMAIN Listed(d) :
             Listed(d)[k] \in 1 .. n /\ IsLive(entries[Listed(d)[k]])
        /\ DOMAIN readdir(d) = DOMAIN Listed(d)
        /\ \E m \in Nat : DOMAIN Listed(d) = 1 .. m
    BY ONLY <1>3, <1>4, ListedIs
  <1>6. PICK i \in 1 .. n : IsLive(entries[i])
    <2>1. DOMAIN Listed(d) # {}
      <3>1. PICK m \in Nat : DOMAIN readdir(d) = 1 .. m
        BY <1>5
      <3>2. m # 0
        <4> SUFFICES ASSUME m = 0 PROVE FALSE
          OBVIOUS
        <4>1. readdir(d) = [k \in DOMAIN Listed(d) |->
                              read_directory(d)[Listed(d)[k]].name]
          BY DEF readdir
        <4>2. DOMAIN Listed(d) = 1 .. 0
          BY <1>5, <3>1
        <4>3. readdir(d) = <<>>
          BY <4>1, <4>2
        <4> QED
          BY <4>3
      <3>3. 1 \in 1 .. m
        BY <3>2
      <3> QED
        BY <3>1, <3>3, <1>5
    <2> QED
      BY <2>1, <1>5
  <1>7. PICK r : r = <<d, i>> /\ r \in Refs(Disk, DS)
    <2>1. PICK r : r = <<d, i>>
      OBVIOUS
    <2>2. r \in DS \X Nat /\ r[1] = d /\ r[2] = i
      BY <2>1, <1>2
    <2>3. i \in DOMAIN Slots(Disk, d) /\ IsLive(Slots(Disk, d)[i])
      BY <1>3, <1>4, <1>6
    <2>4. r \in Refs(Disk, DS)
      BY <2>2, <2>3 DEF Refs, At
    <2> QED
      BY <2>1, <2>4
  <1>8. PICK q \in D : at[q] = r
    BY <1>7 DEF Named
  <1>9. q \in PathNames /\ Leads(Disk, D, at, q, d)
    <2>1. q \in PathNames /\ Leads(Disk, D, at, q, at[q][1])
      BY NamedPlaced DEF Placed
    <2> QED
      BY <2>1, <1>7, <1>8
  <1>10. d # RootDir
    BY <1>2, ClustersAreFinite
  <1>11. /\ Len(q) > 1 /\ Front(q) \in D
         /\ At(Disk, at[Front(q)]).dir /\ d = At(Disk, at[Front(q)]).start
    BY <1>9, <1>10 DEF Leads
  <1>12. PICK s : s = at[Front(q)] /\ s \in Refs(Disk, DS)
    BY <1>11 DEF Named, Names1
  <1>13. OnPath(Disk, path[s], d)
    BY <1>11, <1>12 DEF Good
  <1>14. 1 \in 1 .. Len(path[s]) /\ path[s][1] = d
    BY <1>13 DEF OnPath
  <1>15. s = t
    BY <1>1, <1>2, <1>12, <1>14 DEF Good, Apart
  <1>16. Front(q) = p
    BY <1>1, <1>11, <1>12, <1>15 DEF Named
  <1> QED
    BY <1>2, <1>11, <1>16

-----------------------------------------------------------------------------
(* What no lookup takes for a file: no entry of a name, or a unit of data. *)
(* Outside the directories DS a tidy volume holds nothing else.            *)

Dead == {x \in Contents : ~IsLive(x)}

Tidy(u, DS) == \A b \in Clusters \ DS : u.area[b] \in Seq(Dead)

LEMMA DeadAre ==
    /\ {NoEntry, Zero, Junk} \cup Units \subseteq Dead
    /\ Dead \subseteq Contents
  BY DEF Dead, Contents, IsLive, IsEntry

LEMMA DeadCells ==
    ASSUME NEW q, q \in Seq(Contents), \A k \in DOMAIN q : ~IsLive(q[k])
    PROVE  q \in Seq(Dead)
  <1>1. PICK n \in Nat : n = Len(q) /\ DOMAIN q = 1 .. n
    OBVIOUS
  <1>2. \A k \in 1 .. n : q[k] \in Dead
    BY <1>1 DEF Dead
  <1>3. q = [k \in 1 .. n |-> q[k]]
    BY <1>1
  <1> QED
    BY <1>2, <1>3

LEMMA DataCellsDead ==
    ASSUME NEW units, units \in Seq(Dead)
    PROVE  DataCells(units) \in Seq(Dead)
  <1>1. \A k \in 1 .. ClusterSize : k <= Len(units) => units[k] \in Dead
    OBVIOUS
  <1>2. Junk \in Dead /\ ClusterSize \in Nat
    BY DeadAre, Geometry
  <1>3. \A k \in 1 .. ClusterSize : DataCells(units)[k] \in Dead
    BY <1>1, <1>2 DEF DataCells
  <1>4. DataCells(units) = [k \in 1 .. ClusterSize |-> DataCells(units)[k]]
    BY DEF DataCells
  <1> QED
    BY <1>2, <1>3, <1>4

LEMMA TidyAdd ==
    ASSUME NEW u, NEW DS, Tidy(u, DS), NEW path, NEW w, NEW r, NEW e,
           Added(u, DS, path, w, r, e)
    PROVE  Tidy(w, Grown(DS, e))
  <1>1. ASSUME NEW b \in Clusters \ Grown(DS, e)
        PROVE  w.area[b] = u.area[b] /\ b \notin DS
    <2>1. b \notin DS /\ (e.dir => b # e.start)
      BY <1>1 DEF Grown
    <2> QED
      BY <2>1, <1>1 DEF Added
  <1> QED
    BY <1>1 DEF Tidy

LEMMA TidyRemove ==
    ASSUME NEW u \in Volumes, NEW DS, Tidy(u, DS), NEW path, NEW w, NEW r,
           Removed(u, DS, path, w, r),
           At(u, r).dir => Barren(u, At(u, r).start)
    PROVE  Tidy(w, Shrunk(DS, At(u, r)))
  <1>1. ASSUME NEW b \in Clusters \ Shrunk(DS, At(u, r))
        PROVE  w.area[b] \in Seq(Dead)
    <2>1. w.area[b] = u.area[b]
      BY <1>1 DEF Removed
    <2>2. CASE b \notin DS
      BY <2>1, <2>2, <1>1 DEF Tidy
    <2>3. CASE b \in DS
      <3>1. At(u, r).dir /\ b = At(u, r).start
        BY <2>3, <1>1 DEF Shrunk
      <3>2. b # RootDir
        BY <1>1, ClustersAreFinite
      <3>3. \A k \in DOMAIN u.area[b] : ~IsLive(u.area[b][k])
        BY <3>1, <3>2 DEF Barren, Slots
      <3>4. u.area[b] \in Seq(Contents)
        BY <1>1 DEF Volumes, Disks
      <3> QED
        BY <2>1, <3>3, <3>4, DeadCells
    <2> QED
      BY <2>2, <2>3
  <1> QED
    BY <1>1 DEF Tidy

LEMMA CellsDead ==
    ASSUME NEW d, \A c \in ToSet(Chain(d)) : area[c] \in Seq(Dead)
    PROVE  Cells(d) \in Seq(Dead)
  <1>1. PICK chain : chain = Chain(d) /\ chain \in Seq(Clusters)
    BY ChainType
  <1>2. PICK n \in Nat : n = Len(chain)
    BY <1>1
  <1>3. PICK s : s = [k \in 1 .. n |-> area[chain[k]]]
    OBVIOUS
  <1>4. ASSUME NEW k \in 1 .. n PROVE s[k] \in Seq(Dead)
    <2>1. chain[k] \in ToSet(chain)
      BY <1>1, <1>2 DEF ToSet
    <2> QED
      BY <1>1, <1>3, <2>1
  <1>5. s \in [1 .. n -> Seq(Dead)]
    BY <1>3, <1>4
  <1>6. PICK b : Blocks(b, s, n, Dead)
    BY <1>5, Flatten
  <1>7. FlattenSeq(s) \in Seq(Dead)
    BY <1>6 DEF Blocks
  <1>8. Cells(d) = FlattenSeq(s)
    BY <1>1, <1>2, <1>3 DEF Cells
  <1> QED
    BY <1>7, <1>8

(* What a write puts into the clusters it takes is no entry either.        *)
LEMMA BufferDead ==
    ASSUME VolumeOK, NEW p \in Paths, open(p) = "ok",
           NEW buf \in DataChoices, NEW offset \in OffsetChoices,
           NEW e, e = Entry(p), \A c \in ToSet(Chain(e.start)) : area[c] \in Seq(Dead),
           NEW buffer, buffer = FileBuffer(e, buf, offset)
    PROVE  buffer \in Seq(Dead)
  <1>1. PICK size : size = NewSize(e, buf, offset)
    OBVIOUS
  <1>2. offset \in Nat /\ buf \in Seq(Units) /\ size \in Nat /\ Len(buffer) = size
        /\ buffer \in Seq(Contents)
    BY <1>1, WriteChecked
  <1>3. PICK cells : cells = Cells(e.start) /\ cells \in Seq(Dead)
    BY CellsDead
  <1>4. PICK old : old = FileContent(e, size, Zero)
    OBVIOUS
  <1>5. /\ DOMAIN old = 1 .. size
        /\ \A k \in 1 .. size :
             old[k] = IF k <= e.size /\ k <= Len(cells) THEN cells[k] ELSE Zero
    BY <1>3, <1>4 DEF FileContent
  <1>6. \A k \in 1 .. size : old[k] \in Dead
    <2>1. \A k \in 1 .. size : k <= Len(cells) => cells[k] \in Dead
      BY <1>2, <1>3
    <2> QED
      BY <2>1, <1>5, DeadAre
  <1>7. /\ DOMAIN buffer = 1 .. size
        /\ \A k \in 1 .. size :
             buffer[k] = IF k > offset /\ k <= offset + Len(buf) THEN buf[k - offset]
                                                                ELSE old[k]
    BY <1>1, <1>4, <1>5 DEF FileBuffer
  <1>8. ASSUME NEW k \in 1 .. size PROVE buffer[k] \in Dead
    <2>1. CASE k > offset /\ k <= offset + Len(buf)
      <3>1. k - offset \in 1 .. Len(buf)
        BY <2>1, <1>2
      <3>2. buf[k - offset] \in Units
        BY <3>1, <1>2
      <3> QED
        BY <2>1, <3>2, <1>7, DeadAre
    <2>2. CASE ~(k > offset /\ k <= offset + Len(buf))
      BY <2>2, <1>6, <1>7
    <2> QED
      BY <2>1, <2>2
  <1>9. buffer = [k \in 1 .. size |-> buffer[k]]
    BY <1>2
  <1> QED
    BY <1>2, <1>8, <1>9

LEMMA TidyFill ==
    ASSUME NEW u, NEW DS, Tidy(u, DS), NEW old, NEW v, v = Freed(u, old),
           NEW chain, chain \in Seq(Clusters), NEW buffer, buffer \in Seq(Dead),
           NEW x, FilledTo(v, x, chain, buffer, Len(chain))
    PROVE  Tidy(x, DS)
  <1>1. ASSUME NEW b \in Clusters \ DS PROVE x.area[b] \in Seq(Dead)
    <2>1. CASE \E i \in 1 .. Len(chain) : chain[i] = b
      <3>1. PICK i \in 1 .. Len(chain) : chain[i] = b
        BY <2>1
      <3>2. x.area[b] = DataCells(Piece(buffer, i))
        BY <3>1 DEF FilledTo
      <3>3. i \in Nat \ {0}
        OBVIOUS
      <3>4. PICK from, n : from = PieceStart(i) /\ n = PieceLen(from, Len(buffer))
        OBVIOUS
      <3>5. Piece(buffer, i) \in Seq(Dead)
        BY ONLY <3>3, <3>4, buffer \in Seq(Dead), PieceIs
      <3> QED
        BY <3>2, <3>5, DataCellsDead
    <2>2. CASE \A i \in 1 .. Len(chain) : chain[i] # b
      <3>1. x.area[b] = v.area[b]
        BY <2>2, <1>1 DEF FilledTo
      <3>2. v.area = u.area
        BY DEF Freed
      <3> QED
        BY <3>1, <3>2, <1>1 DEF Tidy
    <2> QED
      BY <2>1, <2>2
  <1> QED
    BY <1>1 DEF Tidy

-----------------------------------------------------------------------------
(* The clusters that are marked and on nobody's chain.                     *)
Waste(u, DS, path) ==
    {c \in Clusters : /\ u.fat[1][c] # Free
                      /\ \A r \in Refs(u, DS) : \A i \in 1 .. Len(path[r]) : path[r][i] # c}

(* What a call may do to them.                                             *)
Wastes(L, L2, V, V2, op, p, code) ==
    \/ L2 = L
    \/ /\ op = "write" /\ L \subseteq L2
       /\ code = "ENOSPC" \/ Len(V2[p].data) = Len(V[p].data)

LEMMA WasteAdd ==
    ASSUME NEW u, NEW DS, NEW path, NEW w, NEW r, NEW e, Added(u, DS, path, w, r, e),
           Marks(u, w, {}, {e.start}),
           NEW E, E = Grown(DS, e),
           NEW path2, path2 = WithPath(path, Refs(w, Grown(DS, e)), r, <<e.start>>)
    PROVE  Waste(w, E, path2) = Waste(u, DS, path)
  <1>1. /\ r \notin Refs(u, DS) /\ u.fat[1][e.start] = Free
        /\ Refs(w, E) = Refs(u, DS) \cup {r}
    BY DEF Added
  <1>2. PICK R, c0 : R = Refs(u, DS) /\ c0 = e.start
    OBVIOUS
  <1>3. /\ \A s \in R : path2[s] = path[s]
        /\ path2[r] = <<c0>>
    BY <1>1, <1>2 DEF WithPath
  <1>4. Len(path2[r]) = 1 /\ path2[r][1] = c0
    BY <1>3
  <1>5. ASSUME NEW c \in Clusters
        PROVE  c \in Waste(w, E, path2) <=> c \in Waste(u, DS, path)
    <2>1. w.fat[1][c] # Free <=> c = c0 \/ u.fat[1][c] # Free
      BY <1>2 DEF Marks
    <2>2. (\A s \in Refs(w, E) : \A i \in 1 .. Len(path2[s]) : path2[s][i] # c)
            <=> c # c0 /\ \A s \in R : \A i \in 1 .. Len(path[s]) : path[s][i] # c
      <3> DEFINE Off(a) == \A i \in 1 .. Len(a) : a[i] # c
      <3>1. Off(path2[r]) <=> c # c0
        <4>1. PICK a : a = path2[r]
          OBVIOUS
        <4>2. Len(a) = 1 /\ a[1] = c0
          BY <4>1, <1>4
        <4>3. (\A i \in 1 .. 1 : a[i] # c) <=> c # c0
          BY <4>2
        <4> QED
          BY <4>1, <4>2, <4>3
      <3>2. \A s \in R : Off(path2[s]) <=> Off(path[s])
        BY <1>3
      <3> HIDE DEF Off
      <3>3. (\A s \in Refs(w, E) : Off(path2[s])) <=> c # c0 /\ \A s \in R : Off(path[s])
        BY <1>1, <1>2, <3>1, <3>2
      <3> QED
        BY <3>3 DEF Off
    <2> QED
      BY ONLY <1>1, <1>2, <2>1, <2>2, <1>5 DEF Waste
  <1> QED
    BY <1>5 DEF Waste

LEMMA WasteRemove ==
    ASSUME NEW u, NEW DS, NEW path, Good(u, DS, path), NEW w, NEW r, Removed(u, DS, path, w, r),
           Marks(u, w, ToSet(path[r]), {}), NEW E, E = Shrunk(DS, At(u, r))
    PROVE  Waste(w, E, path) = Waste(u, DS, path)
  <1>1. r \in Refs(u, DS) /\ Refs(w, E) = Refs(u, DS) \ {r}
    BY DEF Removed
  <1>2. path[r] \in Seq(Clusters)
    BY <1>1 DEF Good, OnPath
  <1>3. \A c : c \in ToSet(path[r]) <=> \E i \in 1 .. Len(path[r]) : path[r][i] = c
    BY <1>2 DEF ToSet
  <1>4. PICK own : own = ToSet(path[r])
    OBVIOUS
  <1>5. ASSUME NEW c \in Clusters
        PROVE  c \in Waste(w, E, path) <=> c \in Waste(u, DS, path)
    <2>1. w.fat[1][c] # Free <=> u.fat[1][c] # Free /\ c \notin own
      BY <1>4 DEF Marks
    <2> QED
      BY ONLY <1>1, <1>3, <1>4, <2>1, <1>5 DEF Waste
  <1> QED
    BY <1>5 DEF Waste

(* A file gets the chain q.                                                *)
LEMMA WasteChain ==
    ASSUME NEW u, NEW DS, NEW path, Good(u, DS, path), NEW r \in Refs(u, DS),
           NEW w, Refs(w, DS) = Refs(u, DS),
           NEW old, old = <<>> \/ old = path[r],
           NEW chain, Takes(u, old, chain), Marks(u, w, ToSet(old), ToSet(chain)),
           NEW q, \A i \in 1 .. Len(q) : \/ \E j \in 1 .. Len(chain) : chain[j] = q[i]
                                        \/ \E j \in 1 .. Len(path[r]) : path[r][j] = q[i],
           NEW path2, path2 = WithPath(path, Refs(u, DS), r, q)
    PROVE  /\ Waste(u, DS, path) \subseteq Waste(w, DS, path2)
           /\ old = path[r] /\ q = chain => Waste(w, DS, path2) = Waste(u, DS, path)
  <1>1. PICK R, own : R = Refs(u, DS) /\ own = path[r]
    OBVIOUS
  <1>2. path2[r] = q /\ \A s \in R \ {r} : path2[s] = path[s]
    BY <1>1 DEF WithPath
  <1>3. own \in Seq(Clusters) /\ chain \in Seq(Clusters)
    BY <1>1 DEF Good, OnPath, Takes
  <1>4. old = <<>> \/ old = own
    BY <1>1
  <1>5. /\ \A c : c \in ToSet(own) <=> \E i \in 1 .. Len(own) : own[i] = c
        /\ \A c : c \in ToSet(chain) <=> \E i \in 1 .. Len(chain) : chain[i] = c
        /\ ToSet(old) \subseteq ToSet(own)
    <2>1. DOMAIN own = 1 .. Len(own) /\ DOMAIN chain = 1 .. Len(chain)
      BY <1>3
    <2>2. old = <<>> => ToSet(old) = {}
      BY DEF ToSet
    <2> QED
      BY <2>1, <2>2, <1>4 DEF ToSet
  <1>6. \A c \in ToSet(chain) : u.fat[1][c] = Free \/ c \in ToSet(own)
    <2>1. \A i \in 1 .. Len(chain) :
             u.fat[1][chain[i]] = Free \/ \E j \in 1 .. Len(old) : old[j] = chain[i]
      BY DEF Takes
    <2>2. \A i \in 1 .. Len(old) : old[i] \in ToSet(own)
      <3>1. CASE old = <<>>
        BY <3>1
      <3>2. CASE old = own
        BY <3>2, <1>5
      <3> QED
        BY <3>1, <3>2, <1>4
    <2> QED
      BY <2>1, <2>2, <1>5
  <1>7. PICK T, N, O : T = ToSet(own) /\ N = ToSet(chain) /\ O = ToSet(old)
    OBVIOUS
  <1>8. /\ O \subseteq T /\ \A c \in N : u.fat[1][c] = Free \/ c \in T
        /\ \A i \in 1 .. Len(q) : q[i] \in N \cup T
        /\ old = own => O = T
        /\ q = chain => \A c \in N : \E i \in 1 .. Len(q) : q[i] = c
        /\ q = chain => \A i \in 1 .. Len(q) : q[i] \in N
        /\ \A c \in T : \E i \in 1 .. Len(own) : own[i] = c
        /\ \A i \in 1 .. Len(own) : own[i] \in T
    BY <1>1, <1>5, <1>6, <1>7
  <1>9. \A c \in Clusters : w.fat[1][c] # Free <=> c \in N \/ (u.fat[1][c] # Free /\ c \notin O)
    BY <1>7 DEF Marks
  <1>10. \A c \in Clusters :
           c \in Waste(u, DS, path) <=>
             /\ u.fat[1][c] # Free /\ c \notin T
             /\ \A s \in R \ {r} : \A i \in 1 .. Len(path[s]) : path[s][i] # c
    BY <1>1, <1>8 DEF Waste
  <1>11. \A c \in Clusters :
           c \in Waste(w, DS, path2) <=>
             /\ w.fat[1][c] # Free /\ \A i \in 1 .. Len(q) : q[i] # c
             /\ \A s \in R \ {r} : \A i \in 1 .. Len(path[s]) : path[s][i] # c
    BY <1>1, <1>2 DEF Waste
  <1>12. Waste(u, DS, path) \subseteq Clusters /\ Waste(w, DS, path2) \subseteq Clusters
    BY DEF Waste
  <1>13. PICK A, B : A = Waste(u, DS, path) /\ B = Waste(w, DS, path2)
    OBVIOUS
  <1>14. A \subseteq B
    BY ONLY <1>8, <1>9, <1>10, <1>11, <1>12, <1>13
  <1>15. old = own /\ q = chain => B \subseteq A
    BY ONLY <1>8, <1>9, <1>10, <1>11, <1>12, <1>13
  <1> QED
    BY <1>1, <1>13, <1>14, <1>15

-----------------------------------------------------------------------------
(* A handler owes the answer to a call on the files V; its writes lead to  *)
(* a volume where a program sees what that call makes of them.             *)
Outcome(w, V, L, op, p, code) ==
    \E DS, path, D, at, V2 :
       /\ Good(w, DS, path) /\ Named(w, DS, D, at) /\ Views(w, D, at, path, V2)
       /\ Tidy(w, DS) /\ Sized(w, DS) /\ Answers(V, V2, code)
       /\ Wastes(L, Waste(w, DS, path), V, V2, op, p, code)

Leading(P, V) ==
    \E w, code :
       /\ Running(w, P) /\ Outcome(w, V, leaked, call.op, call.path, code)
       /\ Ends(code) /\ code # "busy"

LEMMA LeadingStarts ==
    ASSUME NEW P, NEW V, NEW op, NEW p, NEW writes, NEW code, Answer(op, p, writes, code),
           NEW w, Running(w, P)', Outcome(w, V, leaked, op, p, code), Ends(code)',
           code # "busy"
    PROVE  Leading(P, V)'
  <1>1. call' = [op |-> op, path |-> p] /\ leaked' = leaked
    BY DEF Answer
  <1>2. PICK L, o, q : L = leaked' /\ o = call'.op /\ q = call'.path
    OBVIOUS
  <1>3. Outcome(w, V, L, o, q, code)
    BY <1>1, <1>2
  <1> QED
    BY <1>2, <1>3 DEF Leading

(* What the handler of p may touch.                                        *)
OwnClusters(p) ==
    FreeClusters \cup (IF Exists(p) THEN ToSet(Chain(Entry(p).start)) ELSE {})

OwnSlot(p) ==
    IF Exists(p) THEN SlotIn(ParentDir(p), p) ELSE FreeSlot(read_directory(ParentDir(p)))

OwnUpdates(p) ==
    {SlotUpdate(ParentDir(p), OwnSlot(p), x) :
        x \in {y \in Contents : ~IsLive(y) \/ y.name = Last(p)}}

Handles(p, P) ==
    /\ Disk \in P
    /\ Exists(p) \/ MakeRefusal(p) = "ok" =>
         \E Q, C, S : /\ Tame(P, Q, C, S) /\ Disk \in Q
                      /\ OwnClusters(p) \subseteq C /\ OwnUpdates(p) \subseteq S

LEMMA ShortName ==
    ASSUME ShortNames, NEW p \in Paths
    PROVE  format_to_fat_name(Last(p)) = Last(p)
  <1>1. Last(p) \in Names /\ Last(p) = p[Len(p)] /\ Len(p) \in 1 .. Len(p)
    BY PathIs
  <1>2. Last(p)[2] = ""
    BY <1>1 DEF ShortNames
  <1>3. Last(p) = <<Last(p)[1], Last(p)[2]>>
    <2>1. PICK A, B, n : A = STRING \cup {".", ".."} /\ B = STRING \cup {""} /\ n = Last(p)
      OBVIOUS
    <2>2. n \in A \X B
      BY <2>1, <1>1 DEF Names
    <2>3. n = <<n[1], n[2]>>
      BY ONLY <2>2
    <2> QED
      BY <2>1, <2>3
  <1> QED
    BY <1>2, <1>3 DEF format_to_fat_name

LEMMA RefusedAnswers ==
    ASSUME NEW DS, NEW path, Good(Disk, DS, path), NEW D, NEW at, Named(Disk, DS, D, at),
           NEW V, Views(Disk, D, at, path, V), Tidy(Disk, DS),
           Sized(Disk, DS), leaked = Waste(Disk, DS, path), NEW P, Disk \in P,
           NEW op, NEW p, NEW code, Answer(op, p, <<>>, code),
           Answers(V, V, code), code # "busy"
    PROVE  Leading(P, V)'
  <1>1. PICK w : w = Disk /\ w \in P
    OBVIOUS
  <1>2. Running(w, P)'
    BY <1>1, RefusedRuns
  <1>3. Outcome(w, V, leaked, op, p, code)
    BY <1>1 DEF Outcome, Wastes
  <1>4. PICK writes : writes = <<>>
    OBVIOUS
  <1>5. Answer(op, p, writes, code) /\ writes \in Seq(Updates)
    BY <1>4
  <1>6. Ends(code)'
    BY <1>5, AnswerEnds
  <1> QED
    BY <1>2, <1>3, <1>6, LeadingStarts

LEMMA MakeAnswers ==
    ASSUME ShortNames, NEW DS, NEW path, Good(Disk, DS, path), NEW D, NEW at,
           Named(Disk, DS, D, at), NEW V, Views(Disk, D, at, path, V),
           Tidy(Disk, DS), Sized(Disk, DS), leaked = Waste(Disk, DS, path),
           NEW p \in Paths, NEW dir \in BOOLEAN, IF dir THEN mkdir(p) ELSE create(p),
           MakeRefusal(p) = "ok", NEW P, Handles(p, P)
    PROVE  Leading(P, V)'
  <1>1. VolumeOK
    BY DEF Good, VolumeOK
  <1>2. PICK e, r : /\ e = NewEntry(p, dir)
                    /\ r = <<ParentDir(p), FreeSlot(read_directory(ParentDir(p)))>>
    OBVIOUS
  <1>3. /\ ParentDir(p) \in Nat /\ ~Exists(p) /\ LowestFree \in FreeClusters
        /\ e \in Entries /\ NewSlot(p, dir) \in SlotUpdates
    BY <1>1, <1>2, MakeChecked DEF FreeClusters
  <1>4. e.name = Last(p) /\ e.dir = dir /\ e.size = 0
    BY <1>2, ShortName DEF NewEntry
  <1>5. PICK Q, C, S : /\ Tame(P, Q, C, S) /\ Disk \in Q
                       /\ OwnClusters(p) \subseteq C /\ OwnUpdates(p) \subseteq S
    BY <1>1 DEF Handles
  <1>6. LowestFree \in C /\ NewSlot(p, dir) \in S
    <2>1. e \in {y \in Contents : ~IsLive(y) \/ y.name = Last(p)}
      BY <1>3, <1>4 DEF Contents
    <2>2. NewSlot(p, dir) = SlotUpdate(ParentDir(p), OwnSlot(p), e)
      BY <1>2, <1>3 DEF NewSlot, OwnSlot
    <2>3. NewSlot(p, dir) \in OwnUpdates(p)
      BY <2>1, <2>2 DEF OwnUpdates
    <2> QED
      BY <2>3, <1>3, <1>5 DEF OwnClusters
  <1>7. PICK w \in Q : /\ Added(Disk, DS, path, w, r, e) /\ Running(w, P)'
                       /\ Books(Disk, w, DS, Grown(DS, e), {}, {e.start})
    BY <1>2, <1>5, <1>6, MakeSteps
  <1>8. p \notin D /\ HasParent(V, p) /\ DOMAIN V = D /\ Leads(Disk, D, at, p, r[1])
    <2>1. ParentDir(p) # Lost
      BY <1>3, ClustersAreFinite DEF Lost
    <2>2. r[1] = ParentDir(p)
      BY <1>2
    <2> QED
      BY <2>1, <2>2, <1>3, Lookups
  <1>9. PICK u, s, D2, at2, V2, path2, E :
          /\ u = Disk
          /\ s = [dir |-> dir, data |-> <<>>]
          /\ D2 = D \cup {p} /\ at2 = With(D, at, p, r) /\ V2 = With(D, V, p, s)
          /\ E = Grown(DS, e)
          /\ path2 = WithPath(path, Refs(w, Grown(DS, e)), r, <<e.start>>)
    OBVIOUS
  <1>10. Good(w, E, path2)
    BY <1>7, <1>9 DEF Added
  <1>11. Named(w, E, D2, at2)
    BY <1>4, <1>7, <1>8, <1>9, NamedAdd
  <1>12. Views(w, D2, at2, path2, V2)
    <2>1. s = [dir |-> e.dir, data |-> <<>>]
      BY <1>4, <1>9
    <2>2. ~e.dir => w.area[e.start] = u.area[e.start]
      BY <1>7, <1>9 DEF Added
    <2> QED
      BY <2>1, <2>2, <1>4, <1>7, <1>8, <1>9, ViewsAdd
  <1>13. Answers(V, V2, "ok")
    <2>1. MakeAnswer(V, V2, p, dir, "ok")
      BY <1>8, <1>9 DEF MakeAnswer
    <2> QED
      BY <2>1 DEF Answers
  <1>14. Ends("ok")'
    <2>1. \E writes \in Seq(Updates) : \E op : Answer(op, p, writes, "ok")
      <3>1. PICK P2, Q2, C2, S2 : /\ P2 = Volumes /\ Q2 = Volumes /\ C2 = Clusters
                                  /\ S2 = SlotUpdates /\ Tame(P2, Q2, C2, S2)
                                  /\ Disk \in Q2
        BY <1>1, VolumesTame DEF VolumeOK
      <3>2. LowestFree \in C2 /\ NewSlot(p, dir) \in S2
        BY <1>3, <3>1 DEF FreeClusters
      <3>3. CASE dir
        <4>1. PICK cells : cells = EmptyDirectory(LowestFree, ParentDir(p))
          OBVIOUS
        <4>2. PICK x : x = After(SetFat(After(Disk, NewSlot(p, TRUE)), LowestFree, EOC),
                                 AreaUpdate(LowestFree, cells))
          OBVIOUS
        <4>3. EntryWrites(p, TRUE) \o AreaWrite(LowestFree, cells) \in Seq(Updates)
          BY <3>1, <3>2, <3>3, <4>1, <4>2, <1>1, DirectoryRuns
        <4>4. Answer("mkdir", p, EntryWrites(p, TRUE) \o AreaWrite(LowestFree, cells), "ok")
          BY <3>3, <4>1 DEF mkdir
        <4> QED
          BY <4>3, <4>4
      <3>4. CASE ~dir
        <4>1. PICK x : x = SetFat(After(Disk, NewSlot(p, FALSE)), LowestFree, EOC)
          OBVIOUS
        <4>2. EntryWrites(p, FALSE) \in Seq(Updates)
          BY <3>1, <3>2, <3>4, <4>1, <1>1, EntryRuns
        <4>3. Answer("create", p, EntryWrites(p, FALSE), "ok")
          BY <3>4 DEF create
        <4> QED
          BY <4>2, <4>3
      <3> QED
        BY <3>3, <3>4
    <2> QED
      BY <2>1, AnswerEnds
  <1>15. Tidy(w, E)
    BY <1>7, <1>9, TidyAdd
  <1>16. Waste(w, E, path2) = leaked
    <2>1. Added(u, DS, path, w, r, e) /\ Marks(u, w, {}, {e.start}) /\ leaked = Waste(u, DS, path)
      BY <1>7, <1>9 DEF Books
    <2> QED
      BY ONLY <2>1, <1>9, WasteAdd
  <1>19. Sized(w, E)
    BY <1>7, <1>9 DEF Books
  <1>17. PICK op, writes : Answer(op, p, writes, "ok")
    BY DEF create, mkdir
  <1>18. Outcome(w, V, leaked, op, p, "ok")
    BY <1>10, <1>11, <1>12, <1>13, <1>15, <1>16, <1>19 DEF Outcome, Wastes
  <1> QED
    BY <1>7, <1>14, <1>17, <1>18, LeadingStarts

LEMMA RemoveAnswers ==
    ASSUME NEW DS, NEW path, Good(Disk, DS, path), NEW D, NEW at,
           Named(Disk, DS, D, at), NEW V, Views(Disk, D, at, path, V),
           Tidy(Disk, DS), Sized(Disk, DS), leaked = Waste(Disk, DS, path), NEW p \in Paths, Exists(p),
           Entry(p).dir => readdir(Entry(p).start) = <<>>,
           NEW op, Answer(op, p, RemovalWrites(p), "ok"), NEW P, Handles(p, P)
    PROVE  Leading(P, V)'
  <1>1. VolumeOK
    BY DEF Good, VolumeOK
  <1>2. PICK r : r = <<ParentDir(p), SlotIn(ParentDir(p), p)>>
    OBVIOUS
  <1>3. PICK Q, C, S : /\ Tame(P, Q, C, S) /\ Disk \in Q
                       /\ OwnClusters(p) \subseteq C /\ OwnUpdates(p) \subseteq S
    BY DEF Handles
  <1>4. ToSet(Chain(Entry(p).start)) \subseteq C /\ OldSlot(p, NoEntry) \in S
    <2>1. NoEntry \in {y \in Contents : ~IsLive(y) \/ y.name = Last(p)}
      BY DEF Contents, IsLive, IsEntry
    <2>2. OldSlot(p, NoEntry) = SlotUpdate(ParentDir(p), OwnSlot(p), NoEntry)
      BY DEF OldSlot, OwnSlot
    <2>3. OldSlot(p, NoEntry) \in OwnUpdates(p)
      BY <2>1, <2>2 DEF OwnUpdates
    <2> QED
      BY <2>3, <1>3 DEF OwnClusters
  <1>5. PICK w \in Q : /\ Removed(Disk, DS, path, w, r) /\ Running(w, P)'
                       /\ Books(Disk, w, DS, Shrunk(DS, At(Disk, r)), ToSet(path[r]), {})
    BY <1>2, <1>3, <1>4, RemoveSteps
  <1>6. p \in D /\ at[p] = r /\ DOMAIN V = D /\ V[p].dir = Entry(p).dir
        /\ Entry(p) = At(Disk, r)
    BY <1>2, Lookups
  <1>7. PICK u, D2, V2, E : /\ u = Disk /\ D2 = D \ {p} /\ V2 = Less(D, V, p)
                            /\ E = Shrunk(DS, At(Disk, r))
    OBVIOUS
  <1>8. Good(w, E, path)
    BY <1>5, <1>7 DEF Removed
  <1>9. Named(w, E, D2, at) /\ \A q \in D : Len(q) > 1 => Front(q) # p
    <2>1. E = Shrunk(DS, At(u, r)) /\ Good(u, DS, path) /\ Named(u, DS, D, at)
          /\ Removed(u, DS, path, w, r) /\ r = at[p]
      BY <1>5, <1>6, <1>7
    <2> QED
      BY ONLY <2>1, <1>6, <1>7, NamedRemove
  <1>10. Views(w, D2, at, path, V2)
    <2>1. Good(u, DS, path) /\ Named(u, DS, D, at) /\ Views(u, D, at, path, V)
          /\ Removed(u, DS, path, w, r) /\ r = at[p]
      BY <1>5, <1>6, <1>7
    <2> QED
      BY ONLY <2>1, <1>6, <1>7, ViewsRemove
  <1>11. Answers(V, V2, "ok")
    <2>1. CASE V[p].dir
      <3>1. ASSUME NEW q \in D PROVE Len(q) = 1 \/ Front(q) # p
        <4>1. PICK n \in Nat : n = Len(q) /\ n # 0
          BY PathIs DEF Named
        <4>2. CASE n = 1
          BY <4>1, <4>2
        <4>3. CASE n # 1
          <5>1. Len(q) > 1
            BY <4>1, <4>3
          <5> QED
            BY <5>1, <1>9
        <4> QED
          BY <4>2, <4>3
      <3>2. RmdirAnswer(V, V2, p, "ok")
        BY <2>1, <3>1, <1>6, <1>7 DEF RmdirAnswer
      <3> QED
        BY <3>2 DEF Answers
    <2>2. CASE ~V[p].dir
      <3>1. UnlinkAnswer(V, V2, p, "ok")
        BY <2>2, <1>6, <1>7 DEF UnlinkAnswer, IsFileOf
      <3> QED
        BY <3>1 DEF Answers
    <2> QED
      BY <2>1, <2>2
  <1>12. Ends("ok")'
    <2>1. PICK writes : writes = RemovalWrites(p)
      OBVIOUS
    <2>2. PICK P2, Q2, C2, S2 : /\ P2 = Volumes /\ Q2 = Volumes /\ C2 = Clusters
                                /\ S2 = SlotUpdates /\ Tame(P2, Q2, C2, S2)
                                /\ Disk \in Q2
      BY <1>1, VolumesTame DEF VolumeOK
    <2>3. ToSet(Chain(Entry(p).start)) \subseteq C2 /\ OldSlot(p, NoEntry) \in S2
      BY <2>2, <1>1, ChainType, SlotInIsUpdate DEF Contents
    <2>4. PICK x : x = After(Freed(Disk, ToSet(Chain(Entry(p).start))), OldSlot(p, NoEntry))
      OBVIOUS
    <2>5. writes \in Seq(Updates)
      BY <2>1, <2>2, <2>3, <2>4, <1>1, RemovalRuns
    <2>6. Answer(op, p, writes, "ok")
      BY <2>1
    <2> QED
      BY <2>5, <2>6, AnswerEnds
  <1>13. Tidy(w, E)
    <2>1. At(u, r).dir => Barren(u, At(u, r).start)
      <3>1. ASSUME At(u, r).dir PROVE Barren(u, At(u, r).start)
        <4>1. Entry(p).dir /\ readdir(Entry(p).start) = <<>> /\ Entry(p) = At(u, r)
          BY <3>1, <1>6, <1>7
        <4>2. r \in Refs(Disk, DS)
          BY <1>5 DEF Removed
        <4>3. Entry(p).start \in DS
          BY <4>1, <4>2, <1>6 DEF Good
        <4> QED
          BY <4>1, <4>3, <1>7, EmptyIsBarren
      <3> QED
        BY <3>1
    <2>2. u \in Volumes /\ Tidy(u, DS) /\ Removed(u, DS, path, w, r)
      BY <1>1, <1>5, <1>7 DEF VolumeOK
    <2>3. E = Shrunk(DS, At(u, r))
      BY <1>7
    <2> QED
      BY ONLY <2>1, <2>2, <2>3, TidyRemove
  <1>14. Waste(w, E, path) = leaked
    <2>1. /\ Good(u, DS, path) /\ Removed(u, DS, path, w, r) /\ Marks(u, w, ToSet(path[r]), {})
          /\ leaked = Waste(u, DS, path) /\ E = Shrunk(DS, At(u, r))
      BY <1>5, <1>7 DEF Books
    <2> QED
      BY ONLY <2>1, WasteRemove
  <1>17. Sized(w, E)
    BY <1>5, <1>7 DEF Books
  <1>15. Outcome(w, V, leaked, op, p, "ok")
    BY <1>8, <1>9, <1>10, <1>11, <1>13, <1>14, <1>17 DEF Outcome, Wastes
  <1>16. PICK writes : Answer(op, p, writes, "ok")
    OBVIOUS
  <1> QED
    BY <1>5, <1>12, <1>15, <1>16, LeadingStarts

LEMMA WriteEnds ==
    ASSUME VolumeOK, NEW p \in Paths, open(p) = "ok",
           NEW buf \in DataChoices, NEW offset \in OffsetChoices,
           write(p, buf, offset),
           NEW e, e = Entry(p),
           NEW size, size = NewSize(e, buf, offset),
           NEW chain, chain = Allocated(e, size)
    PROVE  IF Len(chain) < ClustersNeeded(size) THEN Ends("ENOSPC")' ELSE Ends("ok")'
  <1>1. PICK P, Q, C, S : /\ P = Volumes /\ Q = Volumes /\ C = Clusters
                          /\ S = SlotUpdates /\ Tame(P, Q, C, S) /\ Disk \in Q
    BY VolumesTame DEF VolumeOK
  <1>2. PICK buffer : buffer = FileBuffer(e, buf, offset)
    OBVIOUS
  <1>3. /\ Exists(p) /\ e \in Entries /\ size \in Nat \ {0}
        /\ buffer \in Seq(Contents)
    BY <1>2, WriteChecked
  <1>4. PICK old, v : old = OldChain(e, size) /\ v = Freed(Disk, ToSet(old))
    OBVIOUS
  <1>5. /\ old \in Seq(Clusters) /\ ToSet(old) \subseteq C
        /\ chain \in Seq(C)
        /\ \A i, j \in 1 .. Len(chain) : chain[i] = chain[j] => i = j
        /\ Len(chain) <= ClustersNeeded(size)
    <2>1. PICK W : W = Available(e, size)
      OBVIOUS
    <2>2. size \in Nat
      BY <1>3
    <2> QED
      BY <1>1, <1>4, <2>1, <2>2, AllocatedIs
  <1>6. PICK a, b, x : /\ a = FreeingWrites(old) /\ b = AllocationWrites(chain, buffer)
                       /\ x = [e EXCEPT !.start = chain[1], !.size = size]
    OBVIOUS
  <1>7. a \in Seq(Updates) /\ v \in Q
    BY <1>1, <1>4, <1>5, <1>6, FreeingRuns
  <1>8. b \in Seq(Updates)
    BY <1>1, <1>3, <1>5, <1>6, <1>7, AllocationRuns
  <1>9. PICK c, s : c = a \o b
                    /\ s = SlotWrite(ParentDir(p), SlotIn(ParentDir(p), p), x)
    OBVIOUS
  <1>10. c \in Seq(Updates)
    BY <1>7, <1>8, <1>9
  <1>11. IF Len(chain) < ClustersNeeded(size)
         THEN Answer("write", p, c, "ENOSPC")
         ELSE Answer("write", p, c \o s, "ok")
    BY <1>2, <1>4, <1>6, <1>9 DEF write
  <1>12. CASE Len(chain) < ClustersNeeded(size)
    <2>1. Answer("write", p, c, "ENOSPC")
      BY <1>11, <1>12
    <2>2. Ends("ENOSPC")'
      BY <2>1, <1>10, AnswerEnds
    <2> QED
      BY <2>2, <1>12
  <1>13. CASE ~(Len(chain) < ClustersNeeded(size))
    <2>1. Answer("write", p, c \o s, "ok")
      BY <1>11, <1>13
    <2>2. x \in Contents
      <3>1. chain # <<>> /\ chain[1] \in Clusters
        <4>1. ClustersNeeded(size) # 0 /\ ClustersNeeded(size) \in Nat
          BY <1>3, NeededIs
        <4>2. Len(chain) # 0 /\ Len(chain) \in Nat
          BY <4>1, <1>5, <1>13
        <4> QED
          BY <4>2, <1>1, <1>5
      <3> QED
        BY <3>1, <1>3, <1>6, ClustersAreFinite DEF Entries, Contents
    <2>3. OldSlot(p, x) \in S
      BY <2>2, <1>1, <1>3, SlotInIsUpdate
    <2>4. PICK d, i : d = ParentDir(p) /\ i = SlotIn(ParentDir(p), p)
      OBVIOUS
    <2>5. SlotUpdate(d, i, x) \in S /\ s = SlotWrite(d, i, x)
      BY <2>3, <2>4, <1>9 DEF OldSlot
    <2>6. s \in Seq(Updates)
      BY <2>5, <1>1, SlotRuns
    <2>7. PICK q : q = c \o s
      OBVIOUS
    <2>8. Answer("write", p, q, "ok") /\ q \in Seq(Updates)
      BY <2>1, <2>6, <2>7, <1>10
    <2>9. Ends("ok")'
      BY <2>8, AnswerEnds
    <2> QED
      BY <2>9, <1>13
  <1> QED
    BY <1>12, <1>13

LEMMA WriteAnswers ==
    ASSUME NEW DS, NEW path, Good(Disk, DS, path), NEW D, NEW at,
           Named(Disk, DS, D, at), NEW V, Views(Disk, D, at, path, V),
           Tidy(Disk, DS), Sized(Disk, DS), leaked = Waste(Disk, DS, path), NEW p \in Paths, open(p) = "ok",
           NEW buf \in DataChoices, NEW offset \in OffsetChoices,
           write(p, buf, offset), NEW P, Handles(p, P)
    PROVE  Leading(P, V)'
  <1>1. VolumeOK
    BY DEF Good, VolumeOK
  <1>2. PICK e, size, r : /\ e = Entry(p) /\ size = NewSize(e, buf, offset)
                          /\ r = <<ParentDir(p), SlotIn(ParentDir(p), p)>>
    OBVIOUS
  <1>3. PICK buffer, chain, S1, old : /\ buffer = FileBuffer(e, buf, offset)
                                      /\ chain = Allocated(e, size)
                                      /\ S1 = Available(e, size)
                                      /\ old = OldChain(e, size)
    OBVIOUS
  <1>4. /\ Exists(p) /\ ~e.dir /\ e \in Entries /\ size \in Nat /\ e.size <= size
        /\ size = offset + Len(buf) \/ size = e.size
        /\ buffer \in Seq(Contents) /\ Len(buffer) = size
    BY <1>1, <1>2, <1>3, WriteChecked
  <1>5. PICK Q, C, S : /\ Tame(P, Q, C, S) /\ Disk \in Q
                       /\ OwnClusters(p) \subseteq C /\ OwnUpdates(p) \subseteq S
    BY <1>4 DEF Handles
  <1>6. /\ p \in D /\ at[p] = r /\ DOMAIN V = D /\ V[p].dir = e.dir
        /\ e = At(Disk, r) /\ Seen(Disk, e, path[r], V[p])
    BY <1>2, <1>4, Lookups
  <1>7. /\ r \in Refs(Disk, DS) /\ Chain(e.start) = path[r] /\ At(Disk, r).name = Last(p)
    BY <1>2, <1>4, RefOf
  <1>8. old = <<>> \/ old = path[r]
    BY <1>3, <1>7 DEF OldChain
  <1>9. /\ ToSet(old) \subseteq Clusters /\ old \in Seq(Clusters)
        /\ chain \in Seq(Clusters)
        /\ \A i, j \in 1 .. Len(chain) : i < j => chain[i] < chain[j]
        /\ Len(chain) <= ClustersNeeded(size)
        /\ Len(chain) < ClustersNeeded(size) =>
             \A c \in S1 : \E i \in 1 .. Len(chain) : chain[i] = c
    BY <1>3, <1>4, AllocatedIs
  <1>10. Available(e, size) \subseteq C
    <2>1. ToSet(old) \subseteq ToSet(Chain(e.start))
      <3>1. CASE old = <<>>
        BY <3>1 DEF ToSet
      <3>2. CASE old = path[r]
        BY <3>2, <1>7
      <3> QED
        BY <3>1, <3>2, <1>8
    <2>2. OwnClusters(p) = FreeClusters \cup ToSet(Chain(e.start))
      BY <1>2, <1>4 DEF OwnClusters
    <2> QED
      BY <2>1, <2>2, <1>3, <1>5 DEF Available
  <1>11. \A c \in C : NewFileSlot(p, e, c, size) \in S
    <2> TAKE c \in C
    <2>1. PICK x : x = [e EXCEPT !.start = c, !.size = size]
      OBVIOUS
    <2>2. c \in Nat
      BY <1>5, ClustersAreFinite DEF Tame
    <2>3. x \in Contents /\ x.name = Last(p)
      BY <2>1, <2>2, <1>4, <1>6, <1>7 DEF Entries, Contents
    <2>4. SlotUpdate(ParentDir(p), OwnSlot(p), x) \in OwnUpdates(p)
      BY <2>3 DEF OwnUpdates
    <2>5. NewFileSlot(p, e, c, size) = SlotUpdate(ParentDir(p), OwnSlot(p), x)
      BY <2>1, <1>4 DEF NewFileSlot, OldSlot, OwnSlot
    <2> QED
      BY <2>4, <2>5, <1>5
  <1>12. PICK u \in Q :
              /\ FilledTo(Freed(Disk, ToSet(OldChain(e, size))), u, chain, buffer,
                          Len(chain))
              /\ IF Len(chain) < ClustersNeeded(size)
                 THEN Spoilt(Disk, DS, path, u, r, OldChain(e, size), chain) /\ Running(u, P)'
                 ELSE \E w \in Q :
                      /\ chain # <<>>
                      /\ Updated(Disk, DS, path, u, w, r, chain, size)
                      /\ Running(w, P)'
    BY <1>2, <1>3, <1>5, <1>10, <1>11, WriteSteps
  <1>13. PICK v, u0 : v = Freed(Disk, ToSet(OldChain(e, size))) /\ u0 = Disk
    OBVIOUS
  <1>14. PICK c0, data : /\ c0 = path[r] /\ data = V[p].data
                         /\ OnPath(Disk, c0, e.start) /\ Stores(Disk, e, c0, data)
    <2>1. Stores(Disk, e, path[r], V[p].data)
      BY <1>4, <1>6 DEF Seen
    <2>2. OnPath(Disk, path[r], e.start)
      BY <1>6, <1>7 DEF Good
    <2> QED
      BY <2>1, <2>2
  <1>15. buffer = Overlaid(data, offset, buf)
    BY <1>1, <1>2, <1>3, <1>14, BufferIs
  <1>16. e.size = Len(data) /\ Len(data) <= MaxSize /\ Len(data) \in Nat
    <2>1. data \in Seq(Contents) /\ e.size = Len(data) /\ Len(data) <= MaxSize
      BY <1>14 DEF Stores
    <2> QED
      BY <2>1
  <1>17. Ascends(chain)
    BY <1>9 DEF Ascends
  <1>18. Good(u0, DS, path) /\ Named(u0, DS, D, at) /\ Views(u0, D, at, path, V)
         /\ FilledTo(v, u, chain, buffer, Len(chain)) /\ r = at[p] /\ u \in Volumes
         /\ ~At(u0, r).dir
    BY <1>4, <1>5, <1>6, <1>12, <1>13 DEF Tame
  <1>21. Tidy(u, DS)
    <2>1. \A c \in ToSet(Chain(e.start)) : area[c] \in Seq(Dead)
      <3> TAKE c \in ToSet(Chain(e.start))
      <3>1. PICK i \in 1 .. Len(path[r]) : path[r][i] = c
        BY <1>7 DEF ToSet, Good, OnPath
      <3>2. r \in Refs(u0, DS) /\ ~At(u0, r).dir
        BY <1>7, <1>13, <1>18
      <3>3. c \in Clusters \ DS
        BY <3>1, <3>2, <1>18, FileClusters
      <3> QED
        BY <3>3 DEF Tidy, Disk
    <2>2. buffer \in Seq(Dead)
      BY <1>1, <1>2, <1>3, <2>1, BufferDead
    <2>3. PICK X : X = ToSet(OldChain(e, size)) /\ v = Freed(u0, X)
      BY <1>13
    <2>4. Tidy(u0, DS) /\ chain \in Seq(Clusters)
      BY <1>9, <1>13
    <2> QED
      BY ONLY <2>2, <2>3, <2>4, <1>18, TidyFill
  <1>22. Takes(u0, old, chain)
    <2>1. chain \in Seq(S1)
      BY <1>3, <1>4, AllocatedIs
    <2>2. \A i, j \in 1 .. Len(chain) : chain[i] = chain[j] => i = j
      <3> SUFFICES ASSUME NEW i \in 1 .. Len(chain), NEW j \in 1 .. Len(chain),
                          chain[i] = chain[j]
                   PROVE  i = j
        OBVIOUS
      <3>2. chain[i] \in Clusters
        BY <1>9
      <3>3. chain[i] \in Nat
        BY <3>2, ClustersAreFinite
      <3>1. ~(i < j) /\ ~(j < i)
        BY <3>3, <1>9
      <3> QED
        BY <3>1
    <2>3. \A c \in S1 : u0.fat[1][c] = Free \/ \E j \in 1 .. Len(old) : old[j] = c
      BY <1>3, <1>9, <1>13 DEF Available, FreeClusters, get_fat_entry, Disk, ToSet
    <2>4. \A i \in 1 .. Len(chain) : chain[i] \in S1
      BY <2>1
    <2> QED
      BY <2>2, <2>3, <2>4, <1>9 DEF Takes
  <1>23. /\ v = Freed(u0, ToSet(old)) /\ u0 \in Volumes /\ r \in Refs(u0, DS)
         /\ leaked = Waste(u0, DS, path)
    BY <1>1, <1>3, <1>7, <1>13 DEF VolumeOK
  <1>24. PICK op, writes, code : op = "write" /\ Answer(op, p, writes, code)
    BY DEF write
  <1>25. Sized(u, DS)
    <2>1. Refilled(u0, DS, path, u, r)
      BY ONLY <1>8, <1>18, <1>22, <1>23, FillsSound
    <2>2. \A d \in DS \ {RootDir} : u.area[d] = u0.area[d]
      BY <2>1 DEF Refilled, Slots
    <2> QED
      BY <2>2, <1>13 DEF Sized
  <1>19. CASE Len(chain) < ClustersNeeded(size)
    <2>1. Spoilt(u0, DS, path, u, r, old, chain) /\ Running(u, P)'
      BY <1>3, <1>12, <1>13, <1>19
    <2>2. \A j \in 1 .. Len(old) : \E i \in 1 .. Len(chain) : chain[i] = old[j]
      <3> TAKE j \in 1 .. Len(old)
      <3>1. old[j] \in ToSet(old)
        BY <1>9 DEF ToSet
      <3>2. old[j] \in S1
        BY <3>1, <1>3 DEF Available
      <3> QED
        BY <3>2, <1>9, <1>19
    <2>3. \E c, V2 : /\ Good(u, DS, WithPath(path, Refs(u0, DS), r, c))
                     /\ Named(u, DS, D, at)
                     /\ Views(u, D, at, WithPath(path, Refs(u0, DS), r, c), V2)
                     /\ Spoils(V, V2, D, p, old = <<>>)
                     /\ Salvaged(u0, u, path[r], c, old, chain) /\ Refs(u, DS) = Refs(u0, DS)
      BY ONLY <1>6, <1>8, <1>9, <1>17, <1>18, <2>1, <2>2, ViewsSpoilt
    <2>4. PICK c, V2 : /\ Good(u, DS, WithPath(path, Refs(u0, DS), r, c))
                       /\ Named(u, DS, D, at)
                       /\ Views(u, D, at, WithPath(path, Refs(u0, DS), r, c), V2)
                       /\ Spoils(V, V2, D, p, old = <<>>)
                       /\ Salvaged(u0, u, path[r], c, old, chain) /\ Refs(u, DS) = Refs(u0, DS)
      BY <2>3
    <2>5. Len(buffer) = Len(data) => old = <<>>
      BY <1>3, <1>4, <1>16 DEF OldChain
    <2>6. Spoils(V, V2, DOMAIN V, p, Len(Overlaid(V[p].data, offset, buf)) = Len(V[p].data))
      <3>1. PICK d : /\ V2 = With(D, V, p, [dir |-> FALSE, data |-> d])
                     /\ Len(d) = Len(V[p].data)
                     /\ old = <<>> => V2 = V
        BY <2>4 DEF Spoils
      <3>2. Overlaid(V[p].data, offset, buf) = buffer /\ V[p].data = data /\ DOMAIN V = D
        BY <1>6, <1>14, <1>15
      <3>3. Spoils(V, V2, D, p, Len(buffer) = Len(V[p].data))
        BY <3>1, <3>2, <2>5 DEF Spoils
      <3> QED
        BY <3>2, <3>3
    <2>7. WriteAnswer(V, V2, p, offset, buf, "ENOSPC")
      BY <2>6, <1>4, <1>6 DEF WriteAnswer, IsFileOf
    <2>8. Answers(V, V2, "ENOSPC")
      BY <2>7 DEF Answers
    <2>11. leaked \subseteq Waste(u, DS, WithPath(path, Refs(u0, DS), r, c))
      <3>1. Marks(u0, u, ToSet(old), ToSet(chain))
        BY <1>9, <1>18, <1>23, MarksFilled
      <3>2. \A i \in 1 .. Len(c) : \/ \E j \in 1 .. Len(chain) : chain[j] = c[i]
                                  \/ \E j \in 1 .. Len(path[r]) : path[r][j] = c[i]
        <4>1. CASE old = <<>>
          BY <4>1, <2>4 DEF Salvaged
        <4>2. CASE old # <<>>
          <5>1. PICK k \in 1 .. Len(chain) : TailFrom(chain, k, c)
            BY <4>2, <2>4 DEF Salvaged
          <5> QED
            BY <5>1 DEF TailFrom
        <4> QED
          BY <4>1, <4>2
      <3>3. PICK path2 : path2 = WithPath(path, Refs(u0, DS), r, c)
        OBVIOUS
      <3>4. Refs(u, DS) = Refs(u0, DS) /\ Good(u0, DS, path)
        BY <2>4, <1>18
      <3>5. Waste(u0, DS, path) \subseteq Waste(u, DS, path2)
        BY ONLY <3>1, <3>2, <3>3, <3>4, <1>8, <1>22, <1>23, WasteChain
      <3> QED
        BY <3>3, <3>5, <1>23
    <2>9. Outcome(u, V, leaked, op, p, "ENOSPC")
      BY <2>4, <2>8, <2>11, <1>21, <1>24, <1>25 DEF Outcome, Wastes
    <2>10. Ends("ENOSPC")'
      BY <1>1, <1>2, <1>3, <1>19, WriteEnds
    <2>12. PICK q : Answer(op, p, q, "ENOSPC")
      BY <1>2, <1>3, <1>19, <1>24 DEF write
    <2> QED
      BY <2>1, <2>9, <2>10, <2>12, LeadingStarts
  <1>20. CASE ~(Len(chain) < ClustersNeeded(size))
    <2>1. PICK w \in Q : /\ chain # <<>>
                         /\ Updated(u0, DS, path, u, w, r, chain, size)
                         /\ Running(w, P)'
      BY <1>12, <1>13, <1>20
    <2>2. size <= MaxSize
      <3>1. offset + Len(buf) <= MaxSize
        BY DEF write
      <3> QED
        BY <3>1, <1>4, <1>16
    <2>3. size <= Len(chain) * ClusterSize
      <3>1. PICK k \in Nat, l \in Nat : k = ClustersNeeded(size) /\ l = Len(chain)
        BY <1>4, <1>9, NeededIs
      <3>2. k <= l
        BY <3>1, <1>20
      <3>3. size <= k * ClusterSize
        BY <1>4, <3>1, NeededIs
      <3>4. k * ClusterSize <= l * ClusterSize /\ k * ClusterSize \in Nat
            /\ l * ClusterSize \in Nat
        BY <3>1, <3>2, Multiples
      <3> QED
        BY <3>1, <3>3, <3>4, <1>4
    <2>4. PICK path2, V2 : /\ path2 = WithPath(path, Refs(u0, DS), r, chain)
                           /\ V2 = With(D, V, p, [dir |-> FALSE, data |-> buffer])
      OBVIOUS
    <2>5. Views(w, D, at, path2, V2)
      BY ONLY <1>4, <1>6, <1>9, <1>17, <1>18, <2>1, <2>2, <2>3, <2>4, ViewsWrite
    <2>6. Rewritten(u0, DS, path, w, r, chain)
      BY <2>1 DEF Updated
    <2>7. Good(w, DS, path2)
      BY <2>4, <2>6 DEF Rewritten
    <2>8. Named(w, DS, D, at)
      BY <2>6, <1>18, NamedRewrite
    <2>9. WriteAnswer(V, V2, p, offset, buf, "ok")
      BY <2>4, <1>4, <1>6, <1>14, <1>15 DEF WriteAnswer, IsFileOf
    <2>12. Tidy(w, DS)
      BY <2>1, <1>21 DEF Updated, Tidy
    <2>13. Wastes(leaked, Waste(w, DS, path2), V, V2, "write", p, "ok")
      <3>1. w.fat = u.fat /\ Refs(w, DS) = Refs(u0, DS)
        BY <2>1, <2>6 DEF Updated, Rewritten
      <3>2. Marks(u0, w, ToSet(old), ToSet(chain))
        BY <3>1, <1>9, <1>18, <1>23, MarksFilled
      <3>3. Good(u0, DS, path)
        BY <1>18
      <3>4. \A i \in 1 .. Len(chain) : \/ \E j \in 1 .. Len(chain) : chain[j] = chain[i]
                                      \/ \E j \in 1 .. Len(path[r]) : path[r][j] = chain[i]
        OBVIOUS
      <3>5. /\ Waste(u0, DS, path) \subseteq Waste(w, DS, path2)
            /\ old = path[r] => Waste(w, DS, path2) = Waste(u0, DS, path)
        BY ONLY <3>1, <3>2, <3>3, <3>4, <2>4, <1>8, <1>22, <1>23, WasteChain
      <3>6. CASE size # e.size
        <4>1. old = path[r]
          BY <3>6, <1>3, <1>7 DEF OldChain
        <4> QED
          BY <4>1, <3>5, <1>23 DEF Wastes
      <3>7. CASE size = e.size
        <4>1. V2[p].data = buffer
          BY <2>4, <1>6 DEF With
        <4>2. Len(V2[p].data) = Len(V[p].data)
          BY <4>1, <3>7, <1>4, <1>14, <1>16
        <4> QED
          BY <4>2, <3>5, <1>23 DEF Wastes
      <3> QED
        BY <3>6, <3>7
    <2>15. Sized(w, DS)
      <3>1. \A b \in Clusters : Len(w.area[b]) = Len(u.area[b])
        BY <2>1 DEF Updated
      <3>2. DS \subseteq Clusters \cup {RootDir}
        BY DEF Good
      <3> QED
        BY <3>1, <3>2, <1>25 DEF Sized
    <2>10. Outcome(w, V, leaked, op, p, "ok")
      <3>1. Answers(V, V2, "ok")
        BY <2>9 DEF Answers
      <3> QED
        BY <3>1, <2>5, <2>7, <2>8, <2>12, <2>13, <2>15, <1>24 DEF Outcome
    <2>11. Ends("ok")'
      BY <1>1, <1>2, <1>3, <1>20, WriteEnds
    <2>14. PICK q : Answer(op, p, q, "ok")
      BY <1>2, <1>3, <1>20, <1>24 DEF write
    <2> QED
      BY <2>1, <2>10, <2>11, <2>14, LeadingStarts
  <1> QED
    BY <1>19, <1>20

(* Every handler leads to the answer of a call.                            *)
LEMMA HandlersAnswer ==
    ASSUME ShortNames, NEW DS, NEW path, Good(Disk, DS, path), NEW D, NEW at,
           Named(Disk, DS, D, at), NEW V, Views(Disk, D, at, path, V),
           Tidy(Disk, DS), Sized(Disk, DS), leaked = Waste(Disk, DS, path), NEW p \in Paths,
           \/ create(p)
           \/ mkdir(p)
           \/ rmdir(p)
           \/ unlink(p)
           \/ \E buf \in DataChoices, offset \in OffsetChoices : write(p, buf, offset),
           NEW P, Handles(p, P)
    PROVE  Leading(P, V)'
  <1>1. VolumeOK /\ Disk \in P
    BY DEF Good, VolumeOK, Handles
  <1>2. /\ DOMAIN V = D
        /\ Exists(p) <=> p \in D
        /\ p \in D => V[p].dir = Entry(p).dir
        /\ HasParent(V, p) <=> ParentDir(p) # Lost
    BY Lookups
  <1>3. ASSUME NEW op, NEW code, Answer(op, p, <<>>, code), Answers(V, V, code),
               code # "busy"
        PROVE  Leading(P, V)'
    BY <1>1, <1>3, RefusedAnswers
  <1>4. ASSUME NEW dir \in BOOLEAN, IF dir THEN mkdir(p) ELSE create(p)
        PROVE  Leading(P, V)'
    <2>1. CASE MakeRefusal(p) = "ok"
      BY <1>4, <2>1, MakeAnswers
    <2>2. CASE MakeRefusal(p) # "ok"
      <3>1. PICK code : code = MakeRefusal(p)
        OBVIOUS
      <3>2. \E op : Answer(op, p, <<>>, code)
        BY <1>4, <2>2, <3>1 DEF create, mkdir
      <3>3. \/ ParentDir(p) = Lost /\ code = "ENOENT"
            \/ Exists(p) /\ code = "EEXIST"
            \/ ParentDir(p) # Lost /\ ~Exists(p) /\ code = "ENOSPC"
        BY <2>2, <3>1 DEF MakeRefusal
      <3>4. MakeAnswer(V, V, p, dir, code) /\ code # "busy"
        BY <3>3, <1>2 DEF MakeAnswer
      <3>5. Answers(V, V, code)
        BY <3>4 DEF Answers
      <3> QED
        BY <3>2, <3>4, <3>5, <1>3
    <2> QED
      BY <2>1, <2>2
  <1>5. CASE rmdir(p)
    <2>1. CASE RmdirRefusal(p) = "ok"
      <3>1. /\ Exists(p)
            /\ Entry(p).dir => readdir(Entry(p).start) = <<>>
            /\ Answer("rmdir", p, RemovalWrites(p), "ok")
        BY <1>5, <2>1 DEF rmdir, RmdirRefusal
      <3> QED
        BY <3>1, RemoveAnswers
    <2>2. CASE RmdirRefusal(p) # "ok"
      <3>1. PICK code : code = RmdirRefusal(p) /\ Answer("rmdir", p, <<>>, code)
        BY <1>5, <2>2 DEF rmdir
      <3>2. RmdirAnswer(V, V, p, code) /\ code # "busy"
        <4>1. CASE ~Exists(p)
          BY <4>1, <3>1, <1>2 DEF RmdirRefusal, RmdirAnswer
        <4>2. CASE Exists(p) /\ ~Entry(p).dir
          BY <4>2, <3>1, <1>2 DEF RmdirRefusal, RmdirAnswer, IsFileOf
        <4>3. CASE Exists(p) /\ Entry(p).dir
          <5>1. Entry(p) = At(Disk, at[p]) /\ p \in D
            BY <4>3, Lookups
          <5>2. PICK d : d = Entry(p).start
            OBVIOUS
          <5>3. readdir(d) # <<>> =>
                  d \in Clusters /\ \E q \in D : Len(q) > 1 /\ Front(q) = p
            BY <4>3, <5>1, <5>2, Occupied
          <5>4. d # 0
            <6>1. PICK t : t = at[p] /\ t \in Refs(Disk, DS)
              BY <5>1 DEF Named, Names1
            <6>2. OnPath(Disk, path[t], d) /\ Len(path[t]) = 1
              BY <4>3, <5>1, <5>2, <6>1 DEF Good
            <6>3. 1 \in 1 .. Len(path[t])
              BY <6>2
            <6>4. d \in Clusters
              BY <6>2, <6>3, OnPathMarked
            <6> QED
              BY <6>4, ClustersAreFinite DEF RootDir
          <5>5. code = "ENOTEMPTY" /\ readdir(d) # <<>>
            BY <4>3, <5>2, <5>4, <3>1, <2>2 DEF RmdirRefusal
          <5> QED
            BY <5>1, <5>3, <5>5, <4>3, <1>2 DEF RmdirAnswer
        <4> QED
          BY <4>1, <4>2, <4>3
      <3>3. Answers(V, V, code)
        BY <3>2 DEF Answers
      <3> QED
        BY <3>1, <3>2, <3>3, <1>3
    <2> QED
      BY <2>1, <2>2
  <1>6. CASE unlink(p)
    <2>1. CASE UnlinkRefusal(p) = "ok"
      <3>1. /\ Exists(p) /\ ~Entry(p).dir
            /\ Answer("unlink", p, RemovalWrites(p), "ok")
        BY <1>6, <2>1 DEF unlink, UnlinkRefusal
      <3> QED
        BY <3>1, RemoveAnswers
    <2>2. CASE UnlinkRefusal(p) # "ok"
      <3>1. PICK code : code = UnlinkRefusal(p) /\ Answer("unlink", p, <<>>, code)
        BY <1>6, <2>2 DEF unlink
      <3>2. UnlinkAnswer(V, V, p, code) /\ code # "busy"
        BY <2>2, <3>1, <1>2 DEF UnlinkRefusal, UnlinkAnswer
      <3>3. Answers(V, V, code)
        BY <3>2 DEF Answers
      <3> QED
        BY <3>1, <3>2, <3>3, <1>3
    <2> QED
      BY <2>1, <2>2
  <1>7. ASSUME NEW buf \in DataChoices, NEW offset \in OffsetChoices, write(p, buf, offset)
        PROVE  Leading(P, V)'
    <2>1. CASE open(p) = "ok"
      BY <1>7, <2>1, WriteAnswers
    <2>2. CASE open(p) # "ok"
      <3>1. Answer("write", p, <<>>, "ENOENT")
        BY <1>7, <2>2 DEF write
      <3>2. WriteAnswer(V, V, p, offset, buf, "ENOENT")
        BY <2>2, <1>2 DEF open, WriteAnswer, IsFileOf
      <3>3. Answers(V, V, "ENOENT")
        BY <3>2 DEF Answers
      <3> QED
        BY <3>1, <3>3, <1>3
    <2> QED
      BY <2>1, <2>2
  <1>8. create(p) \/ mkdir(p) => \E dir \in BOOLEAN : IF dir THEN mkdir(p) ELSE create(p)
    OBVIOUS
  <1> QED
    BY <1>4, <1>5, <1>6, <1>7, <1>8

-----------------------------------------------------------------------------
(* What Leaked computes on a sound volume.                                 *)

(* A path has one directory for each of its names, all of them different.  *)
LEMMA NamedDepth ==
    ASSUME NEW u, NEW DS, NEW path, Good(u, DS, path), NEW D, NEW at, Named(u, DS, D, at),
           NEW q \in D, At(u, at[q]).dir
    PROVE  /\ Len(q) \in 1 .. TotalClusters
           /\ \A k \in 1 .. Len(q) : Prefix(q, k) \in D /\ At(u, at[Prefix(q, k)]).dir
  <1>1. q \in PathNames /\ Len(q) \in Nat /\ Len(q) # 0
    BY PathIs DEF Named, PathNames
  <1>2. PICK n \in Nat : n + 1 = Len(q)
    BY <1>1
  <1> DEFINE T == {k \in 0 .. n : /\ Prefix(q, Len(q) - k) \in D
                                  /\ At(u, at[Prefix(q, Len(q) - k)]).dir}
  <1>3. 0 \in T
    BY <1>1, <1>2, PrefixIs
  <1>4. ASSUME NEW k \in 0 .. n - 1, k \in T
        PROVE  k + 1 \in T
    <2>1. PICK j \in Nat : j = Len(q) - k /\ j > 1 /\ j \in 1 .. Len(q) /\ k + 1 \in 0 .. n
                          /\ Len(q) - (k + 1) = j - 1
      BY <1>1, <1>2
    <2>2. PICK s : s = Prefix(q, j) /\ s \in D
      BY <2>1, <1>4
    <2>3. Len(s) = j /\ Front(s) = Prefix(q, j - 1) /\ s \in PathNames
      BY <2>1, <2>2, <1>1, PrefixIs
    <2>4. Leads(u, D, at, s, at[s][1])
      BY <2>2 DEF Named, Names1
    <2>5. Front(s) \in D /\ At(u, at[Front(s)]).dir
      BY <2>1, <2>3, <2>4 DEF Leads
    <2> QED
      BY <2>1, <2>3, <2>5
  <1> HIDE DEF T
  <1>5. \A k \in 0 .. n : k \in T
    BY <1>3, <1>4, UpTo
  <1>6. ASSUME NEW k \in 1 .. Len(q)
        PROVE  Prefix(q, k) \in D /\ At(u, at[Prefix(q, k)]).dir
    <2>1. Len(q) - k \in 0 .. n /\ Len(q) - (Len(q) - k) = k
      BY <1>1, <1>2
    <2>2. Len(q) - k \in T
      BY <2>1, <1>5
    <2> QED
      BY <2>1, <2>2 DEF T
  <1> DEFINE start(k) == At(u, at[Prefix(q, k)]).start
  <1>7. ASSUME NEW k \in 1 .. Len(q)
        PROVE  /\ start(k) \in Clusters
               /\ at[Prefix(q, k)] \in Refs(u, DS)
               /\ OnPath(u, path[at[Prefix(q, k)]], start(k))
    <2>1. PICK r : r = at[Prefix(q, k)] /\ r \in Refs(u, DS)
      BY <1>6 DEF Named, Names1
    <2>2. OnPath(u, path[r], At(u, r).start)
      BY <2>1 DEF Good
    <2>3. 1 \in 1 .. Len(path[r])
      BY <2>2 DEF OnPath
    <2> QED
      BY <2>1, <2>2, <2>3, OnPathMarked
  <1>8. ASSUME NEW i \in 1 .. Len(q), NEW j \in 1 .. Len(q), start(i) = start(j)
        PROVE  i = j
    <2>1. PICK r, s : r = at[Prefix(q, i)] /\ s = at[Prefix(q, j)]
      OBVIOUS
    <2>2. /\ r \in Refs(u, DS) /\ s \in Refs(u, DS)
          /\ 1 \in 1 .. Len(path[r]) /\ 1 \in 1 .. Len(path[s]) /\ path[r][1] = path[s][1]
      BY <2>1, <1>7, <1>8 DEF OnPath
    <2>3. r = s
      BY <2>2 DEF Good, Apart
    <2>4. Prefix(q, i) = Prefix(q, j)
      BY <2>1, <2>3, <1>6 DEF Named
    <2>5. Len(Prefix(q, i)) = i /\ Len(Prefix(q, j)) = j
      BY <1>1, PrefixIs
    <2> QED
      BY <2>4, <2>5
  <1>9. PICK c : c = [k \in 1 .. Len(q) |-> start(k)]
    OBVIOUS
  <1>10. /\ \A k \in 1 .. Len(q) : start(k) \in Clusters
         /\ \A i, j \in 1 .. Len(q) : start(i) = start(j) => i = j
    BY <1>7, <1>8
  <1> HIDE DEF start
  <1>11. /\ c \in Seq(Clusters) /\ Len(c) = Len(q)
         /\ \A i, j \in 1 .. Len(c) : c[i] = c[j] => i = j
    BY <1>1, <1>9, <1>10
  <1>12. Len(c) <= TotalClusters
    BY <1>11, PathIsShort
  <1> QED
    BY <1>1, <1>6, <1>11, <1>12, Geometry

(* So the recursion of LiveDirs reaches every directory.                   *)
LEMMA LiveDirsAll ==
    ASSUME NEW DS, NEW path, Good(Disk, DS, path), NEW D, NEW at, Named(Disk, DS, D, at)
    PROVE  LiveDirs = DS
  <1>1. ASSUME NEW d \in DS
        PROVE  SubdirsOf(d) \subseteq DS
    <2> SUFFICES ASSUME NEW e \in ToSet(read_directory(d)),
                        IsEntry(e), e.dir, e.name \notin {Dot, DotDot}
                 PROVE  e.start \in DS
      BY DEF SubdirsOf
    <2>1. PICK i \in DOMAIN Slots(Disk, d) : Slots(Disk, d)[i] = e
      BY DirectoryIs DEF ToSet
    <2>2. i \in Nat
      BY <2>1, SlotsType DEF Good
    <2> DEFINE r == <<d, i>>
    <2>3. r[1] = d /\ r[2] = i /\ r \in DS \X Nat
      BY <2>2
    <2> HIDE DEF r
    <2>4. At(Disk, r) = e /\ r \in Refs(Disk, DS)
      BY <2>1, <2>3 DEF At, Refs, IsLive
    <2> QED
      BY <2>4 DEF Good
  <1>2. PICK f : Descends(f, DS)
    BY <1>1, LiveDirsDescend DEF Good
  <1>3. /\ f[0] = {RootDir} /\ LiveDirs = f[TotalClusters] /\ TotalClusters \in Nat
        /\ \A k \in 1 .. TotalClusters : f[k] = Below(f[k - 1])
    BY <1>2, Geometry DEF Descends
  <1>4. LiveDirs \subseteq DS
    BY LiveDirsIn
  <1> DEFINE T == {k \in 0 .. TotalClusters :
                     \A q \in D : Len(q) <= k /\ At(Disk, at[q]).dir =>
                                   At(Disk, at[q]).start \in f[k]}
             R == {k \in 0 .. TotalClusters : RootDir \in f[k]}
  <1>5. \A k \in 0 .. TotalClusters : k \in R
    <2>1. 0 \in R
      BY <1>3
    <2>2. ASSUME NEW k \in 0 .. TotalClusters - 1, k \in R PROVE k + 1 \in R
      <3>1. k + 1 \in 1 .. TotalClusters /\ (k + 1) - 1 = k
        BY <1>3
      <3>2. f[k + 1] = Below(f[k])
        BY <3>1, <1>3
      <3> QED
        BY <3>1, <3>2, <2>2 DEF Below
    <2> HIDE DEF R
    <2> QED
      BY <2>1, <2>2, <1>3, UpTo
  <1>6. 0 \in T
    <2>1. \A q \in D : ~(Len(q) <= 0)
      BY PathIs DEF Named
    <2> QED
      BY <2>1, <1>3
  <1>7. ASSUME NEW k \in 0 .. TotalClusters - 1, k \in T
        PROVE  k + 1 \in T
    <2>1. k + 1 \in 1 .. TotalClusters /\ (k + 1) - 1 = k /\ k \in 0 .. TotalClusters
      BY <1>3
    <2>2. f[k + 1] = Below(f[k])
      BY <2>1, <1>3
    <2>3. ASSUME NEW q \in D, Len(q) <= k + 1, At(Disk, at[q]).dir
          PROVE  At(Disk, at[q]).start \in f[k + 1]
      <3>1. PICK r, d : r = at[q] /\ d = r[1] /\ r \in Refs(Disk, DS)
                        /\ Leads(Disk, D, at, q, d)
        BY DEF Named, Names1
      <3>2. d \in f[k] /\ d \in DS
        <4>1. d \in DS
          BY <3>1 DEF Refs
        <4>2. CASE Len(q) = 1
          BY <4>1, <4>2, <3>1, <2>1, <1>5 DEF Leads
        <4>3. CASE Len(q) # 1
          <5>1. /\ Front(q) \in D /\ At(Disk, at[Front(q)]).dir
                /\ d = At(Disk, at[Front(q)]).start
            BY <4>3, <3>1 DEF Leads
          <5>2. Len(q) \in Nat /\ Len(Front(q)) = Len(q) - 1
            BY PathIs DEF Named
          <5>3. Len(Front(q)) <= k
            BY <5>2, <2>1, <2>3
          <5> QED
            BY <5>1, <5>3, <4>1, <1>7
        <4> QED
          BY <4>2, <4>3
      <3>3. At(Disk, r).start \in SubdirsOf(d)
        <4>1. /\ r[2] \in DOMAIN Slots(Disk, d) /\ IsLive(At(Disk, r))
              /\ At(Disk, r) = Slots(Disk, d)[r[2]]
          BY <3>1 DEF Refs, At
        <4>2. read_directory(d) = Slots(Disk, d)
          BY <3>2, DirectoryIs
        <4>3. At(Disk, r) \in ToSet(read_directory(d))
          BY <4>1, <4>2 DEF ToSet
        <4> QED
          BY <4>1, <4>3, <2>3, <3>1 DEF SubdirsOf, IsLive
      <3> QED
        BY <3>1, <3>2, <3>3, <2>2 DEF Below
    <2> QED
      BY <2>1, <2>3
  <1> HIDE DEF T, R
  <1>8. TotalClusters \in T /\ TotalClusters \in R
    <2>1. \A k \in 0 .. TotalClusters : k \in T
      BY <1>3, <1>6, <1>7, UpTo
    <2> QED
      BY <2>1, <1>3, <1>5
  <1>9. ASSUME NEW d \in DS
        PROVE  d \in LiveDirs
    <2>1. CASE d = RootDir
      BY <2>1, <1>3, <1>8 DEF R
    <2>2. CASE d # RootDir
      <3>1. PICK r \in Refs(Disk, DS) : At(Disk, r).dir /\ At(Disk, r).start = d
        BY <2>2 DEF Good
      <3>2. PICK q \in D : at[q] = r
        BY DEF Named
      <3>3. Len(q) <= TotalClusters
        BY <3>1, <3>2, <1>3, NamedDepth
      <3> QED
        BY <3>1, <3>2, <3>3, <1>3, <1>8 DEF T
    <2> QED
      BY <2>1, <2>2
  <1> QED
    BY <1>4, <1>9

LEMMA LeakedIs ==
    ASSUME NEW DS, NEW path, Good(Disk, DS, path), NEW D, NEW at, Named(Disk, DS, D, at),
           Sized(Disk, DS)
    PROVE  Leaked = Waste(Disk, DS, path)
  <1>1. \A ref \in LiveEntries :
           /\ ref \in Refs(Disk, DS)
           /\ ClustersOf(ref) = {path[ref][i] : i \in 1 .. Len(path[ref])}
    BY LiveEntriesIn
  <1>2. ASSUME NEW r \in Refs(Disk, DS)
        PROVE  r \in LiveEntries
    <2>1. /\ r \in DS \X Nat /\ r[1] \in DS /\ r = <<r[1], r[2]>>
          /\ r[2] \in DOMAIN Slots(Disk, r[1]) /\ IsLive(At(Disk, r))
      BY DEF Refs
    <2>2. PICK d, i : d = r[1] /\ i = r[2]
      OBVIOUS
    <2>3. read_directory(d) = Slots(Disk, d) /\ At(Disk, r) = Slots(Disk, d)[i]
      BY <2>1, <2>2, DirectoryIs DEF At
    <2>4. i \in 1 .. RootDirEntries + DirEntriesPerCluster
      <3>1. RootDirEntries \in Nat /\ DirEntriesPerCluster \in Nat
        BY Geometry
      <3>2. Disk \in Volumes
        BY DEF Good
      <3>3. CASE d = RootDir
        <4>1. DOMAIN Slots(Disk, d) = 1 .. RootDirEntries
          BY <3>2, <3>3 DEF Slots, Volumes, Disks
        <4> QED
          BY <4>1, <3>1, <2>1, <2>2
      <3>4. CASE d # RootDir
        <4>1. d \in Clusters
          BY <2>1, <2>2, <3>4 DEF Good
        <4>2. area[d] \in Seq(Contents) /\ Slots(Disk, d) = area[d]
          BY <3>2, <3>4, <4>1 DEF Slots, Volumes, Disks, Disk
        <4>3. Len(area[d]) = DirEntriesPerCluster
          BY <2>1, <2>2, <3>4 DEF Sized, Disk
        <4>4. i \in 1 .. DirEntriesPerCluster
          BY <4>2, <4>3, <2>1, <2>2
        <4> QED
          BY <4>4, <3>1
      <3> QED
        BY <3>3, <3>4
    <2>5. d \in LiveDirs /\ r = <<d, i>>
      BY <2>1, <2>2, LiveDirsAll
    <2> QED
      BY <2>1, <2>2, <2>3, <2>4, <2>5 DEF LiveEntries, IsLive
  <1>3. Owned = {c \in Clusters : \E r \in Refs(Disk, DS) : \E i \in 1 .. Len(path[r]) : path[r][i] = c}
    <2>1. \A r \in Refs(Disk, DS) : \A i \in 1 .. Len(path[r]) : path[r][i] \in Clusters
      BY OnPathMarked DEF Good
    <2>2. \A c : c \in Owned <=> \E ref \in LiveEntries : c \in ClustersOf(ref)
      BY DEF Owned
    <2> QED
      BY <2>1, <2>2, <1>1, <1>2
  <1> QED
    BY <1>3 DEF Leaked, Waste, FreeClusters, get_fat_entry, Disk

-----------------------------------------------------------------------------
(* The handlers implement the file store.                                  *)

LEMMA OwnInBounds ==
    ASSUME VolumeOK, NEW p \in Paths, Exists(p) \/ MakeRefusal(p) = "ok"
    PROVE  /\ OwnClusters(p) \subseteq Clusters /\ OwnUpdates(p) \subseteq SlotUpdates
           /\ ParentDir(p) \in Nat /\ OwnSlot(p) \in 1 .. Len(read_directory(ParentDir(p)))
  <1>1. OwnClusters(p) \subseteq Clusters
    BY ChainType DEF OwnClusters, FreeClusters
  <1>2. ParentDir(p) \in Nat /\ OwnSlot(p) \in 1 .. Len(read_directory(ParentDir(p)))
    <2>1. CASE Exists(p)
      BY <2>1, EntryType DEF OwnSlot
    <2>2. CASE ~Exists(p)
      <3>1. PICK dir \in BOOLEAN : TRUE
        OBVIOUS
      <3> QED
        BY <2>2, <3>1, MakeChecked DEF OwnSlot
    <2> QED
      BY <2>1, <2>2
  <1>3. OwnSlot(p) \in Nat
    BY <1>2
  <1>4. OwnUpdates(p) \subseteq SlotUpdates
    BY <1>2, <1>3 DEF OwnUpdates, SlotUpdates, SlotUpdate
  <1> QED
    BY <1>1, <1>2, <1>4

LEMMA VolumesHandle ==
    ASSUME VolumeOK, NEW p \in Paths, NEW P, P = Volumes
    PROVE  Handles(p, P)
  <1>1. PICK C, S : C = Clusters /\ S = SlotUpdates /\ Tame(P, P, C, S)
    BY VolumesTame
  <1> QED
    BY <1>1, OwnInBounds DEF Handles, VolumeOK

(* The inductive invariant: until the program is killed, between calls     *)
(* programs see view, and a running handler leads to its answer.           *)
Settled(V) ==
    \E DS, path, D, at :
       /\ Good(Disk, DS, path) /\ Named(Disk, DS, D, at)
       /\ Views(Disk, D, at, path, V) /\ Tidy(Disk, DS)
       /\ Sized(Disk, DS) /\ leaked = Waste(Disk, DS, path)

StoreInv ==
    /\ crashes \in Nat
    /\ crashes = 0 => IF Idle THEN reply # "busy" /\ Settled(view)
                              ELSE reply = "busy" /\ Leading(Volumes, view)

LEMMA FormattedTidy ==
    ASSUME FormattedVolume, NEW DS
    PROVE  Tidy(Disk, DS)
  <1>1. \A b \in Clusters : area[b] = [k \in 1 .. ClusterSize |-> Zero]
    BY DEF FormattedVolume
  <1>2. [k \in 1 .. ClusterSize |-> Zero] \in Seq(Dead)
    BY DeadAre, Geometry
  <1> QED
    BY <1>1, <1>2 DEF Tidy, Disk

LEMMA StoreInit ==
    ASSUME Init
    PROVE  StoreInv /\ Store!Init
  <1>1. PICK DS, path, D, at : DS = {RootDir} /\ D = {} /\ path = 0 /\ at = 0
    OBVIOUS
  <1>2. Good(Disk, DS, path) /\ Refs(Disk, DS) = {}
    BY <1>1, FormattedGood DEF Init
  <1>3. Named(Disk, DS, D, at)
    BY <1>1, <1>2 DEF Named
  <1>4. view = [p \in D |-> view[p]]
    BY <1>1 DEF Init
  <1>5. Views(Disk, D, at, path, view)
    BY <1>1, <1>4 DEF Views
  <1>8. Tidy(Disk, DS)
    BY FormattedTidy DEF Init
  <1>9. Sized(Disk, DS) /\ leaked = Waste(Disk, DS, path)
    <2>1. Sized(Disk, DS)
      BY <1>1 DEF Sized
    <2>2. \A c \in Clusters : fat[1][c] = Free
      BY FirstCopy DEF Init, FormattedVolume
    <2> QED
      BY <2>1, <2>2 DEF Init, Waste, Disk
  <1>6. Settled(view)
    BY <1>2, <1>3, <1>5, <1>8, <1>9 DEF Settled
  <1>7. Store!Init
    BY DEF Init, Store!Init
  <1> QED
    BY <1>6, <1>7 DEF StoreInv, Init, Idle

(* The reply of a handler is the answer that was promised.                 *)
LEMMA LeadingReturn ==
    ASSUME NEW P, NEW V, Leading(P, V), Return
    PROVE  /\ reply' # "busy"
           /\ crashes = 0 => /\ Settled(view)' /\ Answers(V, view', reply')
                             /\ Wastes(leaked, leaked', V, view', call.op, call.path, reply')
  <1>1. PICK w, code :
          /\ Running(w, P) /\ Outcome(w, V, leaked, call.op, call.path, code)
          /\ Ends(code) /\ code # "busy"
    BY DEF Leading
  <1>2. reply' = code
    BY <1>1, EndsReturn
  <1>3. Disk = w /\ Disk' = w
    BY <1>1, RunningReturn
  <1>4. PICK DS, path, D, at, V2 :
          /\ Good(w, DS, path) /\ Named(w, DS, D, at) /\ Views(w, D, at, path, V2)
          /\ Tidy(w, DS) /\ Sized(w, DS) /\ Answers(V, V2, code)
          /\ Wastes(leaked, Waste(w, DS, path), V, V2, call.op, call.path, code)
    BY <1>1 DEF Outcome
  <1>5. ASSUME crashes = 0 PROVE view' = V2
    <2>1. Stored = V2
      BY <1>3, <1>4, StoredIs
    <2> QED
      BY <2>1, <1>5 DEF Return
  <1>7. ASSUME crashes = 0 PROVE leaked' = Waste(w, DS, path)
    <2>1. Leaked = Waste(w, DS, path)
      BY <1>3, <1>4, LeakedIs
    <2> QED
      BY <2>1, <1>7 DEF Return
  <1>6. ASSUME crashes = 0 PROVE Settled(view)'
    <2>1. \E DS2, path2, D2, at2 :
             /\ Good(Disk', DS2, path2) /\ Named(Disk', DS2, D2, at2)
             /\ Views(Disk', D2, at2, path2, view') /\ Tidy(Disk', DS2)
             /\ Sized(Disk', DS2) /\ leaked' = Waste(Disk', DS2, path2)
      BY <1>3, <1>4, <1>5, <1>6, <1>7
    <2> QED
      BY <2>1 DEF Settled
  <1> QED
    BY <1>1, <1>2, <1>4, <1>5, <1>6, <1>7

LEMMA LeadingFlush ==
    ASSUME NEW P, NEW V, Leading(P, V), Flush
    PROVE  Leading(P, V)'
  <1>1. PICK w, code :
          /\ Running(w, P) /\ Outcome(w, V, leaked, call.op, call.path, code)
          /\ Ends(code) /\ code # "busy"
    BY DEF Leading
  <1>2. Running(w, P)' /\ Ends(code)'
    BY <1>1, RunningFlush, EndsFlush
  <1>3. leaked' = leaked /\ call' = call
    BY DEF Flush
  <1>4. PICK L, o, q : L = leaked' /\ o = call'.op /\ q = call'.path
    OBVIOUS
  <1>5. Outcome(w, V, L, o, q, code)
    BY <1>1, <1>3, <1>4
  <1> QED
    BY <1>1, <1>2, <1>4, <1>5 DEF Leading

LEMMA LeadingStays ==
    ASSUME NEW P, NEW V, Leading(P, V), UNCHANGED vars
    PROVE  Leading(P, V)'
  <1>1. PICK w, code :
          /\ Running(w, P) /\ Outcome(w, V, leaked, call.op, call.path, code)
          /\ Ends(code) /\ code # "busy"
    BY DEF Leading
  <1>2. /\ Disk' = Disk /\ pending' = pending /\ reply' = reply
        /\ leaked' = leaked /\ call' = call
    BY DEF vars, volume, Disk
  <1>3. Running(w, P)'
    BY <1>1, <1>2 DEF Running, Owes
  <1>4. Ends(code)'
    BY <1>1, <1>2 DEF Ends
  <1>5. PICK L, o, q : L = leaked' /\ o = call'.op /\ q = call'.path
    OBVIOUS
  <1>6. Outcome(w, V, L, o, q, code)
    BY <1>1, <1>2, <1>5
  <1> QED
    BY <1>1, <1>3, <1>4, <1>5, <1>6 DEF Leading

LEMMA StoreNext ==
    ASSUME ShortNames, StoreInv, [Next]_vars
    PROVE  /\ StoreInv'
           /\ Store!Next \/ (view' = view /\ (IF crashes' = 0 THEN reply' ELSE "busy")
                                              = (IF crashes = 0 THEN reply ELSE "busy"))
  <1>1. crashes \in Nat
    BY DEF StoreInv
  <1>2. CASE crashes # 0
    <2>1. crashes' \in Nat /\ crashes' # 0 /\ view' = view
      <3>1. ASSUME NEW p, create(p) \/ mkdir(p) \/ rmdir(p) \/ unlink(p)
                          \/ \E buf, offset : write(p, buf, offset)
            PROVE  crashes' = crashes /\ view' = view
        BY <3>1 DEF create, mkdir, rmdir, unlink, write, Answer
      <3>2. Flush \/ Return \/ UNCHANGED vars => crashes' = crashes /\ view' = view
        BY <1>2 DEF Flush, Return, vars
      <3>3. Crash => crashes' = crashes + 1 /\ view' = view
        BY DEF Crash
      <3>4. /\ view' = view
            /\ crashes' = crashes \/ crashes' = crashes + 1
        BY <3>1, <3>2, <3>3, NextSteps
      <3> QED
        BY <3>4, <1>1, <1>2
    <2> QED
      BY <2>1, <1>2 DEF StoreInv
  <1>3. CASE crashes = 0
    <2>1. CASE UNCHANGED vars
      <3>1. /\ Disk' = Disk /\ pending' = pending /\ crashes' = crashes
            /\ view' = view /\ reply' = reply /\ leaked' = leaked /\ call' = call
        BY <2>1 DEF vars, volume, Disk
      <3>2. Idle' = Idle
        BY <3>1 DEF Idle
      <3>3. Settled(view)' = Settled(view)
        BY <3>1 DEF Settled
      <3>4. Leading(Volumes, view) => Leading(Volumes, view)'
        <4>1. PICK P, V : P = Volumes /\ V = view /\ V = view'
          BY <3>1
        <4>2. Leading(P, V) => Leading(P, V)'
          BY <2>1, LeadingStays
        <4> QED
          BY <4>1, <4>2
      <3> QED
        BY <3>1, <3>2, <3>3, <3>4, <1>3 DEF StoreInv
    <2>2. ASSUME NEW p \in Paths,
                 \/ create(p)
                 \/ mkdir(p)
                 \/ rmdir(p)
                 \/ unlink(p)
                 \/ \E buf \in DataChoices, offset \in OffsetChoices :
                      write(p, buf, offset)
          PROVE  StoreInv' /\ Store!Next
      <3>1. Idle /\ crashes' = crashes /\ reply' = "busy" /\ view' = view
        BY <2>2 DEF create, mkdir, rmdir, unlink, write, Answer
      <3>2. PICK V : V = view /\ Settled(V) /\ reply # "busy"
        BY <3>1, <1>3 DEF StoreInv
      <3>3. PICK DS, path, D, at :
              /\ Good(Disk, DS, path) /\ Named(Disk, DS, D, at)
              /\ Views(Disk, D, at, path, V) /\ Tidy(Disk, DS)
              /\ Sized(Disk, DS) /\ leaked = Waste(Disk, DS, path)
        BY <3>2 DEF Settled
      <3>4. PICK P : P = Volumes
        OBVIOUS
      <3>5. Handles(p, P)
        BY <3>3, <3>4, VolumesHandle DEF Good, VolumeOK
      <3>6. Leading(P, V)'
        BY <2>2, <3>3, <3>5, HandlersAnswer
      <3>7. Leading(Volumes, view)'
        BY <3>1, <3>2, <3>4, <3>6 DEF Leading
      <3>8. ~Idle'
        BY <3>7 DEF Leading, Ends, Idle
      <3>9. Store!Next
        BY <3>1, <3>2, <1>3 DEF Store!Next, Store!Call
      <3> QED
        BY <3>1, <3>7, <3>8, <3>9, <1>1 DEF StoreInv
    <2>3. CASE Flush
      <3>1. ~Idle /\ crashes' = crashes /\ reply' = reply /\ view' = view
        BY <2>3 DEF Flush
      <3>2. PICK V, P : V = view /\ P = Volumes /\ Leading(P, V)
        BY <3>1, <1>3 DEF StoreInv
      <3>3. Leading(P, V)'
        BY <3>2, <2>3, LeadingFlush
      <3>6. Leading(Volumes, view)' /\ ~Idle'
        BY <3>1, <3>2, <3>3 DEF Leading, Ends, Idle
      <3> QED
        BY <3>1, <3>6, <1>1, <1>3 DEF StoreInv
    <2>4. CASE Return
      <3>1. ~Idle /\ crashes' = crashes /\ Idle'
        BY <2>4 DEF Return, Idle
      <3>2. PICK V, P : V = view /\ P = Volumes /\ Leading(P, V) /\ reply = "busy"
        BY <3>1, <1>3 DEF StoreInv
      <3>3. reply' # "busy" /\ Settled(view)' /\ Answers(V, view', reply')
        BY <3>2, <2>4, <1>3, LeadingReturn
      <3>4. Answers(view, view', reply')
        BY <3>2, <3>3
      <3>5. Store!Next
        BY <3>1, <3>2, <3>4, <1>3, AnswersStep
      <3> QED
        BY <3>1, <3>3, <3>5, <1>1, <1>3 DEF StoreInv
    <2>5. CASE Crash
      <3>1. crashes' = 1 /\ view' = view /\ reply = "busy"
        BY <1>3, <2>5 DEF Crash, StoreInv
      <3> QED
        BY <3>1, <1>3 DEF StoreInv
    <2> QED
      BY <2>1, <2>2, <2>3, <2>4, <2>5, <1>3, NextSteps
  <1> QED
    BY <1>2, <1>3

(* Where the paths have names that fit an 8.3 entry, the handlers          *)
(* implement the file store, up to the first kill: every reply is the one  *)
(* the store allows, and between calls every path reads back what the      *)
(* calls that succeeded wrote, whatever chains, slots and clusters were    *)
(* reused.                                                                 *)
THEOREM Implements ==
    ASSUME ShortNames
    PROVE  Spec => ImplementsFileStore
  <1>1. Init => StoreInv /\ Store!Init
    BY StoreInit
  <1>2. StoreInv /\ [Next]_vars => StoreInv'
    BY StoreNext
  <1>3. StoreInv /\ [Next]_vars => [Store!Next]_<<view, IF crashes = 0 THEN reply ELSE "busy">>
    BY StoreNext
  <1> QED
    BY <1>1, <1>2, <1>3, PTL DEF Spec, ImplementsFileStore, Store!Spec

-----------------------------------------------------------------------------
(* What a handler leaves alone.                                            *)

(* Disk u is w but for the clusters of C and the slot r, whose entry, if   *)
(* it is one, has name n.                                                  *)
Framed(w, C, r, n, u) ==
    /\ u \in Volumes
    /\ \A c \in Clusters \ C : /\ u.fat[1][c] = w.fat[1][c]
                               /\ c # r[1] => u.area[c] = w.area[c]
    /\ r[1] # RootDir => u.root = w.root
    /\ DOMAIN Slots(u, r[1]) = DOMAIN Slots(w, r[1])
    /\ \A i \in DOMAIN Slots(w, r[1]) : i # r[2] => Slots(u, r[1])[i] = Slots(w, r[1])[i]
    /\ IsLive(At(u, r)) => At(u, r).name = n

FramedUpdates(r, n) ==
    {SlotUpdate(r[1], r[2], x) : x \in {y \in Contents : ~IsLive(y) \/ y.name = n}}

LEMMA FrameTame ==
    ASSUME NEW w \in Volumes, NEW C, C \subseteq Clusters, NEW r, NEW n,
           r[1] \in (Clusters \cup {RootDir}) \ C, r[2] \in DOMAIN Slots(w, r[1]),
           r[2] \in Nat,
           NEW P, P = {u \in Volumes : Framed(w, C, r, n, u)},
           NEW S, S = FramedUpdates(r, n)
    PROVE  Tame(P, P, C, S)
  <1>0. r[1] \in Nat /\ r[1] \in Clusters \cup {RootDir}
    BY ClustersAreFinite DEF Clusters, RootDir
  <1>1. S \subseteq SlotUpdates
    BY <1>0 DEF FramedUpdates, SlotUpdates, SlotUpdate
  <1>2. ASSUME NEW u \in P, NEW v \in Volumes,
               \A c \in Clusters \ C : v.fat[1][c] = u.fat[1][c] /\ v.area[c] = u.area[c],
               v.root = u.root
        PROVE  v \in P
    <2>1. Framed(w, C, r, n, u)
      OBVIOUS
    <2>2. Slots(v, r[1]) = Slots(u, r[1])
      BY <1>2, <1>0 DEF Slots
    <2>3. At(v, r) = At(u, r)
      BY <2>2 DEF At
    <2>4. Framed(w, C, r, n, v)
      BY <2>1, <2>2, <2>3, <1>2 DEF Framed
    <2> QED
      BY <2>4
  <1>3. ASSUME NEW u \in P, NEW c \in C, NEW x \in Nat
        PROVE  SetFat(u, c, x) \in P
    <2>1. u \in Volumes /\ c \in Clusters /\ SetFat(u, c, x) \in Volumes
      BY VolumesTame DEF Tame
    <2>2. PICK v : v = SetFat(u, c, x)
      OBVIOUS
    <2>3. /\ v.root = u.root /\ v.area = u.area
          /\ \A f \in Copies, b \in Clusters \ {c} : v.fat[f][b] = u.fat[f][b]
      BY <2>1, <2>2, SetFatIs
    <2>4. \A b \in Clusters \ C : v.fat[1][b] = u.fat[1][b] /\ v.area[b] = u.area[b]
      BY <2>3, FirstCopy
    <2> QED
      BY <2>1, <2>2, <2>3, <2>4, <1>2
  <1>4. ASSUME NEW u \in P, NEW c \in C, NEW x \in Nat, NEW m \in 0 .. NumberOfFats
        PROVE  PartFat(u, c, x, m) \in P
    <2>1. u \in Volumes /\ c \in Clusters /\ PartFat(u, c, x, m) \in Volumes
      BY VolumesTame DEF Tame
    <2>2. PICK v : v = PartFat(u, c, x, m)
      OBVIOUS
    <2>3. u.fat \in [Copies -> [Clusters -> Nat]]
      BY <2>1 DEF Volumes, Disks
    <2>4. /\ v.root = u.root /\ v.area = u.area
          /\ \A f \in Copies, b \in Clusters \ {c} : v.fat[f][b] = u.fat[f][b]
      BY <2>2, <2>3 DEF PartFat
    <2>5. \A b \in Clusters \ C : v.fat[1][b] = u.fat[1][b] /\ v.area[b] = u.area[b]
      BY <2>4, FirstCopy
    <2> QED
      BY <2>1, <2>2, <2>4, <2>5, <1>2
  <1>5. ASSUME NEW u \in P, NEW c \in C, NEW cells \in Seq(Contents)
        PROVE  After(u, AreaUpdate(c, cells)) \in P
    <2>1. u \in Volumes /\ c \in Clusters /\ After(u, AreaUpdate(c, cells)) \in Volumes
      BY VolumesTame DEF Tame
    <2>2. PICK v : v = After(u, AreaUpdate(c, cells))
      OBVIOUS
    <2>3. v.fat = u.fat /\ v.root = u.root /\ \A b \in Clusters \ {c} : v.area[b] = u.area[b]
      BY <2>1, <2>2, AreaUpdateIs
    <2> QED
      BY <2>1, <2>2, <2>3, <1>2
  <1>6. ASSUME NEW u \in P, NEW s \in S
        PROVE  After(u, s) \in P
    <2>1. u \in Volumes /\ Framed(w, C, r, n, u)
      OBVIOUS
    <2>2. PICK x : s = SlotUpdate(r[1], r[2], x) /\ (IsLive(x) => x.name = n)
      BY DEF FramedUpdates
    <2>3. After(u, s) \in Volumes
      BY <2>1, <1>1, VolumesTame DEF Tame
    <2>4. PICK v, d, i : v = After(u, s) /\ d = r[1] /\ i = r[2]
      OBVIOUS
    <2>5. /\ v.fat = u.fat /\ Slots(v, d) = [Slots(u, d) EXCEPT ![i] = x]
          /\ \A b \in Clusters \ {d} : v.area[b] = u.area[b]
          /\ d # RootDir => v.root = u.root
      BY <2>1, <2>2, <2>4, <1>0, SlotUpdateIs
    <2>6. /\ DOMAIN Slots(u, d) = DOMAIN Slots(w, d) /\ i \in DOMAIN Slots(u, d)
          /\ \A k \in DOMAIN Slots(w, d) : k # i => Slots(u, d)[k] = Slots(w, d)[k]
      BY <2>1, <2>4 DEF Framed
    <2>7. /\ DOMAIN Slots(v, d) = DOMAIN Slots(w, d) /\ Slots(v, d)[i] = x
          /\ \A k \in DOMAIN Slots(w, d) : k # i => Slots(v, d)[k] = Slots(w, d)[k]
      BY <2>5, <2>6
    <2>8. At(v, r) = x
      BY <2>4, <2>7 DEF At
    <2>9. Framed(w, C, r, n, v)
      BY <2>1, <2>2, <2>3, <2>4, <2>5, <2>7, <2>8 DEF Framed
    <2> QED
      BY <2>3, <2>4, <2>9
  <1>7. P \subseteq Volumes
    OBVIOUS
  <1> QED
    BY ONLY <1>1, <1>3, <1>4, <1>5, <1>6, <1>7, C \subseteq Clusters DEF Tame

(* A directory that is none of the clusters keeps its other slots.         *)
LEMMA FrameSlots ==
    ASSUME NEW w, NEW C, NEW r, NEW n, NEW u, Framed(w, C, r, n, u),
           NEW d \in (Clusters \cup {RootDir}) \ C
    PROVE  /\ DOMAIN Slots(u, d) = DOMAIN Slots(w, d)
           /\ \A i \in DOMAIN Slots(w, d) :
                 d # r[1] \/ i # r[2] => Slots(u, d)[i] = Slots(w, d)[i]
  <1>1. CASE d = r[1]
    BY <1>1 DEF Framed
  <1>2. CASE d # r[1] /\ d # RootDir
    BY <1>2 DEF Framed, Slots
  <1>3. CASE d # r[1] /\ d = RootDir
    BY <1>3 DEF Framed, Slots
  <1> QED
    BY <1>1, <1>2, <1>3

(* The paths that lead past p.                                             *)
LEMMA VisibleFront ==
    ASSUME NEW q \in PathNames, Len(q) > 1, NEW X
    PROVE  Visible(X, q) <=> Visible(X, Front(q)) /\ Front(q) \notin X
  <1>1. PICK n \in Nat : n = Len(q) /\ n > 1
    BY NamesAre
  <1>2. PICK m \in Nat : m = n - 1 /\ m > 0 /\ m \in 1 .. n - 1
    <2>1. n - 1 \in Nat /\ n - 1 > 0 /\ n - 1 \in 1 .. n - 1
      BY <1>1
    <2> QED
      BY <2>1
  <1>3. Len(Front(q)) = m /\ Front(q) = Prefix(q, m)
    <2>1. n \in 1 .. n /\ Len(Front(q)) = n - 1
      BY <1>1, NamesAre
    <2> QED
      BY <2>1, <1>1, <1>2, PrefixIs
  <1>4. ASSUME NEW k \in 1 .. m
        PROVE  Prefix(Front(q), k) = Prefix(q, k)
    <2>1. Prefix(Prefix(q, m), k) = [j \in 1 .. k |-> q[j]]
      BY <1>2 DEF Prefix
    <2> QED
      BY <2>1, <1>3 DEF Prefix
  <1>5. \A k : k \in 1 .. n - 1 <=> k = m \/ k \in 1 .. m - 1
    BY <1>1, <1>2
  <1>6. \A k \in 1 .. m - 1 : k \in 1 .. m
    BY <1>2
  <1> QED
    BY <1>1, <1>2, <1>3, <1>4, <1>5, <1>6 DEF Visible

(* The handler of p works on volume w: slot r of the parent is p's or is   *)
(* free, and so is every cluster of C.                                     *)
Works(w, DS, path, D, at, p, C, r) ==
    /\ Good(w, DS, path) /\ Named(w, DS, D, at)
    /\ p \in Paths /\ Leads(w, D, at, p, r[1])
    /\ r = <<r[1], r[2]>> /\ r[2] \in DOMAIN Slots(w, r[1])
    /\ IF p \in D THEN at[p] = r ELSE ~IsLive(At(w, r))
    /\ C \subseteq Clusters
    /\ \A c \in C : \/ w.fat[1][c] = Free
                    \/ p \in D /\ \E i \in 1 .. Len(path[r]) : path[r][i] = c

LEMMA OthersPath ==
    ASSUME NEW w, NEW DS, NEW path, NEW D, NEW at, NEW p, NEW C, NEW r,
           Works(w, DS, path, D, at, p, C, r), NEW q \in D, q # p,
           NEW i \in 1 .. Len(path[at[q]])
    PROVE  path[at[q]][i] \notin C /\ path[at[q]][i] \in Clusters
  <1>1. Good(w, DS, path) /\ Named(w, DS, D, at)
    BY DEF Works
  <1>2. PICK s : s = at[q] /\ s \in Refs(w, DS)
    BY <1>1 DEF Named, Names1
  <1>3. OnPath(w, path[s], At(w, s).start)
    BY <1>1, <1>2 DEF Good
  <1>4. i \in 1 .. Len(path[s])
    BY <1>2
  <1>5. w.fat[1][path[s][i]] # Free /\ path[s][i] \in Clusters
    BY <1>3, <1>4, OnPathMarked
  <1>6. ASSUME p \in D, NEW j \in 1 .. Len(path[r]), path[r][j] = path[s][i]
        PROVE  FALSE
    <2>1. r = at[p] /\ r \in Refs(w, DS)
      BY <1>1, <1>6 DEF Works, Named, Names1
    <2>2. Apart(path, Refs(w, DS))
      BY <1>1 DEF Good
    <2>3. r = s
      BY <2>1, <2>2, <1>2, <1>4, <1>6 DEF Apart
    <2> QED
      BY <2>1, <2>3, <1>1, <1>2, <1>6 DEF Named
  <1> QED
    BY <1>2, <1>5, <1>6 DEF Works

LEMMA OthersDir ==
    ASSUME NEW w, NEW DS, NEW path, NEW D, NEW at, NEW p, NEW C, NEW r,
           Works(w, DS, path, D, at, p, C, r), NEW q \in PathNames,
           NEW d, Leads(w, D, at, q, d), Len(q) > 1 => Front(q) # p
    PROVE  d \in (Clusters \cup {RootDir}) \ C
  <1>1. Good(w, DS, path) /\ Named(w, DS, D, at) /\ C \subseteq Clusters
    BY DEF Works
  <1>2. CASE d = RootDir
    BY <1>1, <1>2, ClustersAreFinite
  <1>3. CASE d # RootDir
    <2>1. Len(q) # 1
      BY <1>1, <1>3, LeadsIn
    <2>2. PICK p2 : /\ p2 = Front(q) /\ p2 \in D /\ p2 # p
                    /\ At(w, at[p2]).dir /\ d = At(w, at[p2]).start
      BY <2>1 DEF Leads
    <2>3. at[p2] \in Refs(w, DS)
      BY <1>1, <2>2 DEF Named, Names1
    <2>4. OnPath(w, path[at[p2]], d)
      BY <1>1, <2>2, <2>3 DEF Good
    <2>5. path[at[p2]][1] = d /\ 1 \in 1 .. Len(path[at[p2]])
      BY <2>4 DEF OnPath
    <2> QED
      BY <2>2, <2>5, OthersPath
  <1> QED
    BY <1>2, <1>3

(* Every path of the files V but p and those below it reads on u as it did.*)
Others(u, p, V) ==
    \E D, at, path :
       /\ Tree(u, D, at, {p})
       /\ \A q \in DOMAIN V : q # p /\ Visible({p}, q) =>
             /\ q \in D /\ OnPath(u, path[at[q]], At(u, at[q]).start)
             /\ Seen(u, At(u, at[q]), path[at[q]], V[q])

LEMMA FrameKeeps ==
    ASSUME NEW w, NEW DS, NEW path, NEW D, NEW at, NEW p, NEW C, NEW r,
           Works(w, DS, path, D, at, p, C, r),
           NEW u, Framed(w, C, r, Last(p), u),
           NEW q \in D, q # p, Visible({p}, q)
    PROVE  /\ At(u, at[q]) = At(w, at[q]) /\ at[q] # r
           /\ at[q][2] \in DOMAIN Slots(u, at[q][1])
           /\ q \in PathNames /\ (Len(q) > 1 => Front(q) # p)
  <1>1. Good(w, DS, path) /\ Named(w, DS, D, at)
    BY DEF Works
  <1>2. Placed(w, D, at, q) /\ q \in PathNames /\ at[q] \in Refs(w, DS)
    BY <1>1, NamedPlaced
  <1>3. Len(q) > 1 => Front(q) # p
    <2>1. {p} = {p}
      OBVIOUS
    <2>2. PICK X : X = {p}
      OBVIOUS
    <2>3. Len(q) > 1 => Front(q) \notin X
      BY <2>2, <1>2, VisibleFront
    <2> QED
      BY <2>2, <2>3
  <1>4. PICK d, i : d = at[q][1] /\ i = at[q][2] /\ at[q] = <<d, i>>
    BY <1>2 DEF Placed
  <1>5. Leads(w, D, at, q, d) /\ i \in DOMAIN Slots(w, d) /\ IsLive(At(w, at[q]))
    BY <1>2, <1>4 DEF Placed
  <1>6. d \in (Clusters \cup {RootDir}) \ C
    BY <1>2, <1>3, <1>5, OthersDir
  <1>7. at[q] # r
    BY <1>1, <1>5 DEF Works, Named
  <1>8. d # r[1] \/ i # r[2]
    BY <1>4, <1>7 DEF Works
  <1>9. DOMAIN Slots(u, d) = DOMAIN Slots(w, d) /\ Slots(u, d)[i] = Slots(w, d)[i]
    BY <1>5, <1>6, <1>8, FrameSlots
  <1> QED
    BY <1>2, <1>3, <1>4, <1>5, <1>7, <1>9 DEF At

(* The paths that are there while p is worked on.                          *)
Around(D, p, live) ==
    {q \in D : q # p /\ Visible({p}, q)} \cup (IF live THEN {p} ELSE {})

LEMMA ItselfVisible ==
    ASSUME NEW p \in PathNames
    PROVE  /\ Visible({p}, p)
           /\ Len(p) > 1 => Front(p) # p /\ Visible({p}, Front(p))
  <1>1. PICK n \in Nat : n = Len(p)
    BY NamesAre
  <1>2. ASSUME NEW k \in 1 .. n - 1
        PROVE  Prefix(p, k) # p
    <2>1. k \in 1 .. Len(p) /\ k # n
      BY <1>1
    <2>2. Len(Prefix(p, k)) = k
      BY <2>1, PrefixIs
    <2> QED
      BY <2>1, <2>2, <1>1
  <1>3. Visible({p}, p)
    BY <1>1, <1>2 DEF Visible
  <1>4. PICK X : X = {p}
    OBVIOUS
  <1>5. Len(p) > 1 => Visible(X, Front(p)) /\ Front(p) \notin X
    BY <1>3, <1>4, VisibleFront
  <1> QED
    BY <1>3, <1>4, <1>5

LEMMA FrameLeads ==
    ASSUME NEW w, NEW DS, NEW path, NEW D, NEW at, NEW p, NEW C, NEW r,
           Works(w, DS, path, D, at, p, C, r),
           NEW u, Framed(w, C, r, Last(p), u),
           NEW D2, D2 = Around(D, p, IsLive(At(u, r))),
           NEW at2, at2 = With(D, at, p, r),
           NEW q \in PathNames, NEW d, Len(q) > 1 => Front(q) # p
    PROVE  Leads(u, D2, at2, q, d) <=> Leads(w, D, at, q, d) /\ Visible({p}, q)
  <1>1. PICK n \in Nat : n = Len(q)
    BY NamesAre
  <1>2. CASE n = 1
    <2>1. \A k : k \notin 1 .. n - 1
      BY <1>2
    <2> QED
      BY <2>1, <1>1, <1>2 DEF Leads, Visible
  <1>3. CASE n # 1
    <2>1. PICK f : f = Front(q) /\ Len(q) # 1 /\ Len(q) > 1 /\ f # p
      <3>1. Len(q) # 0
        BY NamesAre
      <3>2. Len(q) # 1 /\ Len(q) > 1
        BY <3>1, <1>1, <1>3
      <3> QED
        BY <3>2
    <2>2. Visible({p}, q) <=> Visible({p}, f)
      <3>1. PICK X : X = {p}
        OBVIOUS
      <3>2. Visible(X, q) <=> Visible(X, f) /\ f \notin X
        BY <2>1, VisibleFront
      <3> QED
        BY <3>1, <3>2, <2>1
    <2>3. f \in D2 <=> f \in D /\ Visible({p}, f)
      BY <2>1 DEF Around
    <2>4. ASSUME f \in D, Visible({p}, f)
          PROVE  At(u, at2[f]) = At(w, at[f])
      <3>1. at2[f] = at[f]
        BY <2>1, <2>4 DEF With
      <3> QED
        BY <3>1, <2>1, <2>4, FrameKeeps
    <2> QED
      BY <2>1, <2>2, <2>3, <2>4 DEF Leads
  <1> QED
    BY <1>2, <1>3

LEMMA FramePlaced ==
    ASSUME NEW w, NEW DS, NEW path, NEW D, NEW at, NEW p, NEW C, NEW r,
           Works(w, DS, path, D, at, p, C, r),
           NEW u, Framed(w, C, r, Last(p), u),
           NEW D2, D2 = Around(D, p, IsLive(At(u, r))),
           NEW at2, at2 = With(D, at, p, r), NEW q \in D2
    PROVE  Placed(u, D2, at2, q) /\ (Len(q) > 1 => Front(q) # p)
  <1>1. Good(w, DS, path) /\ Named(w, DS, D, at) /\ p \in PathNames
    BY PathsNamed DEF Works
  <1>2. CASE q = p
    <2>1. IsLive(At(u, r)) /\ at2[q] = r /\ At(u, r).name = Last(p)
      BY <1>2 DEF Around, With, Framed
    <2>2. Len(p) > 1 => Front(p) # p
      BY <1>1, ItselfVisible
    <2>3. Visible({p}, p) /\ Leads(w, D, at, p, r[1])
      BY <1>1, ItselfVisible DEF Works
    <2>4. Leads(u, D2, at2, p, r[1])
      BY <2>2, <2>3, <1>1, FrameLeads
    <2>5. r = <<r[1], r[2]>> /\ r[2] \in DOMAIN Slots(u, r[1])
      BY DEF Works, Framed
    <2> QED
      BY <1>2, <2>1, <2>2, <2>4, <2>5 DEF Placed
  <1>3. CASE q # p
    <2>1. q \in D /\ Visible({p}, q) /\ at2[q] = at[q]
      BY <1>3 DEF Around, With
    <2>2. /\ At(u, at[q]) = At(w, at[q])
          /\ at[q][2] \in DOMAIN Slots(u, at[q][1])
          /\ q \in PathNames /\ (Len(q) > 1 => Front(q) # p)
      BY <2>1, <1>3, FrameKeeps
    <2>3. Placed(w, D, at, q)
      BY <2>1, <1>1, NamedPlaced
    <2>4. PICK d : d = at[q][1] /\ Leads(w, D, at, q, d)
      BY <2>3 DEF Placed
    <2>5. Leads(u, D2, at2, q, d)
      BY <2>1, <2>2, <2>4, FrameLeads
    <2> QED
      BY <2>1, <2>2, <2>3, <2>4, <2>5 DEF Placed
  <1> QED
    BY <1>2, <1>3

LEMMA FrameFinds ==
    ASSUME NEW w, NEW DS, NEW path, NEW D, NEW at, NEW p, NEW C, NEW r,
           Works(w, DS, path, D, at, p, C, r),
           NEW u, Framed(w, C, r, Last(p), u),
           NEW D2, D2 = Around(D, p, IsLive(At(u, r))),
           NEW at2, at2 = With(D, at, p, r),
           NEW q \in PathNames, NEW d, Leads(u, D2, at2, q, d), Len(q) > 1 => Front(q) # p
    PROVE  FindsIn(u, D2, at2, q, d)
  <1>1. Good(w, DS, path) /\ Named(w, DS, D, at) /\ p \in PathNames
    BY PathsNamed DEF Works
  <1>2. Leads(w, D, at, q, d) /\ Visible({p}, q)
    BY FrameLeads
  <1>3. d \in (Clusters \cup {RootDir}) \ C
    BY <1>2, OthersDir
  <1>4. d = RootDir \/ (d \in Clusters /\ u.fat[1][d] = EOC)
    <2>1. d # RootDir => d \in Clusters /\ w.fat[1][d] = EOC
      BY <1>1, <1>2, LeadsIn
    <2> QED
      BY <2>1, <1>3 DEF Framed
  <1>5. ASSUME NEW i \in DOMAIN Slots(u, d), IsLive(Slots(u, d)[i]), Slots(u, d)[i].name = Last(q)
        PROVE  q \in D2 /\ at2[q] = <<d, i>>
    <2>1. CASE d = r[1] /\ i = r[2]
      <3>1. At(u, r) = Slots(u, d)[i] /\ r = <<d, i>>
        BY <2>1 DEF At, Works
      <3>2. IsLive(At(u, r)) /\ Last(p) = Last(q)
        BY <3>1, <1>5 DEF Framed
      <3>3. Leads(w, D, at, p, d)
        BY <2>1 DEF Works
      <3>4. p = q
        BY <3>2, <3>3, <1>1, <1>2, LeadsApart
      <3> QED
        BY <3>1, <3>2, <3>4 DEF Around, With
    <2>2. CASE d # r[1] \/ i # r[2]
      <3>1. i \in DOMAIN Slots(w, d) /\ Slots(u, d)[i] = Slots(w, d)[i]
        BY <2>2, <1>3, <1>5, FrameSlots
      <3>2. Tree(w, D, at, {})
        BY <1>1, NamedTree
      <3>3. FindsIn(w, D, at, q, d)
        BY <3>2, <1>2 DEF Tree
      <3>4. q \in D /\ at[q] = <<d, i>>
        BY <3>1, <3>3, <1>5 DEF FindsIn
      <3>5. q # p
        <4> SUFFICES ASSUME q = p PROVE FALSE
          OBVIOUS
        <4>1. r = <<d, i>>
          BY <3>4 DEF Works
        <4>2. r[1] = d /\ r[2] = i
          BY <4>1
        <4> QED
          BY <4>2, <2>2
      <3> QED
        BY <3>4, <3>5, <1>2 DEF Around, With
    <2> QED
      BY <2>1, <2>2
  <1> QED
    BY <1>4, <1>5 DEF FindsIn

LEMMA FrameOthers ==
    ASSUME NEW w, NEW DS, NEW path, NEW D, NEW at, NEW p, NEW C, NEW r,
           Works(w, DS, path, D, at, p, C, r), r[1] \notin C,
           NEW u, Framed(w, C, r, Last(p), u), NEW V, Views(w, D, at, path, V)
    PROVE  Others(u, p, V)
  <1>1. Good(w, DS, path) /\ Named(w, DS, D, at) /\ p \in PathNames /\ p \in Paths
    BY PathsNamed DEF Works
  <1>2. PICK D2, at2 : D2 = Around(D, p, IsLive(At(u, r))) /\ at2 = With(D, at, p, r)
    OBVIOUS
  <1>3. D2 \subseteq Paths /\ u \in Volumes
    BY <1>1, <1>2 DEF Around, Named, Framed
  <1>4. \A q \in D2 : Placed(u, D2, at2, q) /\ (Len(q) > 1 => Front(q) \notin {p})
    BY <1>2, FramePlaced
  <1>5. \A q \in PathNames : \A d :
          Leads(u, D2, at2, q, d) /\ (Len(q) > 1 => Front(q) \notin {p}) =>
            FindsIn(u, D2, at2, q, d)
    BY <1>2, FrameFinds
  <1>6. Tree(u, D2, at2, {p})
    BY <1>3, <1>4, <1>5 DEF Tree
  <1>7. ASSUME NEW q \in DOMAIN V, q # p, Visible({p}, q)
        PROVE  /\ q \in D2 /\ OnPath(u, path[at2[q]], At(u, at2[q]).start)
               /\ Seen(u, At(u, at2[q]), path[at2[q]], V[q])
    <2>1. q \in D
      <3>1. V = [x \in D |-> V[x]]
        BY DEF Views
      <3> QED
        BY <3>1, <1>7
    <2>2. q \in D2 /\ at2[q] = at[q]
      BY <2>1, <1>2, <1>7 DEF Around, With
    <2>3. PICK s, e, c : s = at[q] /\ e = At(w, s) /\ c = path[s]
      OBVIOUS
    <2>4. At(u, s) = e
      BY <2>1, <2>3, <1>7, FrameKeeps
    <2>5. s \in Refs(w, DS)
      BY <2>1, <2>3, <1>1, NamedPlaced
    <2>6. OnPath(w, c, e.start)
      BY <2>3, <2>5, <1>1 DEF Good
    <2>7. \A i \in 1 .. Len(c) : c[i] \in Clusters \ C
      BY <2>1, <2>3, <1>7, OthersPath
    <2>8. \A i \in 1 .. Len(c) : u.fat[1][c[i]] = w.fat[1][c[i]]
      BY <2>7 DEF Framed
    <2>9. OnPath(u, c, e.start)
      BY <2>6, <2>8, OnPathKept
    <2>10. Seen(w, e, c, V[q])
      BY <2>1, <2>3 DEF Views
    <2>11. ASSUME ~e.dir
           PROVE  Stores(u, e, c, V[q].data)
      <3>1. \A i \in 1 .. Len(c) : c[i] # r[1]
        <4> SUFFICES ASSUME NEW i \in 1 .. Len(c), c[i] = r[1]
                     PROVE  FALSE
          OBVIOUS
        <4>1. r[1] # RootDir
          BY <2>7, ClustersAreFinite
        <4>2. Leads(w, D, at, p, r[1]) /\ Len(p) # 1
          BY <4>1, <1>1, LeadsIn DEF Works
        <4>3. PICK f : f = at[Front(p)] /\ Front(p) \in D /\ At(w, f).dir /\ r[1] = At(w, f).start
          BY <4>2 DEF Leads
        <4>4. f \in Refs(w, DS)
          BY <4>3, <1>1, NamedPlaced
        <4>5. OnPath(w, path[f], r[1]) /\ Apart(path, Refs(w, DS))
          BY <4>3, <4>4, <1>1 DEF Good
        <4>6. path[f][1] = r[1] /\ 1 \in 1 .. Len(path[f])
          BY <4>5 DEF OnPath
        <4>7. i \in 1 .. Len(path[s]) /\ path[s][i] = path[f][1]
          BY <4>6, <2>3
        <4>8. s = f
          BY <4>4, <4>5, <4>6, <4>7, <2>5 DEF Apart
        <4> QED
          BY <4>3, <4>8, <2>3, <2>11
      <3>2. \A i \in 1 .. Len(c) : u.area[c[i]] = w.area[c[i]]
        BY <3>1, <2>7 DEF Framed
      <3>3. Stores(w, e, c, V[q].data)
        BY <2>10, <2>11 DEF Seen
      <3>4. PICK data : data = V[q].data
        OBVIOUS
      <3>5. Stores(u, e, c, data)
        BY <3>2, <3>3, <3>4, StoresKept
      <3> QED
        BY <3>4, <3>5
    <2>12. Seen(u, e, c, V[q])
      BY <2>10, <2>11 DEF Seen
    <2> QED
      BY <2>2, <2>3, <2>4, <2>9, <2>12
  <1> QED
    BY <1>6, <1>7 DEF Others

LEMMA WorksHere ==
    ASSUME NEW DS, NEW path, Good(Disk, DS, path), NEW D, NEW at, Named(Disk, DS, D, at),
           NEW V, Views(Disk, D, at, path, V), NEW p \in Paths,
           Exists(p) \/ MakeRefusal(p) = "ok",
           NEW C, C = OwnClusters(p), NEW r, r = <<ParentDir(p), OwnSlot(p)>>
    PROVE  /\ Works(Disk, DS, path, D, at, p, C, r)
           /\ r[1] \in (Clusters \cup {RootDir}) \ C /\ r[2] \in Nat
  <1>1. VolumeOK /\ p \in PathNames
    BY PathsNamed DEF Good, VolumeOK
  <1>2. PICK d, i : d = ParentDir(p) /\ i = OwnSlot(p) /\ r = <<d, i>> /\ r[1] = d /\ r[2] = i
    OBVIOUS
  <1>3. C \subseteq Clusters /\ d \in Nat /\ i \in 1 .. Len(read_directory(d))
    BY <1>1, <1>2, OwnInBounds
  <1>4. d # Lost
    BY <1>3 DEF Lost
  <1>5. Leads(Disk, D, at, p, d)
    BY <1>2, <1>4, Lookups
  <1>6. read_directory(d) = Slots(Disk, d)
    <2>1. PICK X : X = {}
      OBVIOUS
    <2>2. Tree(Disk, D, at, X) /\ Visible(X, p)
      BY <2>1, NamedTree DEF Visible
    <2> QED
      BY <2>2, <1>2, <1>4, Resolved
  <1>7. d \in Clusters \cup {RootDir}
    BY <1>1, <1>5, LeadsIn DEF Good
  <1>8. i \in DOMAIN Slots(Disk, d) /\ i \in Nat
    BY <1>3, <1>6, <1>7, SlotsType DEF Good
  <1>9. CASE p \in D
    <2>1. Exists(p) /\ at[p] = r /\ Entry(p) = At(Disk, r)
      <3>1. Exists(p) /\ at[p] = <<ParentDir(p), SlotIn(ParentDir(p), p)>> /\ Entry(p) = At(Disk, at[p])
        BY <1>9, Lookups
      <3>2. OwnSlot(p) = SlotIn(ParentDir(p), p)
        BY <3>1 DEF OwnSlot
      <3> QED
        BY <3>1, <3>2
    <2>2. r \in Refs(Disk, DS)
      BY <2>1, <1>9, NamedPlaced
    <2>3. PICK c : c = path[r] /\ OnPath(Disk, c, Entry(p).start)
      BY <2>1, <2>2 DEF Good
    <2>4. Chain(Entry(p).start) = c
      BY <2>3, ChainIsPath
    <2>5. C = FreeClusters \cup ToSet(c)
      BY <2>1, <2>4 DEF OwnClusters
    <2>6. ToSet(c) = {c[j] : j \in DOMAIN c}
      BY DEF ToSet
    <2>7. DOMAIN c = 1 .. Len(c)
      BY <2>3 DEF OnPath
    <2>8. ASSUME NEW b \in C
          PROVE  Disk.fat[1][b] = Free \/ (p \in D /\ \E j \in 1 .. Len(path[r]) : path[r][j] = b)
      BY <2>3, <2>5, <2>6, <2>7, <2>8, <1>9 DEF FreeClusters, get_fat_entry, Disk
    <2>9. Works(Disk, DS, path, D, at, p, C, r)
      BY <2>1, <2>8, <1>2, <1>3, <1>5, <1>8, <1>9 DEF Works
    <2> QED
      BY <2>9, <1>1, <1>2, <1>5, <1>8, OthersDir, ItselfVisible
  <1>10. CASE p \notin D
    <2>1. ~Exists(p) /\ MakeRefusal(p) = "ok"
      BY <1>10, Lookups
    <2>2. PICK dir \in BOOLEAN : TRUE
      OBVIOUS
    <2>3. read_directory(d)[i] = NoEntry
      <3>1. read_directory(ParentDir(p))[FreeSlot(read_directory(ParentDir(p)))] = NoEntry
        BY <1>1, <2>1, <2>2, MakeChecked
      <3>2. i = FreeSlot(read_directory(ParentDir(p)))
        BY <1>2, <2>1 DEF OwnSlot
      <3> QED
        BY <3>1, <3>2, <1>2
    <2>4. ~IsLive(At(Disk, r))
      BY <2>3, <1>2, <1>6 DEF At, IsLive, IsEntry
    <2>5. C = FreeClusters
      BY <2>1 DEF OwnClusters
    <2>6. \A b \in C : Disk.fat[1][b] = Free
      BY <2>5 DEF FreeClusters, get_fat_entry, Disk
    <2>7. Works(Disk, DS, path, D, at, p, C, r)
      BY <2>4, <2>6, <1>2, <1>3, <1>5, <1>8, <1>10 DEF Works
    <2>8. Len(p) > 1 => Front(p) # p
      BY <1>1, ItselfVisible
    <2>9. d \in (Clusters \cup {RootDir}) \ C
      BY <2>7, <2>8, <1>1, <1>5, OthersDir
    <2> QED
      BY <2>7, <2>9, <1>2, <1>8
  <1> QED
    BY <1>9, <1>10

Spares(P, p, V) == \A u \in P : Others(u, p, V)

LEMMA HandlersSpare ==
    ASSUME NEW DS, NEW path, Good(Disk, DS, path), NEW D, NEW at, Named(Disk, DS, D, at),
           NEW V, Views(Disk, D, at, path, V), NEW p \in Paths
    PROVE  \E P : Handles(p, P) /\ Spares(P, p, V)
  <1>1. CASE Exists(p) \/ MakeRefusal(p) = "ok"
    <2>1. PICK w, C, r, n, S : /\ w = Disk /\ C = OwnClusters(p)
                               /\ r = <<ParentDir(p), OwnSlot(p)>> /\ n = Last(p)
                               /\ S = FramedUpdates(r, n)
      OBVIOUS
    <2>2. /\ Works(w, DS, path, D, at, p, C, r)
          /\ r[1] \in (Clusters \cup {RootDir}) \ C /\ r[2] \in Nat
      BY <1>1, <2>1, WorksHere
    <2>3. PICK P : P = {u \in Volumes : Framed(w, C, r, n, u)}
      OBVIOUS
    <2>4. w \in Volumes /\ C \subseteq Clusters /\ r[2] \in DOMAIN Slots(w, r[1])
      BY <2>2 DEF Works, Good
    <2>5. Tame(P, P, C, S)
      BY <2>1, <2>2, <2>3, <2>4, FrameTame
    <2>6. w \in P
      <3>1. IsLive(At(w, r)) => At(w, r).name = n
        BY <2>1, <2>2 DEF Works, Named, Names1
      <3> QED
        BY <3>1, <2>3, <2>4 DEF Framed
    <2>7. OwnUpdates(p) = S
      <3>1. r[1] = ParentDir(p) /\ r[2] = OwnSlot(p)
        BY <2>1
      <3> QED
        BY <3>1, <2>1 DEF OwnUpdates, FramedUpdates
    <2>8. Handles(p, P)
      BY <2>1, <2>5, <2>6, <2>7 DEF Handles
    <2>9. Spares(P, p, V)
      BY <2>1, <2>2, <2>3, FrameOthers DEF Spares
    <2> QED
      BY <2>8, <2>9
  <1>2. CASE ~(Exists(p) \/ MakeRefusal(p) = "ok")
    <2>1. PICK P : P = {Disk}
      OBVIOUS
    <2>2. Handles(p, P)
      BY <1>2, <2>1 DEF Handles
    <2>3. p \notin D /\ DOMAIN V = D
      BY <1>2, Lookups
    <2>4. Tree(Disk, D, at, {})
      BY NamedTree
    <2>5. ASSUME NEW q \in D
          PROVE  Placed(Disk, D, at, q) /\ (Len(q) > 1 => Front(q) \notin {p})
      <3>1. Placed(Disk, D, at, q) /\ Leads(Disk, D, at, q, at[q][1])
        BY <2>4 DEF Tree, Placed
      <3>2. Len(q) > 1 => Len(q) # 1
        <4>1. PICK k \in Nat : k = Len(q)
          BY NamedPlaced, NamesAre
        <4> QED
          BY <4>1
      <3>3. Len(q) > 1 => Front(q) \in D
        BY <3>1, <3>2 DEF Leads
      <3> QED
        BY <3>1, <3>3, <2>3
    <2>6. Tree(Disk, D, at, {p})
      BY <2>4, <2>5 DEF Tree
    <2>7. \A q \in DOMAIN V : /\ q \in D /\ OnPath(Disk, path[at[q]], At(Disk, at[q]).start)
                              /\ Seen(Disk, At(Disk, at[q]), path[at[q]], V[q])
      BY <2>3, NamedPlaced DEF Good, Views
    <2>8. Others(Disk, p, V)
      BY <2>6, <2>7 DEF Others
    <2> QED
      BY <2>1, <2>2, <2>8 DEF Spares
  <1> QED
    BY <1>1, <1>2

(* Where a path is not below p, nothing on the way to it is p.             *)
LEMMA NotBelow ==
    ASSUME NEW p \in PathNames, NEW q \in PathNames, ~IsPrefix(p, q)
    PROVE  q # p /\ Visible({p}, q)
  <1>1. PICK n \in Nat, m \in Nat : n = Len(q) /\ m = Len(p) /\ m # 0
    BY NamesAre
  <1>2. ASSUME NEW k \in 1 .. n, Prefix(q, k) = p
        PROVE  FALSE
    <2>1. k \in 1 .. Len(q)
      BY <1>1
    <2>2. k = m /\ m <= n
      <3>1. Len(Prefix(q, k)) = k
        BY <2>1, PrefixIs
      <3> QED
        BY <3>1, <1>1, <1>2
    <2>3. p \in Seq(Names) /\ q \in Seq(Names)
      BY DEF PathNames
    <2>4. ASSUME NEW s \in Seq(Names), Len(s) >= m
          PROVE  /\ SubSeq(s, 1, m) \in Seq(Names) /\ Len(SubSeq(s, 1, m)) = m
                 /\ \A j \in 1 .. m : SubSeq(s, 1, m)[j] = s[j]
      <3>1. 1 \in Int /\ m \in Int /\ 1 <= m /\ (m - 1) + 1 = m
        BY <1>1
      <3>2. \A j \in 1 .. m : s[j] \in Names
        BY <2>4
      <3>3. \A j \in 1 .. m : (1 + j) - 1 = j
        OBVIOUS
      <3>4. /\ SubSeq(s, 1, m) \in Seq(Names)
            /\ Len(SubSeq(s, 1, m)) = IF 1 <= m THEN (m - 1) + 1 ELSE 0
            /\ \A j \in 1 .. (m - 1) + 1 : SubSeq(s, 1, m)[j] = s[(1 + j) - 1]
        BY <3>1, <3>2, SubSeqProperties
      <3> QED
        BY <3>1, <3>3, <3>4
    <2>5. PICK a, b : a = SubSeq(p, 1, m) /\ b = SubSeq(q, 1, m)
      OBVIOUS
    <2>6. /\ a \in Seq(Names) /\ Len(a) = m /\ \A j \in 1 .. m : a[j] = p[j]
          /\ b \in Seq(Names) /\ Len(b) = m /\ \A j \in 1 .. m : b[j] = q[j]
      <3>1. Len(p) >= m /\ Len(q) >= m
        BY <1>1, <2>2
      <3> QED
        BY <3>1, <2>3, <2>4, <2>5
    <2>7. \A j \in 1 .. m : p[j] = q[j]
      BY <1>2, <2>2 DEF Prefix
    <2>8. a = b
      BY <2>6, <2>7, SeqEqual
    <2> QED
      BY <2>2, <2>5, <2>8, <1>1 DEF IsPrefix
  <1>3. q # p
    <2>1. n \in 1 .. n \/ n = 0
      BY <1>1
    <2>2. n # 0
      BY <1>1, NamesAre
    <2>3. Len(q) \in 1 .. Len(q) /\ Prefix(q, Len(q)) = q
      BY <2>1, <2>2, <1>1, PrefixIs
    <2> QED
      BY <2>3, <1>1, <1>2
  <1>4. \A k \in 1 .. n - 1 : k \in 1 .. n
    BY <1>1
  <1> QED
    BY <1>1, <1>2, <1>3, <1>4 DEF Visible

(* The inductive invariant: whatever disk the running handler passes on    *)
(* its way to the answer, the other paths read as before the call.         *)
Sparing(p, V) ==
    /\ p \in Paths /\ DOMAIN V \subseteq Paths
    /\ \E P : Leading(P, V) /\ Spares(P, p, V)

SurvivalInv == StoreInv /\ (crashes = 0 /\ ~Idle => Sparing(call.path, view))

LEMMA SparingSurvive ==
    ASSUME NEW p, NEW V, Sparing(p, V), NEW q \in DOMAIN V, ~IsPrefix(p, q)
    PROVE  q \in DOMAIN Stored /\ Stored[q] = V[q]
  <1>1. PICK P : Leading(P, V) /\ Spares(P, p, V)
    BY DEF Sparing
  <1>2. Disk \in P
    BY <1>1, RunningIn DEF Leading
  <1>3. Others(Disk, p, V)
    BY <1>1, <1>2 DEF Spares
  <1>4. PICK X : X = {p}
    OBVIOUS
  <1>5. q \in Paths /\ q # p /\ Visible(X, q)
    <2>1. p \in PathNames /\ q \in PathNames /\ q \in Paths
      BY PathsNamed DEF Sparing
    <2> QED
      BY <2>1, <1>4, NotBelow
  <1>6. PICK D, at, path :
          /\ Tree(Disk, D, at, X)
          /\ q \in D /\ OnPath(Disk, path[at[q]], At(Disk, at[q]).start)
          /\ Seen(Disk, At(Disk, at[q]), path[at[q]], V[q])
    BY <1>3, <1>4, <1>5 DEF Others
  <1>7. PICK e, c, s : e = At(Disk, at[q]) /\ c = path[at[q]] /\ s = V[q]
    OBVIOUS
  <1>8. OnPath(Disk, c, e.start) /\ Seen(Disk, e, c, s)
    BY <1>6, <1>7
  <1>9. (q \in DOMAIN Stored <=> q \in D) /\ (q \in D => Stored[q] = s)
    BY ONLY <1>5, <1>6, <1>7, <1>8, OneStored
  <1> QED
    BY <1>6, <1>7, <1>9

LEMMA CrashesStay ==
    ASSUME crashes \in Nat, crashes # 0, [Next]_vars
    PROVE  crashes' # 0
  <1>1. ASSUME NEW p, create(p) \/ mkdir(p) \/ rmdir(p) \/ unlink(p)
                      \/ \E buf, offset : write(p, buf, offset)
        PROVE  crashes' = crashes
    BY <1>1 DEF create, mkdir, rmdir, unlink, write, Answer
  <1>2. Flush \/ Return \/ UNCHANGED vars => crashes' = crashes
    BY DEF Flush, Return, vars
  <1>3. Crash => crashes' = crashes + 1
    BY DEF Crash
  <1>4. crashes' = crashes \/ crashes' = crashes + 1
    BY <1>1, <1>2, <1>3, NextSteps
  <1> QED
    BY <1>4

LEMMA SparingStarts ==
    ASSUME ShortNames, NEW V, Settled(V), NEW p \in Paths,
           \/ create(p)
           \/ mkdir(p)
           \/ rmdir(p)
           \/ unlink(p)
           \/ \E buf \in DataChoices, offset \in OffsetChoices : write(p, buf, offset)
    PROVE  Sparing(p, V)'
  <1>1. PICK DS, path, D, at :
          /\ Good(Disk, DS, path) /\ Named(Disk, DS, D, at)
          /\ Views(Disk, D, at, path, V) /\ Tidy(Disk, DS)
          /\ Sized(Disk, DS) /\ leaked = Waste(Disk, DS, path)
    BY DEF Settled
  <1>2. PICK P : Handles(p, P) /\ Spares(P, p, V)
    BY <1>1, HandlersSpare
  <1>3. Leading(P, V)'
    BY <1>1, <1>2, HandlersAnswer
  <1>4. DOMAIN V \subseteq Paths
    <2>1. V = [q \in D |-> V[q]] /\ D \subseteq Paths
      BY <1>1 DEF Views, Named
    <2> QED
      BY <2>1
  <1>5. Spares(P, p, V)'
    BY <1>2 DEF Spares, Others
  <1> QED
    BY <1>3, <1>4, <1>5 DEF Sparing

LEMMA SurvivalNext ==
    ASSUME ShortNames, SurvivalInv, [Next]_vars
    PROVE  SurvivalInv'
  <1>1. StoreInv' /\ crashes \in Nat
    BY StoreNext DEF SurvivalInv, StoreInv
  <1> SUFFICES ASSUME crashes' = 0, ~Idle'
               PROVE  Sparing(call.path, view)'
    BY <1>1 DEF SurvivalInv
  <1>2. crashes = 0
    BY <1>1, CrashesStay
  <1>3. CASE UNCHANGED vars
    <2>1. /\ Disk' = Disk /\ pending' = pending /\ view' = view /\ call' = call
          /\ leaked' = leaked
      BY <1>3 DEF vars, volume, Disk
    <2>2. ~Idle
      BY <2>1 DEF Idle
    <2>3. PICK p, V : p = call.path /\ V = view /\ Sparing(p, V)
      BY <2>2, <1>2 DEF SurvivalInv
    <2>4. PICK P : Leading(P, V) /\ Spares(P, p, V)
      BY <2>3 DEF Sparing
    <2>5. Leading(P, V)'
      BY <1>3, <2>4, LeadingStays
    <2>6. Sparing(p, V)'
      BY <2>3, <2>4, <2>5 DEF Sparing, Spares, Others
    <2> QED
      BY <2>1, <2>3, <2>6
  <1>4. ASSUME NEW p \in Paths,
               \/ create(p)
               \/ mkdir(p)
               \/ rmdir(p)
               \/ unlink(p)
               \/ \E buf \in DataChoices, offset \in OffsetChoices :
                    write(p, buf, offset)
        PROVE  Sparing(call.path, view)'
    <2>0. \E op, writes, code : Answer(op, p, writes, code)
      <3>1. create(p) => \E op, writes, code : Answer(op, p, writes, code)
        BY DEF create
      <3>2. mkdir(p) => \E op, writes, code : Answer(op, p, writes, code)
        BY DEF mkdir
      <3>3. rmdir(p) => \E op, writes, code : Answer(op, p, writes, code)
        BY DEF rmdir
      <3>4. unlink(p) => \E op, writes, code : Answer(op, p, writes, code)
        BY DEF unlink
      <3>5. ASSUME NEW buf, NEW offset, write(p, buf, offset)
            PROVE  \E op, writes, code : Answer(op, p, writes, code)
        BY <3>5 DEF write
      <3> QED
        BY <3>1, <3>2, <3>3, <3>4, <3>5, <1>4
    <2>1. Idle /\ view' = view /\ call'.path = p
      BY <2>0 DEF Answer
    <2>2. PICK V : V = view /\ Settled(V)
      BY <2>1, <1>2 DEF SurvivalInv, StoreInv
    <2>3. Sparing(p, V)'
      BY <2>2, <1>4, SparingStarts
    <2> QED
      BY <2>1, <2>2, <2>3
  <1>5. CASE Flush
    <2>1. ~Idle /\ view' = view /\ call' = call
      BY <1>5 DEF Flush
    <2>2. PICK p, V : p = call.path /\ V = view /\ Sparing(p, V)
      BY <2>1, <1>2 DEF SurvivalInv
    <2>3. PICK P : Leading(P, V) /\ Spares(P, p, V)
      BY <2>2 DEF Sparing
    <2>4. Leading(P, V)'
      BY <2>3, <1>5, LeadingFlush
    <2>5. Sparing(p, V)'
      BY <2>2, <2>3, <2>4 DEF Sparing, Spares, Others
    <2> QED
      BY <2>1, <2>2, <2>5
  <1>6. Return \/ Crash => Idle'
    BY DEF Return, Crash, Idle
  <1> QED
    BY <1>3, <1>4, <1>5, <1>6, NextSteps

(* At every write of a handler, were the program killed there, every path  *)
(* but the one the handler works on, and those below it, still reads as    *)
(* before the call.                                                        *)
THEOREM Survival ==
    ASSUME ShortNames
    PROVE  Spec => []OthersSurvive
  <1>1. Init => SurvivalInv
    BY StoreInit DEF SurvivalInv, Init, Idle
  <1>2. SurvivalInv /\ [Next]_vars => SurvivalInv'
    BY SurvivalNext
  <1>3. SurvivalInv => OthersSurvive
    BY SparingSurvive DEF SurvivalInv, OthersSurvive
  <1> QED
    BY <1>1, <1>2, <1>3, PTL DEF Spec

-----------------------------------------------------------------------------
(* A name comes twice in a directory only when it was cut.                 *)

(* Two live entries of q have different names, or one that was cut.        *)
Once(q) ==
    \A j, k \in DOMAIN q :
       IsLive(q[j]) /\ IsLive(q[k]) /\ q[j].name = q[k].name
         => j = k \/ q[j].name \in LongForms

LEMMA OnceListed ==
    ASSUME NEW d, NEW entries, entries = read_directory(d), entries \in Seq(Contents),
           Once(entries)
    PROVE  \A j, k \in DOMAIN readdir(d) :
              readdir(d)[j] = readdir(d)[k] => j = k \/ readdir(d)[j] \in LongForms
  <1>1. PICK n \in Nat : n = Len(entries) /\ DOMAIN entries = 1 .. n
    OBVIOUS
  <1>2. /\ \A k \in DOMAIN Listed(d) :
             Listed(d)[k] \in 1 .. n /\ IsLive(entries[Listed(d)[k]])
        /\ \A j, k \in DOMAIN Listed(d) : Listed(d)[j] = Listed(d)[k] => j = k
        /\ DOMAIN readdir(d) = DOMAIN Listed(d)
        /\ \A k \in DOMAIN Listed(d) : readdir(d)[k] = entries[Listed(d)[k]].name
    BY <1>1, ListedIs
  <1> QED
    BY <1>1, <1>2 DEF Once

LEMMA SlotsOnce ==
    ASSUME NEW u \in Volumes, NEW DS, NamedOnce(u, DS), NEW d \in DS,
           d \in Clusters \cup {RootDir}
    PROVE  Once(Slots(u, d))
  <1> SUFFICES ASSUME NEW j \in DOMAIN Slots(u, d), NEW k \in DOMAIN Slots(u, d),
                      IsLive(Slots(u, d)[j]), IsLive(Slots(u, d)[k]),
                      Slots(u, d)[j].name = Slots(u, d)[k].name
               PROVE  j = k \/ Slots(u, d)[j].name \in LongForms
    BY DEF Once
  <1>1. PICK r, s : r = <<d, j>> /\ s = <<d, k>>
    OBVIOUS
  <1>2. j \in Nat /\ k \in Nat
    BY SlotsType
  <1>3. /\ r \in DS \X Nat /\ r[1] = d /\ r[2] = j
        /\ s \in DS \X Nat /\ s[1] = d /\ s[2] = k
    BY <1>1, <1>2
  <1>4. /\ r \in Refs(u, DS) /\ At(u, r) = Slots(u, d)[j]
        /\ s \in Refs(u, DS) /\ At(u, s) = Slots(u, d)[k]
    BY <1>3 DEF Refs, At
  <1>5. r = s \/ At(u, r).name \in LongForms
    BY <1>3, <1>4 DEF NamedOnce
  <1> QED
    BY <1>3, <1>4, <1>5

(* The root directory after a kill: nothing is known of the rest of the    *)
(* volume, yet the one slot that a handler writes there either has a name  *)
(* that no other slot has, or one that was cut.                            *)
Alone(q, i, n) ==
    n \in LongForms \/ \A j \in DOMAIN q : IsLive(q[j]) /\ q[j].name = n => j = i

OnceRoot(i, n) == {u \in Volumes : Once(u.root) /\ Alone(u.root, i, n)}

RootSlots(i, n) ==
    {s \in SlotUpdates :
        s.dir = RootDir => s.slot = i /\ (IsLive(s.value) => s.value.name = n)}

LEMMA SlotOnce ==
    ASSUME NEW q, NEW i, NEW n, Once(q), Alone(q, i, n),
           NEW x, IsLive(x) => x.name = n,
           NEW t, t = [q EXCEPT ![i] = x]
    PROVE  Once(t) /\ Alone(t, i, n)
  <1>1. /\ DOMAIN t = DOMAIN q
        /\ \A j \in DOMAIN q : t[j] = IF j = i THEN x ELSE q[j]
    OBVIOUS
  <1>2. Alone(t, i, n)
    BY <1>1 DEF Alone
  <1>3. ASSUME NEW j \in DOMAIN q, NEW k \in DOMAIN q, IsLive(t[j]), IsLive(t[k]),
               t[j].name = t[k].name, j # k
        PROVE  t[j].name \in LongForms
    <2>1. CASE j = i
      BY <2>1, <1>1, <1>3 DEF Alone
    <2>2. CASE k = i
      BY <2>2, <1>1, <1>3 DEF Alone
    <2>3. CASE j # i /\ k # i
      BY <2>3, <1>1, <1>3 DEF Once
    <2> QED
      BY <2>1, <2>2, <2>3
  <1> QED
    BY <1>1, <1>2, <1>3 DEF Once

LEMMA RootTame ==
    ASSUME NEW i, NEW n
    PROVE  Tame(OnceRoot(i, n), OnceRoot(i, n), Clusters, RootSlots(i, n))
  <1>1. PICK Q, S : Q = OnceRoot(i, n) /\ S = RootSlots(i, n)
    OBVIOUS
  <1>2. Q \subseteq Volumes /\ S \subseteq SlotUpdates
    BY <1>1 DEF OnceRoot, RootSlots
  <1>3. ASSUME NEW u \in Q, NEW w \in Volumes, w.root = u.root
        PROVE  w \in Q
    BY <1>1, <1>3 DEF OnceRoot
  <1>4. ASSUME NEW u \in Q, NEW c \in Clusters, NEW x \in Nat
        PROVE  /\ SetFat(u, c, x) \in Q
               /\ \A m \in 0 .. NumberOfFats : PartFat(u, c, x, m) \in Q
    <2>1. /\ SetFat(u, c, x) \in Volumes
          /\ \A m \in 0 .. NumberOfFats : PartFat(u, c, x, m) \in Volumes
      BY <1>2, VolumesTame DEF Tame
    <2>2. SetFat(u, c, x).root = u.root /\ \A m : PartFat(u, c, x, m).root = u.root
      BY DEF SetFat, PartFat
    <2> QED
      BY <2>1, <2>2, <1>3
  <1>5. ASSUME NEW u \in Q, NEW c \in Clusters, NEW cells \in Seq(Contents)
        PROVE  After(u, AreaUpdate(c, cells)) \in Q
    <2>1. After(u, AreaUpdate(c, cells)) \in Volumes
      BY <1>2, VolumesTame DEF Tame
    <2>2. After(u, AreaUpdate(c, cells)).root = u.root
      BY DEF After, AreaUpdate
    <2> QED
      BY <2>1, <2>2, <1>3
  <1>6. ASSUME NEW u \in Q, NEW s \in S
        PROVE  After(u, s) \in Q
    <2>1. After(u, s) \in Volumes
      BY <1>2, VolumesTame DEF Tame
    <2>2. CASE s.dir # RootDir
      <3>1. After(u, s).root = u.root
        BY <2>2 DEF After
      <3> QED
        BY <2>1, <3>1, <1>3
    <2>3. CASE s.dir = RootDir
      <3>1. s.to = "slot" /\ s.slot = i /\ (IsLive(s.value) => s.value.name = n)
        BY <2>3, <1>1 DEF RootSlots, SlotUpdates
      <3>2. After(u, s).root = [u.root EXCEPT ![i] = s.value]
        BY <2>3, <3>1 DEF After
      <3>3. Once(u.root) /\ Alone(u.root, i, n)
        BY <1>1 DEF OnceRoot
      <3>4. Once(After(u, s).root) /\ Alone(After(u, s).root, i, n)
        BY <3>1, <3>2, <3>3, SlotOnce
      <3> QED
        BY <2>1, <3>4, <1>1 DEF OnceRoot
    <2> QED
      BY <2>2, <2>3
  <1> QED
    BY <1>1, <1>2, <1>4, <1>5, <1>6 DEF Tame

(* The slots that the handlers of p write, seen from the root directory.   *)
LEMMA RootSlotsAre ==
    ASSUME VolumeOK, NEW p \in Paths, NEW i, NEW n,
           ParentDir(p) = RootDir =>
             /\ Exists(p) => i = SlotIn(RootDir, p) /\ n = Last(p)
             /\ ~Exists(p) => i = FreeSlot(root) /\ n = format_to_fat_name(Last(p))
    PROVE  WritesSlots(p, RootSlots(i, n))
  <1>1. WritesSlots(p, SlotUpdates)
    BY SlotsAreUpdates
  <1>2. ASSUME MakeRefusal(p) = "ok", NEW dir \in BOOLEAN
        PROVE  NewSlot(p, dir) \in RootSlots(i, n)
    <2>1. PICK s : s = NewSlot(p, dir) /\ s \in SlotUpdates
      BY <1>1, <1>2 DEF WritesSlots
    <2>2. ~Exists(p)
      BY <1>2, MakeChecked
    <2>3. s.dir = RootDir => s.slot = i /\ s.value.name = n
      BY <2>1, <2>2 DEF NewSlot, SlotUpdate, NewEntry, read_directory
    <2> QED
      BY <2>1, <2>3 DEF RootSlots
  <1>3. ASSUME Exists(p), NEW x, OldSlot(p, x) \in SlotUpdates, IsLive(x) => x.name = Last(p)
        PROVE  OldSlot(p, x) \in RootSlots(i, n)
    <2>1. PICK s : s = OldSlot(p, x)
      OBVIOUS
    <2>2. s.dir = ParentDir(p) /\ s.slot = SlotIn(ParentDir(p), p) /\ s.value = x
      BY <2>1 DEF OldSlot, SlotUpdate
    <2>3. s.dir = RootDir => s.slot = i /\ (IsLive(s.value) => s.value.name = n)
      BY <2>2, <1>3
    <2> QED
      BY <2>1, <2>3, <1>3 DEF RootSlots
  <1>4. Exists(p) => OldSlot(p, NoEntry) \in RootSlots(i, n)
    <2>1. ~IsLive(NoEntry)
      BY DEF IsLive, IsEntry
    <2> QED
      BY <2>1, <1>1, <1>3 DEF WritesSlots
  <1>5. ASSUME open(p) = "ok", NEW c \in Clusters, NEW size \in Nat
        PROVE  NewFileSlot(p, Entry(p), c, size) \in RootSlots(i, n)
    <2>1. PICK e, x : e = Entry(p) /\ x = [e EXCEPT !.start = c, !.size = size]
      OBVIOUS
    <2>2. Exists(p) /\ e \in Entries /\ e.name = Last(p)
      BY <1>5, <2>1, EntryType DEF open
    <2>3. x.name = Last(p)
      BY <2>1, <2>2 DEF Entries
    <2>4. NewFileSlot(p, e, c, size) = OldSlot(p, x)
      BY <2>1 DEF NewFileSlot
    <2>5. OldSlot(p, x) \in SlotUpdates
      BY <2>1, <2>4, <1>1, <1>5 DEF WritesSlots
    <2>6. OldSlot(p, x) \in RootSlots(i, n)
      BY <2>2, <2>3, <2>5, <1>3
    <2> QED
      BY <2>1, <2>4, <2>6
  <1> QED
    BY <1>2, <1>4, <1>5 DEF WritesSlots

LEMMA RootAlone ==
    ASSUME VolumeOK, Once(root), NEW p \in Paths
    PROVE  \E i, n : Disk \in OnceRoot(i, n) /\ WritesSlots(p, RootSlots(i, n))
  <1>1. PICK m \in Nat : m = Len(root) /\ DOMAIN root = 1 .. m
    <2>1. read_directory(RootDir) \in Seq(Contents)
      BY CellsType
    <2>2. root \in Seq(Contents)
      BY <2>1 DEF read_directory
    <2> QED
      BY <2>2
  <1>2. Disk \in Volumes /\ Disk.root = root
    BY DEF VolumeOK, Disk
  <1>3. ASSUME NEW i, NEW n, Alone(root, i, n),
               ParentDir(p) = RootDir =>
                 /\ Exists(p) => i = SlotIn(RootDir, p) /\ n = Last(p)
                 /\ ~Exists(p) => i = FreeSlot(root) /\ n = format_to_fat_name(Last(p))
        PROVE  Disk \in OnceRoot(i, n) /\ WritesSlots(p, RootSlots(i, n))
    BY <1>2, <1>3, RootSlotsAre DEF OnceRoot
  <1>4. CASE ParentDir(p) # RootDir
    <2>1. PICK i, n : i = 0 /\ n = Dot
      OBVIOUS
    <2>2. Alone(root, i, n)
      BY <2>1 DEF Alone, IsLive
    <2> QED
      BY <2>2, <1>3, <1>4
  <1>5. CASE ParentDir(p) = RootDir /\ Exists(p)
    <2>1. PICK i, n : i = SlotIn(RootDir, p) /\ n = Last(p)
      OBVIOUS
    <2>2. i \in 1 .. m /\ root[i] = Entry(p) /\ IsEntry(root[i]) /\ root[i].name = n
      BY <2>1, <1>1, <1>5, EntryType DEF Entry, read_directory
    <2>3. n \notin {Dot, DotDot}
      <3>1. Last(p) = p[Len(p)] /\ Len(p) \in 1 .. Len(p)
        BY PathIs
      <3> QED
        BY <2>1, <3>1, PathIs
    <2>4. Alone(root, i, n)
      <3>1. IsLive(root[i])
        BY <2>2, <2>3 DEF IsLive
      <3> QED
        BY <3>1, <2>2, <1>1 DEF Alone, Once
    <2> QED
      BY <2>1, <2>4, <1>3, <1>5
  <1>6. CASE ParentDir(p) = RootDir /\ ~Exists(p)
    <2>1. PICK i, n : i = FreeSlot(root) /\ n = format_to_fat_name(Last(p))
      OBVIOUS
    <2>2. find_entry_by_name(root, Last(p)) = 0
      BY <1>6 DEF Exists, SlotIn, read_directory, RootDir, Lost
    <2>3. n \in LongForms \/ \A j \in 1 .. m : ~(IsEntry(root[j]) /\ root[j].name = n)
      BY <2>1, <2>2, <1>1, NameLookedUp
    <2>4. Alone(root, i, n)
      BY <2>3, <1>1 DEF Alone, IsLive
    <2> QED
      BY <2>1, <2>4, <1>3, <1>6
  <1> QED
    BY <1>4, <1>5, <1>6

(* The inductive invariant of the root directory: it holds at a kill, and  *)
(* nothing but the root directory is needed to keep it.                    *)
RootInv == \E i, n, w : Running(w, OnceRoot(i, n))

LEMMA RootNow ==
    ASSUME RootInv
    PROVE  VolumeOK /\ Once(root)
  <1>1. PICK i, n, w : Running(w, OnceRoot(i, n))
    BY DEF RootInv
  <1>2. Disk \in OnceRoot(i, n)
    BY <1>1, RunningIn
  <1> QED
    BY <1>2 DEF OnceRoot, VolumeOK, Disk

LEMMA RootRests ==
    ASSUME RootInv, Disk' = Disk, pending' = <<>>
    PROVE  RootInv'
  <1>1. PICK i, n, w : Running(w, OnceRoot(i, n))
    BY DEF RootInv
  <1>2. PICK P, v : P = OnceRoot(i, n) /\ v = Disk' /\ v \in P
    BY <1>1, RunningIn
  <1>3. Running(v, P)'
    BY <1>2, RunningRests
  <1>4. Running(v, OnceRoot(i, n))'
    BY <1>2, <1>3 DEF OnceRoot
  <1> QED
    BY <1>4 DEF RootInv

LEMMA RootInit ==
    ASSUME Init
    PROVE  RootInv
  <1>1. Disk \in Volumes
    BY FormattedOK DEF Init, VolumeOK
  <1>2. \A j \in DOMAIN Disk.root : ~IsLive(Disk.root[j])
    BY DEF Init, FormattedVolume, Disk, IsLive, IsEntry
  <1>3. PICK i, n : i = 0 /\ n = 0
    OBVIOUS
  <1>4. Disk \in OnceRoot(i, n)
    BY <1>1, <1>2 DEF OnceRoot, Once, Alone
  <1>5. Running(Disk, OnceRoot(i, n))
    BY <1>4, RunningRest DEF Init
  <1> QED
    BY <1>5 DEF RootInv

LEMMA RootNext ==
    ASSUME RootInv, [Next]_vars
    PROVE  RootInv'
  <1>1. PICK i, n, w : Running(w, OnceRoot(i, n))
    BY DEF RootInv
  <1>2. VolumeOK /\ Once(root)
    BY RootNow
  <1>3. ASSUME NEW k, NEW m, NEW P, P = OnceRoot(k, m), NEW x, Running(x, P)'
        PROVE  RootInv'
    <2>1. Running(x, OnceRoot(k, m))'
      BY <1>3 DEF OnceRoot
    <2> QED
      BY <2>1 DEF RootInv
  <1>4. PICK P : P = OnceRoot(i, n) /\ Running(w, P)
    BY <1>1
  <1>5. CASE UNCHANGED vars
    <2>1. Disk' = Disk /\ pending' = pending
      BY <1>5 DEF vars, volume, Disk
    <2>2. Running(w, P)'
      BY <2>1, <1>4 DEF Running, Owes
    <2> QED
      BY <2>2, <1>3, <1>4
  <1>6. ASSUME NEW p \in Paths,
               \/ create(p)
               \/ mkdir(p)
               \/ rmdir(p)
               \/ unlink(p)
               \/ \E buf \in DataChoices, offset \in OffsetChoices : write(p, buf, offset)
        PROVE  RootInv'
    <2>1. PICK k, m : Disk \in OnceRoot(k, m) /\ WritesSlots(p, RootSlots(k, m))
      BY <1>2, <1>6, RootAlone
    <2>2. PICK Q, S : /\ Q = OnceRoot(k, m) /\ S = RootSlots(k, m)
                      /\ Tame(Q, Q, Clusters, S)
      BY RootTame
    <2>3. \E x \in Q : Running(x, Q)'
      BY <2>1, <2>2, <1>2, <1>6, HandlersKeep
    <2> QED
      BY <2>2, <2>3, <1>3
  <1>7. CASE Flush
    <2>1. Running(w, P)'
      BY <1>4, <1>7, RunningFlush
    <2> QED
      BY <2>1, <1>3, <1>4
  <1>8. CASE Return \/ Crash
    <2>1. Disk' = Disk /\ pending' = <<>>
      BY <1>8 DEF Return, Crash, Disk, volume
    <2> QED
      BY <2>1, RootRests
  <1> QED
    BY <1>5, <1>6, <1>7, <1>8, NextSteps

(* Between calls a name comes twice in a directory only when it is the cut *)
(* form of one that does not fit 8.3 (fat_fuse.c:493 and :899 look a name  *)
(* up before :558 and :964 store its cut form): in every directory up to   *)
(* the first kill, in the root directory after any number of kills.        *)
THEOREM Uniqueness == Spec => []UniqueNames
  <1>1. Init => SoundInv /\ RootInv
    BY SoundInit, RootInit
  <1>2. SoundInv /\ RootInv /\ [Next]_vars => SoundInv' /\ RootInv'
    BY SoundNext, RootNext
  <1>3. SoundInv /\ RootInv => UniqueNames
    <2> SUFFICES ASSUME SoundInv, RootInv, Idle, NEW d \in LiveDirs,
                        crashes = 0 \/ d = RootDir
                 PROVE  \A j, k \in DOMAIN readdir(d) :
                           readdir(d)[j] = readdir(d)[k]
                             => j = k \/ readdir(d)[j] \in LongForms
      BY DEF UniqueNames
    <2>1. VolumeOK /\ Once(root)
      BY RootNow
    <2>2. Once(read_directory(d))
      <3>1. CASE d = RootDir
        BY <2>1, <3>1 DEF read_directory
      <3>2. CASE d # RootDir
        <4>1. PICK DS, path : Good(Disk, DS, path) /\ NamedOnce(Disk, DS)
          BY <3>2, SoundIdle
        <4>2. PICK u : u = Disk
          OBVIOUS
        <4>3. d \in DS /\ read_directory(d) = Slots(u, d)
          BY <4>1, <4>2, LiveDirsIn, DirectoryIs
        <4>4. u \in Volumes /\ d \in Clusters \cup {RootDir}
          BY <4>1, <4>2, <4>3 DEF Good
        <4> QED
          BY <4>1, <4>2, <4>3, <4>4, SlotsOnce
      <3> QED
        BY <3>1, <3>2
    <2>3. read_directory(d) \in Seq(Contents)
      BY <2>1, CellsType
    <2> QED
      BY <2>2, <2>3, OnceListed
  <1> QED
    BY <1>1, <1>2, <1>3, PTL DEF Spec

-----------------------------------------------------------------------------
(* Clusters that no entry reaches.                                         *)

(* Only the end of a call changes leaked.                                  *)
LEMMA ReturnFinds ==
    ASSUME [Next]_vars, ~Idle, Idle', crashes \in Nat, crashes' = 0
    PROVE  leaked' = leaked \/ (Return /\ crashes = 0)
  <1>1. ASSUME NEW p, create(p) \/ mkdir(p) \/ rmdir(p) \/ unlink(p)
                      \/ \E buf, offset : write(p, buf, offset)
        PROVE  FALSE
    BY <1>1 DEF create, mkdir, rmdir, unlink, write, Answer
  <1>2. ~Crash
    BY DEF Crash
  <1>3. Flush \/ UNCHANGED vars => leaked' = leaked
    BY DEF Flush, vars
  <1>4. Return => crashes = 0
    BY DEF Return
  <1> QED
    BY <1>1, <1>2, <1>3, <1>4, NextSteps

(* Where the paths have names that fit an 8.3 entry, a call that was not   *)
(* killed leaves clusters without an entry only in write (fat_fuse.c:735,  *)
(* or on a full disk), and no call gives one back.                         *)
THEOREM Leaks ==
    ASSUME ShortNames
    PROVE  Spec => LeaksOnlyInWrite
  <1>1. Init => StoreInv
    BY StoreInit
  <1>2. StoreInv /\ [Next]_vars => StoreInv'
    BY StoreNext
  <1>3. StoreInv /\ [Next]_vars =>
          [ ~Idle /\ Idle' /\ crashes' = 0 =>
              \/ leaked' = leaked
              \/ /\ call.op = "write"
                 /\ leaked \subseteq leaked'
                 /\ \/ reply' = "ENOSPC"
                    \/ Len(view'[call.path].data)
                         = Len(view[call.path].data) ]_vars
    <2> SUFFICES ASSUME StoreInv, [Next]_vars, ~Idle, Idle', crashes' = 0,
                        leaked' # leaked
                 PROVE  /\ call.op = "write"
                        /\ leaked \subseteq leaked'
                        /\ \/ reply' = "ENOSPC"
                           \/ Len(view'[call.path].data)
                                = Len(view[call.path].data)
      OBVIOUS
    <2>1. Return /\ crashes = 0
      BY ReturnFinds DEF StoreInv
    <2>2. PICK P, V : P = Volumes /\ V = view /\ Leading(P, V)
      BY <2>1 DEF StoreInv
    <2>3. Wastes(leaked, leaked', V, view', call.op, call.path, reply')
      BY <2>1, <2>2, LeadingReturn
    <2> QED
      BY <2>2, <2>3 DEF Wastes
  <1> QED
    BY <1>1, <1>2, <1>3, PTL DEF Spec, LeaksOnlyInWrite

=============================================================================
