--------------------------- MODULE FatShell_proofs ---------------------------
(***************************************************************************)
(* What the commands of the shell keep: each file lies on its own path of  *)
(* clusters and holds there what write read, and the writes still owed     *)
(* lead to such a volume again.                                            *)
(***************************************************************************)
EXTENDS FatShell, FatDisk_proofs

(* The directories of the image.                                           *)
Dirs == {RootDir, 2}

(* The slots of the directories of volume u that hold entries.             *)
Filled(u) == {r \in Dirs \X Nat : r[2] \in DOMAIN Slots(u, r[1]) /\ IsEntry(At(u, r))}

Files(u) == {r \in Filled(u) : ~At(u, r).dir}

(* What write names its files: cut to 8.3.                                 *)
FileName(name) == name \notin {Dot, DotDot} /\ format_to_fat_name(name) = name

(* Its directories are in place and hold files and each other.             *)
Furnished(u) ==
    /\ u \in Volumes
    /\ u.fat[1][2] = EOC
    /\ u.root[1] = DirEntry(Dir, 2)
    /\ Len(u.area[2]) = DirEntriesPerCluster
    /\ \A r \in Filled(u) : IF At(u, r).dir THEN At(u, r).start \in Dirs
                                            ELSE FileName(At(u, r).name)

(* The first clusters of p, linked in this order, hold data; marked: the   *)
(* chain ends there.                                                       *)
Holds(u, e, p, data, marked) ==
    /\ e.size = Len(data) /\ data \in Seq(Units)
    /\ p \in Seq(Clusters \ {2})
    /\ p # <<>> => p[1] = e.start
    /\ \A i, j \in 1 .. Len(p) : p[i] = p[j] => i = j
    /\ \A i \in 1 .. Len(p) - 1 : u.fat[1][p[i]] = p[i + 1]
    /\ \A i \in 1 .. Len(p) : u.fat[1][p[i]] # Free /\ Len(u.area[p[i]]) = ClusterSize
    /\ Len(data) <= Len(p) * ClusterSize
    /\ \A i \in 1 .. Len(p), j \in 1 .. ClusterSize :
          Place(i, j) <= Len(data) => u.area[p[i]][j] = data[Place(i, j)]
    /\ marked => p # <<>> /\ u.fat[1][p[Len(p)]] = EOC

(* Every file of u holds what I says, on a path of its own; those in U     *)
(* have no end.                                                            *)
Kept(u, path, I, U) ==
    /\ Furnished(u)
    /\ Files(u) \subseteq DOMAIN I
    /\ \A r \in Files(u) : Holds(u, At(u, r), path[r], I[r], r \notin U)
    /\ Apart(path, Files(u))

Harmless(I, U) == {u \in Volumes : \E path : Kept(u, path, I, U)}

(* The volumes the image may go through before the running command is done. *)
Track(q, I, U) == IF q # <<>> /\ Last(q).value # NoEntry THEN Harmless(I, U) ELSE Volumes

Arrives(q, v, I, U) ==
    \E w, path : /\ Kept(w, path, I, U) /\ Files(w) = DOMAIN I
                 /\ q \in Seq(Updates)
                 /\ Runs(q, v, w, Track(q, I, U))

ShellInv ==
    ~spoilt => current_dir \in Dirs /\ Arrives(pending, Disk, input, unmarked)

-----------------------------------------------------------------------------
(* The directories.                                                        *)

LEMMA DirsAre ==
    /\ Dirs \subseteq Clusters \cup {RootDir}
    /\ RootDir \in Dirs /\ 2 \in Dirs /\ 2 \in Clusters /\ 2 # RootDir
    /\ DirEntry(Dir, 2) \in Entries /\ IsLive(DirEntry(Dir, 2))
    /\ DirEntry(Dir, 2).dir /\ DirEntry(Dir, 2).start = 2
    /\ NoEntry \in Contents /\ ~IsEntry(NoEntry) /\ DirEntry(Dir, 2) # NoEntry
  <1>1. 2 \in Clusters /\ 2 # RootDir
    BY Geometry, ShellAssumption DEF Clusters, RootDir
  <1>2. DirEntry(Dir, 2) \in Entries /\ DirEntry(Dir, 2).name \notin {Dot, DotDot}
    BY ShellAssumption DEF DirEntry, Entries
  <1>3. IsLive(DirEntry(Dir, 2))
    BY <1>2, EntryIsLive
  <1>4. NoEntry \in Contents /\ ~IsEntry(NoEntry)
    BY DEF Contents, IsEntry
  <1>5. DirEntry(Dir, 2).dir /\ DirEntry(Dir, 2).start = 2
    BY DEF DirEntry
  <1> QED
    BY <1>1, <1>2, <1>3, <1>4, <1>5 DEF Dirs, IsLive

LEMMA FilledType ==
    ASSUME NEW u \in Volumes, NEW r \in Filled(u)
    PROVE  /\ At(u, r) \in Entries /\ IsEntry(At(u, r))
           /\ r[1] \in Dirs /\ r[2] \in 1 .. Len(Slots(u, r[1])) /\ r[2] \in Nat
           /\ r = <<r[1], r[2]>> /\ At(u, r) = Slots(u, r[1])[r[2]]
  <1>1. r \in Dirs \X Nat /\ r[2] \in DOMAIN Slots(u, r[1]) /\ IsEntry(At(u, r))
    BY DEF Filled
  <1>2. r[1] \in Clusters \cup {RootDir}
    BY <1>1, DirsAre
  <1>3. /\ Slots(u, r[1]) \in Seq(Contents)
        /\ DOMAIN Slots(u, r[1]) = 1 .. Len(Slots(u, r[1]))
    BY <1>2, SlotsType
  <1>4. At(u, r) = Slots(u, r[1])[r[2]]
    BY DEF At
  <1>5. At(u, r) \in Contents
    BY <1>1, <1>3, <1>4
  <1>6. At(u, r) \in Entries
    BY <1>1, <1>5, EntryCell
  <1> QED
    BY <1>1, <1>3, <1>4, <1>6

LEMMA DirectoryIsSlots ==
    ASSUME Furnished(Disk), NEW d \in Dirs
    PROVE  read_directory(d) = Slots(Disk, d)
  <1>1. CASE d = RootDir
    BY <1>1 DEF read_directory, Slots, Disk
  <1>2. CASE d # RootDir
    <2> DEFINE p == <<2>>
    <2>1. d = 2
      BY <1>2 DEF Dirs
    <2>2. OnPath(Disk, p, 2) /\ Len(p) = 1
      <3>1. p \in Seq(Clusters) /\ Len(p) = 1 /\ p[1] = 2 /\ p # <<>>
        BY DirsAre
      <3>2. Disk.fat[1][2] = EOC
        BY DEF Furnished
      <3> HIDE DEF p
      <3> QED
        BY <3>1, <3>2 DEF OnPath
    <2> HIDE DEF p
    <2>3. VolumeOK
      BY DEF Furnished, VolumeOK
    <2>4. read_directory(2) = Slots(Disk, 2)
      BY <2>2, <2>3, DirsAre, OneClusterCells
    <2> QED
      BY <2>1, <2>4
  <1> QED
    BY <1>1, <1>2

(* A name that a directory holds.                                          *)
LEMMA FoundFilled ==
    ASSUME Furnished(Disk), NEW d \in Dirs, NEW name,
           NEW i, i = find_entry_by_name(read_directory(d), name), i # 0
    PROVE  /\ <<d, i>> \in Filled(Disk)
           /\ read_directory(d)[i] = At(Disk, <<d, i>>)
  <1>1. VolumeOK
    BY DEF Furnished, VolumeOK
  <1>2. read_directory(d) = Slots(Disk, d)
    BY DirectoryIsSlots
  <1>3. /\ Len(Slots(Disk, d)) \in Nat
        /\ DOMAIN Slots(Disk, d) = 1 .. Len(Slots(Disk, d))
    BY <1>1, DirsAre, SlotsType DEF VolumeOK
  <1>4. i \in 0 .. Len(Slots(Disk, d)) /\ IsEntry(Slots(Disk, d)[i])
    BY <1>1, <1>2, FoundInDirectory
  <1>5. i \in DOMAIN Slots(Disk, d) /\ i \in Nat
    BY <1>3, <1>4
  <1> DEFINE r == <<d, i>>
  <1>6. r[1] = d /\ r[2] = i /\ r \in Dirs \X Nat
    BY <1>5
  <1>7. At(Disk, r) = Slots(Disk, d)[i]
    BY <1>6 DEF At
  <1> HIDE DEF r
  <1>8. r \in Filled(Disk)
    BY <1>4, <1>5, <1>6, <1>7 DEF Filled
  <1> QED
    BY <1>2, <1>7, <1>8 DEF r

LEMMA EnterDirs ==
    ASSUME Furnished(Disk), NEW d \in Dirs, NEW name
    PROVE  Enter(d, name) \in Dirs \cup {Lost}
  <1> DEFINE i == find_entry_by_name(read_directory(d), name)
  <1>1. Enter(d, name) =
          IF name = Dot \/ (name = DotDot /\ d = RootDir) THEN d
          ELSE IF i # 0 /\ read_directory(d)[i].dir THEN read_directory(d)[i].start
          ELSE IF name = DotDot THEN RootDir ELSE Lost
    BY DEF Enter
  <1>2. i # 0 /\ read_directory(d)[i].dir => read_directory(d)[i].start \in Dirs
    <2> SUFFICES ASSUME i # 0, read_directory(d)[i].dir
                 PROVE  read_directory(d)[i].start \in Dirs
      OBVIOUS
    <2>1. /\ <<d, i>> \in Filled(Disk)
          /\ read_directory(d)[i] = At(Disk, <<d, i>>)
      BY FoundFilled
    <2> HIDE DEF i
    <2> QED
      BY <2>1 DEF Furnished
  <1> HIDE DEF i
  <1> QED
    BY <1>1, <1>2, DirsAre

LEMMA ChangeDirDirs ==
    ASSUME Furnished(Disk), NEW d \in Dirs, NEW tokens, tokens \in Seq(Names)
    PROVE  change_dir(d, tokens) \in Dirs \cup {Lost}
  <1>1. PICK n \in Nat : Len(tokens) = n /\ DOMAIN tokens = 1 .. n
    OBVIOUS
  <1>2. PICK walk :
          /\ walk[0] = d
          /\ \A k \in 1 .. n : walk[k] = Walked(walk[k - 1], tokens[k])
          /\ change_dir(d, tokens) = walk[n]
    BY <1>1, ChangeDirIs
  <1> DEFINE T == {k \in 0 .. n : walk[k] \in Dirs \cup {Lost}}
  <1>3. 0 \in T
    BY <1>2
  <1>4. ASSUME NEW k \in 0 .. n - 1, k \in T
        PROVE  k + 1 \in T
    <2>1. k + 1 \in 1 .. n /\ (k + 1) - 1 = k /\ k + 1 \in 0 .. n
      OBVIOUS
    <2>2. walk[k + 1] = Walked(walk[k], tokens[k + 1])
      BY <2>1, <1>2
    <2>3. walk[k] \in Dirs \cup {Lost}
      BY <1>4
    <2>4. walk[k + 1] \in Dirs \cup {Lost}
      BY <2>2, <2>3, EnterDirs DEF Walked
    <2> QED
      BY <2>1, <2>4
  <1> HIDE DEF T
  <1>5. n \in T
    <2>1. \A k \in 0 .. n : k \in T
      BY <1>3, <1>4, UpTo
    <2>2. n \in 0 .. n
      OBVIOUS
    <2> QED
      BY <2>1, <2>2
  <1> QED
    BY <1>2, <1>5 DEF T

LEMMA LiveDirsAre ==
    ASSUME Furnished(Disk)
    PROVE  LiveDirs = Dirs
  <1>1. ASSUME NEW d \in Dirs
        PROVE  SubdirsOf(d) \subseteq Dirs
    <2>1. read_directory(d) = Slots(Disk, d)
      BY DirectoryIsSlots
    <2>2. /\ Slots(Disk, d) \in Seq(Contents)
          /\ DOMAIN Slots(Disk, d) = 1 .. Len(Slots(Disk, d))
          /\ Len(Slots(Disk, d)) \in Nat
      BY DirsAre, SlotsType DEF Furnished
    <2> SUFFICES ASSUME NEW c \in SubdirsOf(d)
                 PROVE  c \in Dirs
      OBVIOUS
    <2>3. PICK i \in DOMAIN Slots(Disk, d) :
            /\ IsEntry(Slots(Disk, d)[i]) /\ Slots(Disk, d)[i].dir
            /\ c = Slots(Disk, d)[i].start
      BY <2>1, <2>2 DEF SubdirsOf, ToSet
    <2> DEFINE r == <<d, i>>
    <2>4. r[1] = d /\ r[2] = i /\ r \in Dirs \X Nat
      BY <2>2
    <2>5. At(Disk, r) = Slots(Disk, d)[i]
      BY <2>4 DEF At
    <2> HIDE DEF r
    <2>6. r \in Filled(Disk)
      BY <2>3, <2>4, <2>5 DEF Filled
    <2> QED
      BY <2>3, <2>5, <2>6 DEF Furnished
  <1>2. \E f : Descends(f, Dirs)
    BY <1>1, DirsAre, LiveDirsDescend
  <1>3. PICK f : Descends(f, Dirs)
    BY <1>2
  <1>4. /\ f \in [0 .. TotalClusters -> SUBSET Dirs]
        /\ f[0] = {RootDir}
        /\ \A k \in 1 .. TotalClusters : f[k] = Below(f[k - 1])
        /\ LiveDirs = f[TotalClusters]
    BY <1>3 DEF Descends
  <1>5. 2 \in SubdirsOf(RootDir)
    <2>1. root[1] = DirEntry(Dir, 2) /\ root \in [1 .. RootDirEntries -> Contents]
      BY DEF Furnished, Disk, Volumes, Disks
    <2>2. 1 \in DOMAIN root
      BY <2>1, Geometry
    <2>3. DirEntry(Dir, 2) \in ToSet(read_directory(RootDir))
      BY <2>1, <2>2 DEF ToSet, read_directory
    <2>4. /\ IsEntry(DirEntry(Dir, 2)) /\ DirEntry(Dir, 2).dir
          /\ DirEntry(Dir, 2).name \notin {Dot, DotDot}
          /\ DirEntry(Dir, 2).start = 2
      BY DirsAre DEF IsLive
    <2> QED
      BY <2>3, <2>4 DEF SubdirsOf
  <1> DEFINE T == {k \in 0 .. TotalClusters : RootDir \in f[k] /\ (k # 0 => 2 \in f[k])}
  <1>6. 0 \in T
    BY <1>4, Geometry
  <1>7. ASSUME NEW k \in 0 .. TotalClusters - 1, k \in T
        PROVE  k + 1 \in T
    <2>1. k + 1 \in 1 .. TotalClusters /\ (k + 1) - 1 = k /\ k + 1 \in 0 .. TotalClusters
      BY Geometry
    <2>2. f[k + 1] = Below(f[k])
      BY <2>1, <1>4
    <2>3. RootDir \in f[k]
      BY <1>7
    <2>4. RootDir \in f[k + 1] /\ 2 \in f[k + 1]
      BY <2>2, <2>3, <1>5 DEF Below
    <2> QED
      BY <2>1, <2>4
  <1> HIDE DEF T
  <1>8. TotalClusters \in T /\ TotalClusters # 0
    <2>1. \A k \in 0 .. TotalClusters : k \in T
      BY <1>6, <1>7, UpTo, Geometry
    <2>2. TotalClusters \in 0 .. TotalClusters /\ TotalClusters # 0
      BY Geometry, ShellAssumption
    <2> QED
      BY <2>1, <2>2
  <1>9. Dirs \subseteq f[TotalClusters]
    BY <1>8 DEF T, Dirs
  <1>10. f[TotalClusters] \subseteq Dirs
    <2>1. TotalClusters \in 0 .. TotalClusters
      BY Geometry
    <2> QED
      BY <2>1, <1>4
  <1> QED
    BY <1>4, <1>9, <1>10

(* The files the commands see are those of the directories.                *)
LEMMA LiveFilesAre ==
    ASSUME Furnished(Disk)
    PROVE  /\ LiveFiles = Files(Disk)
           /\ \A ref \in Files(Disk) : EntryAt(ref) = At(Disk, ref)
  <1>1. ASSUME NEW ref \in Dirs \X Nat
        PROVE  /\ read_directory(ref[1]) = Slots(Disk, ref[1])
               /\ EntryAt(ref) = At(Disk, ref)
    <2>1. ref[1] \in Dirs
      OBVIOUS
    <2>2. read_directory(ref[1]) = Slots(Disk, ref[1])
      BY <2>1, DirectoryIsSlots
    <2> QED
      BY <2>2 DEF EntryAt, At
  <1>2. Files(Disk) \subseteq Dirs \X Nat
    BY DEF Files, Filled
  <1>3. ASSUME NEW ref \in LiveFiles
        PROVE  ref \in Files(Disk)
    <2>1. /\ ref \in LiveDirs \X (1 .. RootDirEntries + DirEntriesPerCluster)
          /\ ref[2] \in DOMAIN read_directory(ref[1])
          /\ IsEntry(read_directory(ref[1])[ref[2]])
          /\ ~EntryAt(ref).dir
      BY DEF LiveFiles, LiveEntries
    <2>2. RootDirEntries + DirEntriesPerCluster \in Nat
      BY Geometry
    <2>3. ref \in Dirs \X Nat
      BY <2>1, <2>2, LiveDirsAre
    <2> QED
      BY <2>1, <2>3, <1>1 DEF Files, Filled, EntryAt
  <1>4. ASSUME NEW ref \in Files(Disk)
        PROVE  ref \in LiveFiles
    <2>1. /\ ref \in Filled(Disk) /\ ~At(Disk, ref).dir /\ ref \in Dirs \X Nat
          /\ ref[2] \in DOMAIN Slots(Disk, ref[1])
      BY DEF Files, Filled
    <2>2. At(Disk, ref).name \notin {Dot, DotDot}
      BY <2>1 DEF Furnished, FileName
    <2>3. Disk \in Volumes
      BY DEF Furnished
    <2>4. ref[2] \in 1 .. Len(Slots(Disk, ref[1])) /\ ref[2] \in Nat /\ ref[1] \in Dirs
      BY <2>1, <2>3, FilledType
    <2>5. ref[2] \in 1 .. RootDirEntries + DirEntriesPerCluster
      <3>1. CASE ref[1] = RootDir
        <4>1. Slots(Disk, ref[1]) = root /\ root \in [1 .. RootDirEntries -> Contents]
          BY <3>1, <2>3 DEF Slots, Disk, Volumes, Disks
        <4>2. DOMAIN root = 1 .. RootDirEntries
          BY <4>1
        <4>3. ref[2] \in 1 .. RootDirEntries
          BY <4>1, <4>2, <2>1
        <4> QED
          BY <4>3, Geometry
      <3>2. CASE ref[1] # RootDir
        <4>1. Slots(Disk, ref[1]) = Disk.area[2]
          BY <3>2, <2>4 DEF Slots, Dirs
        <4>2. Len(Slots(Disk, ref[1])) = DirEntriesPerCluster
          BY <4>1 DEF Furnished
        <4> QED
          BY <4>2, <2>4, Geometry
      <3> QED
        BY <3>1, <3>2
    <2>6. ref \in LiveDirs \X (1 .. RootDirEntries + DirEntriesPerCluster)
      BY <2>1, <2>4, <2>5, LiveDirsAre
    <2>7. read_directory(ref[1])[ref[2]] = At(Disk, ref)
      BY <2>1, <1>1 DEF EntryAt
    <2>8. IsEntry(At(Disk, ref))
      BY <2>1 DEF Filled
    <2>9. ref \in LiveEntries
      BY <2>1, <2>2, <2>6, <2>7, <2>8, <1>1 DEF LiveEntries
    <2> QED
      BY <2>1, <2>9, <1>1 DEF LiveFiles
  <1> QED
    BY <1>1, <1>2, <1>3, <1>4

-----------------------------------------------------------------------------
(* What a file that is held reads like.                                    *)

LEMMA HoldsReads ==
    ASSUME VolumeOK, NEW e, NEW p, NEW data, NEW marked,
           Holds(Disk, e, p, data, marked)
    PROVE  /\ FileContent(e, e.size, Junk) = data
           /\ marked => OnPath(Disk, p, e.start)
  <1>1. /\ e.size = Len(data) /\ data \in Seq(Units)
        /\ p \in Seq(Clusters \ {2})
        /\ p # <<>> => p[1] = e.start
        /\ \A i, j \in 1 .. Len(p) : p[i] = p[j] => i = j
        /\ \A i \in 1 .. Len(p) - 1 : fat[1][p[i]] = p[i + 1]
        /\ \A i \in 1 .. Len(p) : fat[1][p[i]] # Free /\ Len(area[p[i]]) = ClusterSize
        /\ Len(data) <= Len(p) * ClusterSize
        /\ \A i \in 1 .. Len(p), j \in 1 .. ClusterSize :
              Place(i, j) <= Len(data) => area[p[i]][j] = data[Place(i, j)]
        /\ marked => p # <<>> /\ fat[1][p[Len(p)]] = EOC
    BY DEF Holds, Disk
  <1>2. p \in Seq(Clusters)
    BY <1>1
  <1>3. p # <<>> => IsPath(p, e.start)
    BY <1>1, <1>2 DEF IsPath, get_fat_entry
  <1>4. PICK m \in Nat : m = Len(p)
    BY <1>2
  <1>5. PICK cells : cells = Cells(e.start)
    OBVIOUS
  <1>6. /\ m * ClusterSize <= Len(cells)
        /\ \A i \in 1 .. m, j \in 1 .. ClusterSize : cells[Place(i, j)] = area[p[i]][j]
    <2>1. \A i \in 1 .. Len(p) : Len(area[p[i]]) = ClusterSize
      BY <1>1
    <2> QED
      BY <2>1, <1>2, <1>3, <1>4, <1>5, CellsStart
  <1>7. cells \in Seq(Contents)
    BY <1>5, CellsType
  <1>8. PICK n \in Nat : n = Len(data) /\ data = [k \in 1 .. n |-> data[k]]
    <2>1. Len(data) \in Nat /\ data = [k \in 1 .. Len(data) |-> data[k]]
      BY <1>1
    <2> QED
      BY <2>1
  <1>9. ASSUME NEW k \in 1 .. n
        PROVE  k <= e.size /\ k <= Len(cells) /\ cells[k] = data[k]
    <2>1. m * ClusterSize \in Nat /\ Len(cells) \in Nat /\ n <= m * ClusterSize
      BY <1>1, <1>4, <1>7, <1>8, Multiples
    <2>2. k \in 1 .. m * ClusterSize
      BY <2>1
    <2>3. PICK i \in 1 .. m, j \in 1 .. ClusterSize : k = Place(i, j)
      BY <2>2, PlaceOf
    <2>4. cells[k] = area[p[i]][j]
      BY <2>3, <1>6
    <2>5. Place(i, j) <= Len(data)
      BY <2>3, <1>8
    <2>6. area[p[i]][j] = data[k]
      BY <2>3, <2>5, <1>1, <1>4
    <2> QED
      BY <2>1, <2>4, <2>6, <1>1, <1>6, <1>8
  <1>10. FileContent(e, e.size, Junk) =
           [k \in 1 .. e.size |->
              IF k <= e.size /\ k <= Len(cells) THEN cells[k] ELSE Junk]
    BY <1>5 DEF FileContent
  <1>11. FileContent(e, e.size, Junk) = [k \in 1 .. n |-> data[k]]
    <2>1. e.size = n
      BY <1>1, <1>8
    <2> QED
      BY <2>1, <1>9, <1>10
  <1>12. marked => OnPath(Disk, p, e.start)
    BY <1>1, <1>2 DEF OnPath, Disk
  <1> QED
    BY <1>8, <1>11, <1>12

LEMMA KeptReads ==
    ASSUME NEW path, NEW I, NEW U, Kept(Disk, path, I, U)
    PROVE  /\ LiveFiles = Files(Disk)
           /\ \A ref \in LiveFiles : slotContent(ref) = I[ref]
  <1>1. Furnished(Disk) /\ VolumeOK
    BY DEF Kept, Furnished, VolumeOK
  <1>2. /\ LiveFiles = Files(Disk)
        /\ \A ref \in Files(Disk) : EntryAt(ref) = At(Disk, ref)
    BY <1>1, LiveFilesAre
  <1>3. ASSUME NEW ref \in Files(Disk)
        PROVE  slotContent(ref) = I[ref]
    <2>1. PICK e : e = At(Disk, ref)
      OBVIOUS
    <2>2. PICK marked : marked = (ref \notin U)
      OBVIOUS
    <2>3. Holds(Disk, e, path[ref], I[ref], marked)
      BY <2>1, <2>2 DEF Kept
    <2>4. FileContent(e, e.size, Junk) = I[ref]
      BY <2>3, <1>1, HoldsReads
    <2>5. EntryAt(ref) = e
      BY <2>1, <1>2
    <2> QED
      BY <2>4, <2>5 DEF slotContent
  <1> QED
    BY <1>2, <1>3

-----------------------------------------------------------------------------
(* The clusters that write fills.                                          *)

(* Volumes that differ from v in the clusters of C only.                   *)
OffSame(v, C) ==
    {u \in Volumes : /\ u.root = v.root
                     /\ \A c \in Clusters \ C : /\ u.fat[1][c] = v.fat[1][c]
                                                /\ u.area[c] = v.area[c]}

LEMMA OffSameTame ==
    ASSUME NEW v \in Volumes, NEW C, C \subseteq Clusters
    PROVE  v \in OffSame(v, C) /\ Tame(OffSame(v, C), OffSame(v, C), C, {})
  <1> DEFINE Q == OffSame(v, C)
  <1>1. Q \subseteq Volumes /\ v \in Q
    BY DEF OffSame
  <1>2. ASSUME NEW u \in Q, NEW c \in C, NEW w \in Volumes, w.root = u.root,
               \A b \in Clusters \ {c} : w.fat[1][b] = u.fat[1][b] /\ w.area[b] = u.area[b]
        PROVE  w \in Q
    BY <1>2 DEF OffSame
  <1> HIDE DEF Q
  <1>3. ASSUME NEW u \in Q, NEW c \in C, NEW x \in Nat
        PROVE  /\ SetFat(u, c, x) \in Q
               /\ \A m \in 0 .. NumberOfFats : PartFat(u, c, x, m) \in Q
    <2>1. u \in Disks(Contents) /\ c \in Clusters /\ 1 \in Copies
          /\ u.fat \in [Copies -> [Clusters -> Nat]]
      BY <1>1, FirstCopy DEF Volumes, Disks
    <2>2. SetFat(u, c, x) \in Q
      <3> DEFINE w == SetFat(u, c, x)
      <3>1. w \in Volumes
        BY <2>1, PartFatType DEF Volumes
      <3>2. w.root = u.root /\ \A b \in Clusters \ {c} : w.area[b] = u.area[b]
        BY DEF SetFat
      <3>3. \A b \in Clusters \ {c} : w.fat[1][b] = u.fat[1][b]
        BY <2>1 DEF SetFat
      <3> HIDE DEF w
      <3> QED
        BY <3>1, <3>2, <3>3, <1>2 DEF w
    <2>3. ASSUME NEW m \in 0 .. NumberOfFats
          PROVE  PartFat(u, c, x, m) \in Q
      <3> DEFINE w == PartFat(u, c, x, m)
      <3>1. w \in Volumes
        <4>1. m \in Nat
          BY Geometry
        <4> QED
          BY <4>1, <2>1, PartFatType DEF Volumes
      <3>2. w.root = u.root /\ \A b \in Clusters \ {c} : w.area[b] = u.area[b]
        BY DEF PartFat
      <3>3. \A b \in Clusters \ {c} : w.fat[1][b] = u.fat[1][b]
        BY <2>1 DEF PartFat
      <3> HIDE DEF w
      <3> QED
        BY <3>1, <3>2, <3>3, <1>2 DEF w
    <2> QED
      BY <2>2, <2>3
  <1>4. ASSUME NEW u \in Q, NEW c \in C, NEW cells \in Seq(Contents)
        PROVE  After(u, AreaUpdate(c, cells)) \in Q
    <2>1. PICK w : w = After(u, AreaUpdate(c, cells))
      OBVIOUS
    <2>2. u \in Volumes /\ c \in Clusters
      BY <1>1
    <2>3. AreaUpdate(c, cells) \in Updates
      BY <2>2 DEF AreaUpdate, Updates, Writes
    <2>4. w \in Volumes
      BY <2>1, <2>2, <2>3, AfterType DEF Volumes, Updates
    <2>5. w.fat = u.fat /\ w.root = u.root /\ \A b \in Clusters \ {c} : w.area[b] = u.area[b]
      BY <2>1, <2>2, AreaUpdateIs
    <2> QED
      BY <2>1, <2>4, <2>5, <1>2
  <1>5. Tame(Q, Q, C, {})
    BY <1>1, <1>3, <1>4 DEF Tame
  <1> QED
    BY <1>1, <1>5 DEF Q

(* One round of the loop: the chunk, then the link to the next cluster.    *)
Round(F, data, k) == DataWrite(F[k], Piece(data, k)) \o FatWrites(F[k], F[k + 1])

Rounds(F, data, m) == FlattenSeq([k \in 1 .. m |-> Round(F, data, k)])

Rounded(u, F, data, k) ==
    SetFat(After(u, AreaUpdate(F[k], DataCells(Piece(data, k)))), F[k], F[k + 1])

(* The first q clusters of F hold data and are linked.                     *)
Stored(w, F, data, q, marked) ==
    \A i \in 1 .. q : /\ w.area[F[i]] = DataCells(Piece(data, i))
                      /\ w.fat[1][F[i]] = IF marked /\ i = q THEN EOC ELSE F[i + 1]

Scattered(F, C) ==
    /\ F \in Seq(C)
    /\ \A i, j \in 1 .. Len(F) : F[i] = F[j] => i = j

LEMMA RoundRuns ==
    ASSUME NEW P, NEW C, Tame(P, P, C, {}), NEW F, Scattered(F, C),
           NEW data, data \in Seq(Contents),
           NEW u \in P, NEW k \in 1 .. Len(F) - 1,
           NEW w, w = Rounded(u, F, data, k)
    PROVE  /\ Runs(Round(F, data, k), u, w, P)
           /\ w \in P
           /\ Round(F, data, k) \in Seq(Updates)
           /\ Stored(u, F, data, k - 1, FALSE) => Stored(w, F, data, k, FALSE)
  <1>1. C \subseteq Clusters /\ P \subseteq Volumes
    BY DEF Tame
  <1>2. PICK n \in Nat : n = Len(F) /\ F \in [1 .. n -> C]
    BY DEF Scattered
  <1>3. k \in Nat \ {0} /\ k \in 1 .. n /\ k + 1 \in 1 .. n
    BY <1>2
  <1>4. F[k] \in C /\ F[k + 1] \in C /\ F[k + 1] \in Nat /\ F[k] \in Clusters
    BY <1>1, <1>2, <1>3, ClustersAreFinite
  <1>5. PICK c : c = F[k]
    OBVIOUS
  <1>6. PICK y : y = F[k + 1]
    OBVIOUS
  <1>7. PICK units : units = Piece(data, k)
    OBVIOUS
  <1>8. units \in Seq(Contents)
    BY <1>3, <1>7, PieceIs
  <1>9. PICK v : v = After(u, AreaUpdate(c, DataCells(units)))
    OBVIOUS
  <1>10. PICK a, b : a = DataWrite(c, units) /\ b = FatWrites(c, y)
    OBVIOUS
  <1>11. c \in C /\ y \in Nat
    BY <1>4, <1>5, <1>6
  <1>12. Runs(a, u, v, P) /\ v \in P /\ a \in Seq(Updates)
    BY <1>8, <1>9, <1>10, <1>11, DataRuns
  <1>13. w = SetFat(v, c, y)
    BY <1>5, <1>6, <1>7, <1>9 DEF Rounded
  <1>14. Runs(b, v, w, P) /\ w \in P /\ b \in Seq(Updates)
    BY <1>10, <1>11, <1>12, <1>13, FatRuns
  <1>15. Runs(a \o b, u, w, P) /\ a \o b \in Seq(Updates)
    BY <1>12, <1>14, RunsConcat
  <1>16. Round(F, data, k) = a \o b
    BY <1>5, <1>6, <1>7, <1>10 DEF Round
  <1>17. ASSUME Stored(u, F, data, k - 1, FALSE)
         PROVE  Stored(w, F, data, k, FALSE)
    <2>1. u \in Volumes /\ v \in Volumes /\ c \in Clusters
      BY <1>1, <1>11, <1>12
    <2>2. v.fat = u.fat /\ v.area[c] = DataCells(units)
          /\ \A x \in Clusters \ {c} : v.area[x] = u.area[x]
      BY <1>9, <2>1, AreaUpdateIs
    <2>3. w.area = v.area /\ w.fat[1][c] = y
          /\ \A x \in Clusters \ {c} : w.fat[1][x] = v.fat[1][x]
      BY <1>13, <2>1, SetFatIs, FirstCopy
    <2>4. ASSUME NEW i \in 1 .. k
          PROVE  w.area[F[i]] = DataCells(Piece(data, i)) /\ w.fat[1][F[i]] = F[i + 1]
      <3>1. CASE i = k
        BY <3>1, <2>2, <2>3, <1>5, <1>6, <1>7
      <3>2. CASE i # k
        <4>1. i \in 1 .. k - 1 /\ i \in 1 .. n
          BY <3>2, <1>3
        <4>2. F[i] \in Clusters
          BY <4>1, <1>1, <1>2
        <4>3. F[i] # c
          BY <4>1, <3>2, <1>2, <1>3, <1>5 DEF Scattered
        <4>4. u.area[F[i]] = DataCells(Piece(data, i)) /\ u.fat[1][F[i]] = F[i + 1]
          BY <4>1, <1>17 DEF Stored
        <4> QED
          BY <4>2, <4>3, <4>4, <2>2, <2>3
      <3> QED
        BY <3>1, <3>2
    <2> QED
      BY <2>4 DEF Stored
  <1> QED
    BY <1>14, <1>15, <1>16, <1>17

LEMMA RoundsRun ==
    ASSUME NEW P, NEW C, Tame(P, P, C, {}), NEW v \in P,
           NEW F, Scattered(F, C), NEW data, data \in Seq(Contents),
           NEW m \in Nat, m < Len(F),
           NEW q, q = Rounds(F, data, m)
    PROVE  /\ q \in Seq(Updates)
           /\ \E w \in P : Runs(q, v, w, P) /\ Stored(w, F, data, m, FALSE)
  <1>1. \A k \in 1 .. m : k \in 1 .. Len(F) - 1
    BY DEF Scattered
  <1> DEFINE h == [k \in 1 .. m |-> [u \in P |-> Rounded(u, F, data, k)]]
             s == [k \in 1 .. m |-> Round(F, data, k)]
  <1>2. IsStep(h, m, P)
    BY <1>1, RoundRuns DEF IsStep
  <1>3. \A k \in 1 .. m, u \in P : h[k][u] = Rounded(u, F, data, k)
    OBVIOUS
  <1> HIDE DEF h
  <1>4. \E d : Iterates(d, m, P, v, h)
    BY <1>2, Recursion
  <1>5. PICK d : Iterates(d, m, P, v, h)
    BY <1>4
  <1>6. d \in [0 .. m -> P] /\ d[0] = v
    BY <1>5 DEF Iterates
  <1>7. ASSUME NEW k \in 1 .. m
        PROVE  /\ Runs(s[k], d[k - 1], d[k], P) /\ s[k] \in Seq(Updates)
               /\ Stored(d[k - 1], F, data, k - 1, FALSE) => Stored(d[k], F, data, k, FALSE)
    <2>1. k - 1 \in 0 .. m /\ k \in 1 .. Len(F) - 1
      BY <1>1
    <2>2. d[k - 1] \in P
      BY <2>1, <1>6
    <2>3. d[k] = h[k][d[k - 1]]
      BY <1>5 DEF Iterates
    <2>4. d[k] = Rounded(d[k - 1], F, data, k)
      BY <2>2, <2>3, <1>3
    <2>5. s[k] = Round(F, data, k)
      OBVIOUS
    <2> HIDE DEF s
    <2>6. PICK u \in P : u = d[k - 1]
      BY <2>2
    <2>7. PICK w : w = Rounded(u, F, data, k)
      OBVIOUS
    <2>8. /\ Runs(Round(F, data, k), u, w, P)
          /\ Round(F, data, k) \in Seq(Updates)
          /\ Stored(u, F, data, k - 1, FALSE) => Stored(w, F, data, k, FALSE)
      BY <2>1, <2>7, RoundRuns
    <2>9. d[k] = w
      BY <2>4, <2>6, <2>7
    <2> QED
      BY ONLY <2>5, <2>6, <2>8, <2>9
  <1>8. q = FlattenSeq(s)
    BY DEF Rounds
  <1>9. s \in [1 .. m -> Seq(Updates)]
    BY <1>7
  <1> HIDE DEF s
  <1>10. /\ FlattenSeq(s) \in Seq(Updates)
         /\ Runs(FlattenSeq(s), d[0], d[m], P)
    BY <1>6, <1>7, <1>9, RunsBlocks
  <1> DEFINE T == {k \in 0 .. m : Stored(d[k], F, data, k, FALSE)}
  <1>11. 0 \in T
    BY DEF Stored
  <1>12. ASSUME NEW k \in 0 .. m - 1, k \in T
         PROVE  k + 1 \in T
    <2>1. k + 1 \in 1 .. m /\ (k + 1) - 1 = k /\ k + 1 \in 0 .. m
      OBVIOUS
    <2>2. Stored(d[(k + 1) - 1], F, data, (k + 1) - 1, FALSE)
      BY <2>1, <1>12
    <2>3. Stored(d[k + 1], F, data, k + 1, FALSE)
      BY <2>1, <2>2, <1>7
    <2> QED
      BY <2>1, <2>3
  <1> HIDE DEF T
  <1>13. m \in T /\ m \in 0 .. m
    <2>1. \A k \in 0 .. m : k \in T
      BY <1>11, <1>12, UpTo
    <2>2. m \in 0 .. m
      OBVIOUS
    <2> QED
      BY <2>1, <2>2
  <1>14. d[m] \in P /\ Stored(d[m], F, data, m, FALSE)
    BY <1>6, <1>13 DEF T
  <1> QED
    BY <1>6, <1>8, <1>10, <1>14

(* How much of the data fits.                                              *)
LEMMA FreeInOrderIs ==
    ASSUME LowestFree # 0, NEW F, F = FreeInOrder
    PROVE  /\ Scattered(F, FreeClusters)
           /\ Len(F) \in Nat \ {0}
           /\ FreeClusters \subseteq Clusters
           /\ F[1] = LowestFree
  <1>1. FreeClusters \subseteq Clusters /\ FreeClusters # {}
    BY LowestFreeIs DEF FreeClusters
  <1>2. FreeClusters \subseteq Nat /\ IsFiniteSet(FreeClusters)
    BY <1>1, ClustersAreFinite, FS_Subset
  <1> DEFINE n == Cardinality(FreeClusters)
  <1>3. /\ n \in Nat
        /\ F \in [1 .. n -> FreeClusters]
        /\ \A c \in FreeClusters : \E k \in 1 .. n : F[k] = c
        /\ \A i, j \in 1 .. n : i < j => F[i] < F[j]
    BY <1>2, LowestFirstIs DEF FreeInOrder
  <1> HIDE DEF n
  <1>4. n # 0
    BY <1>1, <1>3
  <1>5. \A i, j \in 1 .. n : F[i] = F[j] => i = j
    <2> SUFFICES ASSUME NEW i \in 1 .. n, NEW j \in 1 .. n, F[i] = F[j], i # j
                 PROVE  FALSE
      OBVIOUS
    <2>1. F[i] \in Nat /\ F[j] \in Nat
      BY <1>2, <1>3
    <2>2. i < j \/ j < i
      BY <1>3
    <2>3. F[i] < F[j] \/ F[j] < F[i]
      BY <1>3, <2>2
    <2> QED
      BY <2>1, <2>3
  <1>6. F[1] = LowestFree
    <2>1. LowestFree \in FreeClusters /\ \A c \in FreeClusters : LowestFree <= c
      BY LowestFreeIs DEF FreeClusters
    <2>2. PICK k \in 1 .. n : F[k] = LowestFree
      BY <2>1, <1>3
    <2>3. 1 \in 1 .. n /\ F[1] \in FreeClusters
      BY <1>3, <1>4
    <2>4. k = 1 \/ 1 < k
      BY <1>3
    <2>5. ~(1 < k)
      <3>1. LowestFree <= F[1] /\ F[1] \in Nat /\ LowestFree \in Nat
        BY <2>1, <2>3, <1>2
      <3>2. 1 < k => F[1] < F[k]
        BY <2>3, <1>3
      <3> QED
        BY <3>1, <3>2, <2>2
    <2> QED
      BY <2>2, <2>4, <2>5
  <1>7. Len(F) = n /\ F \in Seq(FreeClusters)
    BY <1>3
  <1> QED
    BY <1>1, <1>3, <1>4, <1>5, <1>6, <1>7 DEF Scattered

LEMMA Fits ==
    ASSUME LowestFree # 0, NEW F, F = FreeInOrder,
           NEW data, data \in Seq(Units), NEW m, m = Linked(data)
    PROVE  /\ m \in Nat /\ m < Len(F) /\ m + 1 \in 1 .. Len(F)
           /\ m * ClusterSize \in Nat /\ m * ClusterSize <= Len(data)
           /\ DiskFull(data) => BytesWritten(data) = m * ClusterSize
           /\ ~DiskFull(data) =>
                /\ BytesWritten(data) = Len(data)
                /\ Len(data) < m * ClusterSize + ClusterSize
                /\ Chunk(data, m + 1) = <<>> <=> Len(data) = m * ClusterSize
                /\ EndMarked(data) <=> Len(data) # m * ClusterSize
           /\ Chunk(data, m + 1) = Piece(data, m + 1)
           /\ Piece(data, m + 1) \in Seq(Contents)
  <1>1. Len(F) \in Nat \ {0}
    BY FreeInOrderIs
  <1>2. PICK L \in Nat, cs \in Nat \ {0} : L = Len(data) /\ cs = ClusterSize
    BY Geometry
  <1> DEFINE full == L \div cs
             rest == L % cs
  <1>3. full \in Nat /\ rest \in 0 .. cs - 1 /\ L = cs * full + rest
    BY <1>2
  <1>4. full = FullClusters(data)
    BY <1>2 DEF FullClusters
  <1>5. rest = Len(data) % ClusterSize
    BY <1>2
  <1> HIDE DEF full, rest
  <1>6. PICK n \in Nat : n = Len(F) - 1
    BY <1>1
  <1>7. m = IF full <= n THEN full ELSE n
    BY <1>3, <1>4, <1>6, MinOfTwo DEF Linked
  <1>8. m \in Nat /\ m <= full /\ m <= n
    BY <1>3, <1>7
  <1>9. DiskFull(data) <=> full > m
    BY <1>4 DEF DiskFull
  <1>10. m * ClusterSize \in Nat /\ m * ClusterSize <= full * ClusterSize
    BY <1>3, <1>8, Multiples
  <1>11. full * ClusterSize = cs * full
    BY <1>2, <1>3
  <1>12. m * ClusterSize <= L
    <2>1. cs * full \in Nat
      BY <1>2, <1>3
    <2> QED
      BY <1>3, <1>10, <1>11, <2>1
  <1>13. Chunk(data, m + 1) = Piece(data, m + 1)
    BY DEF Chunk, Piece
  <1>14. PICK units : units = Piece(data, m + 1)
    OBVIOUS
  <1>15. PICK from : from = m * ClusterSize
    OBVIOUS
  <1>16. PICK k \in Nat : /\ k = PieceLen(from, Len(data))
                         /\ k = IF from + ClusterSize <= Len(data) THEN ClusterSize
                                ELSE IF from <= Len(data) THEN Len(data) - from ELSE 0
    BY <1>2, <1>10, <1>12, <1>15 DEF PieceLen
  <1>17. units \in Seq(Units) /\ Len(units) = k
    <2>1. m + 1 \in Nat \ {0} /\ from = PieceStart(m + 1)
      BY <1>8, <1>15 DEF PieceStart
    <2> QED
      BY <2>1, <1>14, <1>16, PieceIs
  <1>18. units = <<>> <=> k = 0
    BY <1>17
  <1>19. units \in Seq(Contents)
    BY <1>17 DEF Contents
  <1>20. ASSUME ~DiskFull(data)
         PROVE  /\ Len(data) < m * ClusterSize + ClusterSize
                /\ Chunk(data, m + 1) = <<>> <=> Len(data) = m * ClusterSize
                /\ EndMarked(data) <=> Len(data) # m * ClusterSize
    <2>1. full = m
      BY <1>3, <1>8, <1>9, <1>20
    <2>2. L = from + rest
      BY <2>1, <1>3, <1>11, <1>15
    <2>3. from \in Nat /\ L < from + cs /\ (L = from <=> rest = 0)
      BY <2>2, <1>2, <1>3, <1>10, <1>15
    <2>4. k = L - from
      BY <2>3, <1>2, <1>12, <1>15, <1>16
    <2>5. k = 0 <=> L = from
      BY <2>3, <2>4
    <2>6. EndMarked(data) <=> rest # 0
      BY <1>5, <1>20 DEF EndMarked
    <2> QED
      BY <2>3, <2>5, <2>6, <1>2, <1>13, <1>14, <1>15, <1>18
  <1>21. /\ DiskFull(data) => BytesWritten(data) = m * ClusterSize
         /\ ~DiskFull(data) => BytesWritten(data) = Len(data)
    BY DEF BytesWritten
  <1>22. m < Len(F) /\ m + 1 \in 1 .. Len(F)
    BY <1>1, <1>6, <1>8
  <1> QED
    BY <1>2, <1>8, <1>10, <1>12, <1>13, <1>14, <1>19, <1>20, <1>21, <1>22

LEMMA ClosingRuns ==
    ASSUME LowestFree # 0, NEW F, F = FreeInOrder,
           NEW data, data \in Seq(Units), NEW m, m = Linked(data),
           NEW P, Tame(P, P, FreeClusters, {}), NEW u \in P,
           Stored(u, F, data, m, FALSE),
           NEW marked, marked = EndMarked(data),
           NEW n, n = IF marked THEN m + 1 ELSE m
    PROVE  /\ ClosingWrites(data) \in Seq(Updates)
           /\ \E w \in P : /\ Runs(ClosingWrites(data), u, w, P)
                           /\ Stored(w, F, data, n, marked)
  <1>1. /\ Scattered(F, FreeClusters) /\ FreeClusters \subseteq Clusters
        /\ P \subseteq Volumes
    BY FreeInOrderIs DEF Tame
  <1>2. /\ m \in Nat /\ m + 1 \in 1 .. Len(F)
        /\ Chunk(data, m + 1) = Piece(data, m + 1)
        /\ Piece(data, m + 1) \in Seq(Contents)
        /\ ~DiskFull(data) =>
             /\ Chunk(data, m + 1) = <<>> <=> Len(data) = m * ClusterSize
             /\ EndMarked(data) <=> Len(data) # m * ClusterSize
    BY Fits
  <1>3. PICK c \in FreeClusters : c = F[m + 1]
    BY <1>1, <1>2 DEF Scattered
  <1>4. c \in Clusters
    BY <1>1
  <1>5. \A i \in 1 .. m : F[i] \in Clusters /\ F[i] # c
    <2> TAKE i \in 1 .. m
    <2>1. i \in 1 .. Len(F) /\ i # m + 1
      BY <1>2
    <2> QED
      BY <2>1, <1>1, <1>2, <1>3 DEF Scattered
  <1>6. PICK units \in Seq(Contents) : units = Piece(data, m + 1)
    BY <1>2
  <1>7. PICK a : a = DataWrite(c, units)
    OBVIOUS
  <1>8. PICK b : b = FatWrites(c, EOC)
    OBVIOUS
  <1>9. PICK v : v = After(u, AreaUpdate(c, DataCells(units)))
    OBVIOUS
  <1>10. PICK x : x = SetFat(v, c, EOC)
    OBVIOUS
  <1>11. Runs(a, u, v, P) /\ v \in P /\ a \in Seq(Updates)
    BY <1>7, <1>9, DataRuns
  <1>12. Runs(b, v, x, P) /\ x \in P /\ b \in Seq(Updates)
    BY <1>8, <1>10, <1>11, FatRuns, ClustersAreFinite
  <1>13. v.fat = u.fat /\ v.area[c] = DataCells(units)
         /\ \A y \in Clusters \ {c} : v.area[y] = u.area[y]
    BY <1>1, <1>4, <1>9, AreaUpdateIs
  <1>14. Stored(v, F, data, m, FALSE)
    <2>1. \A i \in 1 .. m : F[i] \in Clusters \ {c}
      BY <1>5
    <2> QED
      BY <2>1, <1>13 DEF Stored
  <1>15. x.area = v.area /\ x.fat[1][c] = EOC
         /\ \A y \in Clusters \ {c} : x.fat[1][y] = v.fat[1][y]
    BY <1>1, <1>4, <1>10, <1>11, SetFatIs, FirstCopy
  <1>16. CASE DiskFull(data)
    <2>1. ClosingWrites(data) = a
      BY <1>2, <1>3, <1>6, <1>7, <1>16 DEF ClosingWrites
    <2>2. ~marked /\ n = m
      BY <1>16 DEF EndMarked
    <2>3. Stored(v, F, data, n, marked)
      BY <2>2, <1>14 DEF Stored
    <2> QED
      BY <2>1, <2>3, <1>11
  <1>17. CASE ~DiskFull(data) /\ Len(data) = m * ClusterSize
    <2> DEFINE none == <<>>
    <2>1. ClosingWrites(data) = none
      BY <1>2, <1>17 DEF ClosingWrites
    <2>2. ~marked /\ n = m
      BY <1>2, <1>17
    <2>3. Runs(none, u, u, P) /\ none \in Seq(Updates)
      BY RunsNone
    <2> HIDE DEF none
    <2>4. Stored(u, F, data, n, marked)
      BY <2>2 DEF Stored
    <2> QED
      BY <2>1, <2>3, <2>4
  <1>18. CASE ~DiskFull(data) /\ Len(data) # m * ClusterSize
    <2>1. ClosingWrites(data) = a \o b
      BY <1>2, <1>3, <1>6, <1>7, <1>8, <1>18 DEF ClosingWrites
    <2>2. marked /\ n = m + 1
      BY <1>2, <1>18
    <2>3. Runs(a \o b, u, x, P) /\ a \o b \in Seq(Updates)
      BY <1>11, <1>12, RunsConcat
    <2>4. ASSUME NEW i \in 1 .. n
          PROVE  /\ x.area[F[i]] = DataCells(Piece(data, i))
                 /\ x.fat[1][F[i]] = IF marked /\ i = n THEN EOC ELSE F[i + 1]
      <3>1. CASE i = n
        BY <3>1, <2>2, <1>3, <1>6, <1>13, <1>15
      <3>2. CASE i # n
        <4>1. i \in 1 .. m
          BY <3>2, <2>2, <1>2
        <4>2. F[i] \in Clusters \ {c}
          BY <4>1, <1>5
        <4>3. v.area[F[i]] = DataCells(Piece(data, i)) /\ v.fat[1][F[i]] = F[i + 1]
          BY <4>1, <1>14 DEF Stored
        <4> QED
          BY <3>2, <4>2, <4>3, <1>15
      <3> QED
        BY <3>1, <3>2
    <2>5. Stored(x, F, data, n, marked)
      BY <2>4 DEF Stored
    <2> QED
      BY <2>1, <2>3, <2>5, <1>12
  <1> QED
    BY <1>16, <1>17, <1>18

(* The writes before the entry, and what they leave on the disk.           *)
LEMMA FillRuns ==
    ASSUME VolumeOK, LowestFree # 0, NEW F, F = FreeInOrder,
           NEW data, data \in Seq(Units),
           NEW marked, marked = EndMarked(data),
           NEW n, n = IF marked THEN Linked(data) + 1 ELSE Linked(data),
           NEW P, P = OffSame(Disk, FreeClusters)
    PROVE  /\ ClusterWrites(data) \in Seq(Updates)
           /\ \E w \in P : /\ Runs(ClusterWrites(data), Disk, w, P)
                           /\ Stored(w, F, data, n, marked)
  <1>1. Scattered(F, FreeClusters) /\ FreeClusters \subseteq Clusters
    BY FreeInOrderIs
  <1>2. Disk \in P /\ Tame(P, P, FreeClusters, {})
    BY <1>1, OffSameTame DEF VolumeOK
  <1>3. data \in Seq(Contents)
    BY DEF Contents
  <1>4. PICK m : m = Linked(data)
    OBVIOUS
  <1>5. m \in Nat /\ m < Len(F)
    BY <1>4, Fits
  <1>6. PICK q : q = Rounds(F, data, m)
    OBVIOUS
  <1>7. /\ q \in Seq(Updates)
        /\ \E w \in P : Runs(q, Disk, w, P) /\ Stored(w, F, data, m, FALSE)
    <2>1. PICK v \in P : v = Disk
      BY <1>2
    <2>2. /\ q \in Seq(Updates)
          /\ \E w \in P : Runs(q, v, w, P) /\ Stored(w, F, data, m, FALSE)
      BY <1>1, <1>2, <1>3, <1>5, <1>6, RoundsRun
    <2> QED
      BY ONLY <2>1, <2>2
  <1>8. PICK u \in P : Runs(q, Disk, u, P) /\ Stored(u, F, data, m, FALSE)
    BY <1>7
  <1>9. PICK b : b = ClosingWrites(data)
    OBVIOUS
  <1>10. /\ b \in Seq(Updates)
         /\ \E w \in P : Runs(b, u, w, P) /\ Stored(w, F, data, n, marked)
    BY <1>2, <1>4, <1>8, <1>9, ClosingRuns
  <1>11. PICK w \in P : Runs(b, u, w, P) /\ Stored(w, F, data, n, marked)
    BY <1>10
  <1>12. Runs(q \o b, Disk, w, P) /\ q \o b \in Seq(Updates)
    BY <1>7, <1>8, <1>10, <1>11, RunsConcat
  <1>13. ClusterWrites(data) = q \o b
    <2>1. \A k \in 1 .. m :
            Round(F, data, k) = DataWrite(FreeInOrder[k], Chunk(data, k))
                                \o FatWrites(FreeInOrder[k], FreeInOrder[k + 1])
      BY DEF Round, Chunk, Piece
    <2>2. ClusterWrites(data) =
            FlattenSeq([k \in 1 .. m |->
               DataWrite(FreeInOrder[k], Chunk(data, k))
               \o FatWrites(FreeInOrder[k], FreeInOrder[k + 1])]) \o b
      BY <1>4, <1>9 DEF ClusterWrites
    <2>3. [k \in 1 .. m |->
               DataWrite(FreeInOrder[k], Chunk(data, k))
               \o FatWrites(FreeInOrder[k], FreeInOrder[k + 1])]
          = [k \in 1 .. m |-> Round(F, data, k)]
      BY <2>1
    <2> QED
      BY <2>2, <2>3, <1>6 DEF Rounds
  <1> QED
    BY <1>11, <1>12, <1>13

-----------------------------------------------------------------------------
(* What stays when the disk changes elsewhere.                             *)

LEMMA HoldsSame ==
    ASSUME NEW u, NEW w, NEW e, NEW p, NEW data, NEW marked, NEW marked2,
           Holds(u, e, p, data, marked), marked2 => marked,
           \A i \in 1 .. Len(p) : /\ w.fat[1][p[i]] = u.fat[1][p[i]]
                                  /\ w.area[p[i]] = u.area[p[i]]
    PROVE  Holds(w, e, p, data, marked2)
  <1>1. PICK n \in Nat : n = Len(p) /\ (p # <<>> => n \in 1 .. n)
    BY DEF Holds
  <1>2. \A i \in 1 .. n - 1 : i \in 1 .. n
    OBVIOUS
  <1>3. \A i \in 1 .. n : w.fat[1][p[i]] = u.fat[1][p[i]] /\ w.area[p[i]] = u.area[p[i]]
    BY <1>1
  <1>4. \A i \in 1 .. n - 1 : w.fat[1][p[i]] = p[i + 1]
    BY <1>1, <1>2, <1>3 DEF Holds
  <1>5. \A i \in 1 .. n : w.fat[1][p[i]] # Free /\ Len(w.area[p[i]]) = ClusterSize
    BY <1>1, <1>3 DEF Holds
  <1>6. \A i \in 1 .. n, j \in 1 .. ClusterSize :
          Place(i, j) <= Len(data) => w.area[p[i]][j] = data[Place(i, j)]
    BY <1>1, <1>3 DEF Holds
  <1>7. marked2 => p # <<>> /\ w.fat[1][p[n]] = EOC
    BY <1>1, <1>3 DEF Holds
  <1>8. /\ e.size = Len(data) /\ data \in Seq(Units)
        /\ p \in Seq(Clusters \ {2})
        /\ p # <<>> => p[1] = e.start
        /\ \A i, j \in 1 .. n : p[i] = p[j] => i = j
        /\ Len(data) <= n * ClusterSize
    BY <1>1 DEF Holds
  <1> QED
    BY ONLY <1>1, <1>4, <1>5, <1>6, <1>7, <1>8 DEF Holds

(* What the files are made of is neither free nor a directory.             *)
LEMMA HeldClusters ==
    ASSUME NEW u, NEW e, NEW p, NEW data, NEW marked, Holds(u, e, p, data, marked),
           NEW i \in 1 .. Len(p)
    PROVE  p[i] \in Clusters /\ p[i] # 2 /\ u.fat[1][p[i]] # Free
  BY DEF Holds

(* I2 and U2 say of the files of u what I and U say.                       *)
Agree(u, I, U, I2, U2) ==
    \A r \in Files(u) : r \in DOMAIN I2 /\ I2[r] = I[r] /\ (r \in U => r \in U2)

LEMMA OffSameFurnished ==
    ASSUME NEW u, Furnished(u), NEW C, 2 \notin C, NEW v \in OffSame(u, C)
    PROVE  /\ Furnished(v)
           /\ Files(v) = Files(u)
           /\ \A d \in Dirs : Slots(v, d) = Slots(u, d)
           /\ \A r \in Files(u) : At(v, r) = At(u, r)
  <1>1. /\ v \in Volumes /\ v.root = u.root
        /\ \A c \in Clusters \ C : v.fat[1][c] = u.fat[1][c] /\ v.area[c] = u.area[c]
    BY DEF OffSame
  <1>2. 2 \in Clusters \ C
    BY DirsAre
  <1>3. \A d \in Dirs : Slots(v, d) = Slots(u, d)
    BY <1>1, <1>2 DEF Dirs, Slots
  <1>4. \A r \in Dirs \X Nat : At(v, r) = At(u, r) /\ Slots(v, r[1]) = Slots(u, r[1])
    BY <1>3 DEF At
  <1>5. Filled(v) = Filled(u)
    BY <1>4 DEF Filled
  <1>6. Files(v) = Files(u) /\ Filled(u) \subseteq Dirs \X Nat
        /\ Files(u) \subseteq Filled(u)
    BY <1>4, <1>5 DEF Files, Filled
  <1>7. v.fat[1][2] = EOC /\ v.root[1] = DirEntry(Dir, 2)
        /\ Len(v.area[2]) = DirEntriesPerCluster
    BY <1>1, <1>2 DEF Furnished
  <1>8. \A r \in Filled(v) : IF At(v, r).dir THEN At(v, r).start \in Dirs
                                            ELSE FileName(At(v, r).name)
    BY <1>4, <1>5, <1>6 DEF Furnished
  <1>9. Furnished(v)
    BY <1>1, <1>7, <1>8 DEF Furnished
  <1> QED
    BY <1>3, <1>4, <1>6, <1>9

LEMMA OffSameKept ==
    ASSUME NEW u, NEW path, NEW I, NEW U, Kept(u, path, I, U),
           NEW I2, NEW U2, Agree(u, I, U, I2, U2),
           NEW C, \A c \in C : u.fat[1][c] = Free,
           NEW v \in OffSame(u, C)
    PROVE  /\ Kept(v, path, I2, U2)
           /\ Files(v) = Files(u)
           /\ \A d \in Dirs : Slots(v, d) = Slots(u, d)
  <1>1. \A c \in Clusters \ C : v.fat[1][c] = u.fat[1][c] /\ v.area[c] = u.area[c]
    BY DEF OffSame
  <1>2. 2 \notin C /\ Furnished(u)
    <2>1. EOC # Free
      BY DEF EOC, Free
    <2> QED
      BY <2>1 DEF Kept, Furnished
  <1>3. /\ Furnished(v)
        /\ Files(v) = Files(u)
        /\ \A d \in Dirs : Slots(v, d) = Slots(u, d)
        /\ \A r \in Files(u) : At(v, r) = At(u, r)
    BY <1>2, OffSameFurnished
  <1>4. ASSUME NEW r \in Files(v)
        PROVE  Holds(v, At(v, r), path[r], I2[r], r \notin U2)
    <2>1. r \in Files(u)
      BY <1>3
    <2>2. PICK e : e = At(u, r)
      OBVIOUS
    <2>3. PICK p : p = path[r]
      OBVIOUS
    <2>4. PICK data : data = I[r]
      OBVIOUS
    <2>5. PICK marked : marked = (r \notin U)
      OBVIOUS
    <2>6. PICK marked2 : marked2 = (r \notin U2)
      OBVIOUS
    <2>7. Holds(u, e, p, data, marked)
      BY <2>1, <2>2, <2>3, <2>4, <2>5 DEF Kept
    <2>8. marked2 => marked
      BY <2>1, <2>5, <2>6 DEF Agree
    <2>9. \A i \in 1 .. Len(p) : v.fat[1][p[i]] = u.fat[1][p[i]] /\ v.area[p[i]] = u.area[p[i]]
      <3> TAKE i \in 1 .. Len(p)
      <3>1. p[i] \in Clusters /\ u.fat[1][p[i]] # Free
        BY <2>7, HeldClusters
      <3>2. p[i] \notin C
        BY <3>1
      <3> QED
        BY <3>1, <3>2, <1>1
    <2>10. Holds(v, e, p, data, marked2)
      BY <2>7, <2>8, <2>9, HoldsSame
    <2>11. At(v, r) = e /\ I2[r] = data
      BY <2>1, <2>2, <2>4, <1>3 DEF Agree
    <2> QED
      BY <2>3, <2>6, <2>10, <2>11
  <1>5. Files(v) \subseteq DOMAIN I2 /\ Apart(path, Files(v))
    BY <1>3 DEF Agree, Kept
  <1> QED
    BY <1>3, <1>4, <1>5 DEF Kept

(* Slot i of directory d gets x, no entry or that of a file.               *)
SlotGets(v, w, d, i, x) ==
    /\ d \in Dirs /\ i \in DOMAIN Slots(v, d)
    /\ ~(IsEntry(Slots(v, d)[i]) /\ Slots(v, d)[i].dir)
    /\ x = NoEntry \/ (x \in Entries /\ IsLive(x) /\ ~x.dir /\ FileName(x.name))
    /\ w = After(v, SlotUpdate(d, i, x))

FilesAre(v, w, r, x) ==
    /\ Files(w) = (Files(v) \ {r}) \cup (IF x = NoEntry THEN {} ELSE {r})
    /\ At(w, r) = x
    /\ \A s \in Files(v) \ {r} : At(w, s) = At(v, s)
    /\ w.fat = v.fat
    /\ \A c \in Clusters \ {2} : w.area[c] = v.area[c]

LEMMA SlotKeeps ==
    ASSUME NEW v, Furnished(v), NEW w, NEW d, NEW i, NEW x, SlotGets(v, w, d, i, x),
           NEW r, r = <<d, i>>
    PROVE  Furnished(w) /\ FilesAre(v, w, r, x)
  <1>1. /\ v \in Volumes /\ v.fat[1][2] = EOC /\ v.root[1] = DirEntry(Dir, 2)
        /\ Len(v.area[2]) = DirEntriesPerCluster
    BY DEF Furnished
  <1>2. /\ d \in Dirs /\ d \in Clusters \cup {RootDir} /\ i \in DOMAIN Slots(v, d)
        /\ ~(IsEntry(Slots(v, d)[i]) /\ Slots(v, d)[i].dir)
        /\ x = NoEntry \/ (x \in Entries /\ IsLive(x) /\ ~x.dir /\ FileName(x.name))
        /\ w = After(v, SlotUpdate(d, i, x))
    BY DirsAre DEF SlotGets
  <1>3. /\ w.fat = v.fat
        /\ Slots(w, d) = [Slots(v, d) EXCEPT ![i] = x]
        /\ \A b \in (Clusters \cup {RootDir}) \ {d} : Slots(w, b) = Slots(v, b)
        /\ \A b \in Clusters \ {d} : w.area[b] = v.area[b]
    BY <1>1, <1>2, SlotUpdateIs
  <1>4. /\ Slots(v, d) \in Seq(Contents)
        /\ DOMAIN Slots(v, d) = 1 .. Len(Slots(v, d))
        /\ Len(Slots(v, d)) \in Nat
    BY <1>1, <1>2, SlotsType
  <1>5. i \in Nat
    BY <1>2, <1>4
  <1>6. w \in Volumes
    <2>1. x \in Contents /\ d \in Nat
      <3>1. x \in Contents
        <4>1. x = NoEntry \/ x \in Entries
          BY <1>2
        <4> QED
          BY <4>1, DirsAre DEF Contents
      <3>2. d \in Nat
        BY <1>2, DirsAre, ClustersAreFinite DEF RootDir
      <3> QED
        BY <3>1, <3>2
    <2>2. SlotUpdate(d, i, x) \in Updates
      BY <2>1, <1>5 DEF SlotUpdate, Updates, Writes
    <2> QED
      BY <2>2, <1>1, <1>2, AfterType DEF Volumes, Updates
  <1>7. \A c \in Clusters \ {2} : w.area[c] = v.area[c]
    BY <1>2, <1>3, DirsAre, ClustersAreFinite DEF Dirs
  <1>8. ASSUME NEW b \in Dirs
        PROVE  /\ DOMAIN Slots(w, b) = DOMAIN Slots(v, b)
               /\ \A k \in DOMAIN Slots(v, b) :
                    Slots(w, b)[k] = IF b = d /\ k = i THEN x ELSE Slots(v, b)[k]
    <2>1. CASE b = d
      BY <2>1, <1>3
    <2>2. CASE b # d
      BY <2>2, <1>3, DirsAre
    <2> QED
      BY <2>1, <2>2
  <1>9. r[1] = d /\ r[2] = i /\ r \in Dirs \X Nat
    BY <1>2, <1>5
  <1>10. \A s \in Dirs \X Nat : s # r => s[1] # d \/ s[2] # i
    <2> TAKE s \in Dirs \X Nat
    <2>1. s = <<s[1], s[2]>>
      OBVIOUS
    <2> QED
      BY <2>1
  <1>11. At(w, r) = x
    BY <1>2, <1>8, <1>9 DEF At
  <1>12. ASSUME NEW s \in Dirs \X Nat, s # r
         PROVE  /\ s[2] \in DOMAIN Slots(w, s[1]) <=> s[2] \in DOMAIN Slots(v, s[1])
                /\ s[2] \in DOMAIN Slots(v, s[1]) => At(w, s) = At(v, s)
    <2>1. s[1] \in Dirs
      OBVIOUS
    <2> QED
      BY <2>1, <1>8, <1>10, <1>12 DEF At
  <1>13. r[2] \in DOMAIN Slots(w, r[1]) /\ r[2] \in DOMAIN Slots(v, r[1])
    BY <1>2, <1>8, <1>9
  <1>14. IsEntry(x) <=> x # NoEntry
    BY <1>2, DirsAre DEF IsLive
  <1>15. \A s \in Dirs \X Nat : s # r =>
           /\ s \in Filled(w) <=> s \in Filled(v)
           /\ s \in Filled(v) => At(w, s) = At(v, s)
    BY <1>12 DEF Filled
  <1>16. r \in Filled(w) <=> x # NoEntry
    BY <1>9, <1>11, <1>13, <1>14 DEF Filled
  <1>17. Filled(w) \subseteq Dirs \X Nat /\ Filled(v) \subseteq Dirs \X Nat
    BY DEF Filled
  <1>18. x # NoEntry => ~x.dir /\ FileName(x.name)
    BY <1>2
  <1>19. ASSUME NEW s \in Filled(w)
         PROVE  IF At(w, s).dir THEN At(w, s).start \in Dirs
                                ELSE FileName(At(w, s).name)
    <2>1. CASE s = r
      BY <2>1, <1>11, <1>16, <1>18
    <2>2. CASE s # r
      <3>1. s \in Filled(v) /\ At(w, s) = At(v, s)
        BY <2>2, <1>15, <1>17
      <3> QED
        BY <3>1 DEF Furnished
    <2> QED
      BY <2>1, <2>2
  <1>20. w.root[1] = DirEntry(Dir, 2)
    <2>1. /\ RootDir \in Dirs /\ Slots(v, RootDir) = v.root /\ Slots(w, RootDir) = w.root
      BY DirsAre DEF Slots
    <2>2. 1 \in DOMAIN v.root
      BY <1>1, Geometry DEF Volumes, Disks
    <2>3. ~(d = RootDir /\ i = 1)
      BY <2>1, <1>1, <1>2, DirsAre DEF IsLive
    <2>4. w.root[1] = v.root[1]
      BY <2>1, <2>2, <2>3, <1>8
    <2> QED
      BY <2>4, <1>1
  <1>21. Len(w.area[2]) = DirEntriesPerCluster
    <2>1. Slots(v, 2) = v.area[2] /\ Slots(w, 2) = w.area[2] /\ 2 \in Dirs
      BY DirsAre DEF Slots
    <2>2. DOMAIN w.area[2] = DOMAIN v.area[2]
      BY <2>1, <1>8
    <2>3. w.area[2] \in Seq(Contents) /\ v.area[2] \in Seq(Contents)
      BY <1>1, <1>6, DirsAre DEF Volumes, Disks
    <2>4. Len(w.area[2]) = Len(v.area[2])
      BY <2>2, <2>3
    <2> QED
      BY <2>4, <1>1
  <1>22. w.fat[1][2] = EOC
    BY <1>1, <1>3
  <1>23. Furnished(w)
    BY <1>6, <1>19, <1>20, <1>21, <1>22 DEF Furnished
  <1>24. Files(w) = (Files(v) \ {r}) \cup (IF x = NoEntry THEN {} ELSE {r})
    <2>1. \A s \in Dirs \X Nat : s # r => (s \in Files(w) <=> s \in Files(v))
      BY <1>15 DEF Files
    <2>2. r \in Files(w) <=> x # NoEntry
      BY <1>11, <1>16, <1>18 DEF Files
    <2>3. Files(w) \subseteq Dirs \X Nat /\ Files(v) \subseteq Dirs \X Nat
      BY <1>17 DEF Files
    <2> QED
      BY <2>1, <2>2, <2>3
  <1>25. \A s \in Files(v) \ {r} : At(w, s) = At(v, s)
    BY <1>15, <1>17 DEF Files
  <1> QED
    BY <1>3, <1>7, <1>11, <1>23, <1>24, <1>25 DEF FilesAre

-----------------------------------------------------------------------------
(* The new file.                                                           *)

FirstOf(F, n) == [i \in 1 .. n |-> F[i]]

LEMMA StoredHolds ==
    ASSUME LowestFree # 0, 2 \notin FreeClusters, NEW F, F = FreeInOrder,
           NEW data, data \in Seq(Units),
           NEW marked, marked = EndMarked(data),
           NEW n, n = IF marked THEN Linked(data) + 1 ELSE Linked(data),
           NEW w, Stored(w, F, data, n, marked),
           NEW e, e.size = BytesWritten(data), e.start = LowestFree,
           NEW p, p = FirstOf(F, n),
           NEW kept, kept = SubSeq(data, 1, BytesWritten(data))
    PROVE  /\ Holds(w, e, p, kept, marked)
           /\ \A i \in 1 .. Len(p) : p[i] \in FreeClusters
  <1>1. /\ F \in Seq(FreeClusters) /\ FreeClusters \subseteq Clusters
        /\ \A i, j \in 1 .. Len(F) : F[i] = F[j] => i = j
        /\ Len(F) \in Nat \ {0} /\ F[1] = LowestFree
    BY FreeInOrderIs DEF Scattered
  <1>2. PICK m : m = Linked(data)
    OBVIOUS
  <1>3. /\ m \in Nat /\ m < Len(F) /\ m + 1 \in 1 .. Len(F)
        /\ m * ClusterSize \in Nat /\ m * ClusterSize <= Len(data)
        /\ DiskFull(data) => BytesWritten(data) = m * ClusterSize
        /\ ~DiskFull(data) =>
             /\ BytesWritten(data) = Len(data)
             /\ Len(data) < m * ClusterSize + ClusterSize
             /\ EndMarked(data) <=> Len(data) # m * ClusterSize
    BY <1>2, Fits
  <1>4. n = IF marked THEN m + 1 ELSE m
    BY <1>2
  <1>5. n \in Nat /\ n <= Len(F) /\ (~marked => n < Len(F)) /\ (marked => n # 0)
    BY <1>1, <1>3, <1>4
  <1>6. PICK b : b = BytesWritten(data)
    OBVIOUS
  <1>7. Len(data) \in Nat
    OBVIOUS
  <1>8. b \in 0 .. Len(data)
    BY <1>3, <1>6, <1>7
  <1>9. kept \in Seq(Units) /\ Len(kept) = b /\ \A i \in 1 .. b : kept[i] = data[i]
    BY <1>6, <1>8, FrontIs
  <1>10. b <= n * ClusterSize
    <2>1. CASE marked
      <3>1. ~DiskFull(data) /\ n = m + 1
        BY <2>1, <1>4 DEF EndMarked
      <3>2. n * ClusterSize = m * ClusterSize + ClusterSize
        BY <3>1, <1>3, Geometry
      <3> QED
        BY <3>1, <3>2, <1>3, <1>6, <1>7, Geometry
    <2>2. CASE ~marked
      <3>1. n * ClusterSize = m * ClusterSize
        BY <2>2, <1>4
      <3>2. b = m * ClusterSize
        BY <2>2, <1>3, <1>6
      <3> QED
        BY <3>1, <3>2, <1>3
    <2> QED
      BY <2>1, <2>2
  <1>11. ASSUME NEW i \in 1 .. n
         PROVE  /\ F[i] \in FreeClusters /\ F[i] \in Clusters \ {2}
                /\ w.area[F[i]] = DataCells(Piece(data, i))
                /\ w.fat[1][F[i]] = IF marked /\ i = n THEN EOC ELSE F[i + 1]
                /\ w.fat[1][F[i]] # Free
    <2>1. i \in 1 .. Len(F)
      BY <1>1, <1>5
    <2>2. F[i] \in FreeClusters
      BY <2>1, <1>1
    <2>3. /\ w.area[F[i]] = DataCells(Piece(data, i))
          /\ w.fat[1][F[i]] = IF marked /\ i = n THEN EOC ELSE F[i + 1]
      BY DEF Stored
    <2>4. ~(marked /\ i = n) => F[i + 1] \in Clusters
      <3> SUFFICES ASSUME ~(marked /\ i = n) PROVE F[i + 1] \in Clusters
        OBVIOUS
      <3>1. i + 1 \in 1 .. Len(F)
        BY <1>1, <1>5
      <3> QED
        BY <3>1, <1>1
    <2>5. EOC # Free
      BY DEF EOC, Free
    <2> QED
      BY <2>2, <2>3, <2>4, <2>5, <1>1, ClustersAreFinite
  <1>12. p = [i \in 1 .. n |-> F[i]]
    BY DEF FirstOf
  <1>13. /\ p \in Seq(Clusters \ {2}) /\ Len(p) = n
         /\ \A i \in 1 .. n : p[i] = F[i]
         /\ p # <<>> <=> n # 0
    <2>1. \A i \in 1 .. n : F[i] \in Clusters \ {2}
      BY <1>11
    <2>2. p \in [1 .. n -> Clusters \ {2}]
      BY <2>1, <1>12
    <2> QED
      BY <2>2, <1>5, <1>12
  <1>14. p # <<>> => p[1] = e.start
    <2>1. n # 0 => 1 \in 1 .. n
      BY <1>5
    <2> QED
      BY <2>1, <1>1, <1>13
  <1>15. \A i, j \in 1 .. n : p[i] = p[j] => i = j
    <2> TAKE i, j \in 1 .. n
    <2>1. i \in 1 .. Len(F) /\ j \in 1 .. Len(F)
      BY <1>1, <1>5
    <2> QED
      BY <2>1, <1>1, <1>13
  <1>16. \A i \in 1 .. n - 1 : w.fat[1][p[i]] = p[i + 1]
    <2> TAKE i \in 1 .. n - 1
    <2>1. i \in 1 .. n /\ i # n /\ i + 1 \in 1 .. n
      BY <1>5
    <2> QED
      BY <2>1, <1>11, <1>13
  <1>17. \A i \in 1 .. n : w.fat[1][p[i]] # Free /\ Len(w.area[p[i]]) = ClusterSize
    <2> TAKE i \in 1 .. n
    <2>1. w.area[p[i]] = DataCells(Piece(data, i)) /\ w.fat[1][p[i]] # Free
      BY <1>11, <1>13
    <2>2. Len(DataCells(Piece(data, i))) = ClusterSize
      BY Geometry DEF DataCells
    <2> QED
      BY <2>1, <2>2
  <1>18. \A i \in 1 .. n, j \in 1 .. ClusterSize :
           Place(i, j) <= b => w.area[p[i]][j] = kept[Place(i, j)]
    <2> SUFFICES ASSUME NEW i \in 1 .. n, NEW j \in 1 .. ClusterSize, Place(i, j) <= b
                 PROVE  w.area[p[i]][j] = kept[Place(i, j)]
      OBVIOUS
    <2>1. i \in Nat \ {0}
      BY <1>5
    <2>2. Place(i, j) \in 1 .. b /\ Place(i, j) <= Len(data)
      <3>1. PICK x \in Nat \ {0} : x = Place(i, j)
        BY <2>1, PlaceIs
      <3>2. x <= b /\ b \in Nat /\ b <= Len(data)
        BY <3>1, <1>7, <1>8
      <3>3. x \in 1 .. b /\ x <= Len(data)
        BY <3>2, <1>7
      <3> QED
        BY <3>1, <3>3
    <2>3. DataCells(Piece(data, i))[j] = data[Place(i, j)]
      BY <2>1, <2>2, CellIs
    <2>4. w.area[p[i]] = DataCells(Piece(data, i))
      BY <1>11, <1>13
    <2> QED
      BY <2>2, <2>3, <2>4, <1>9
  <1>19. marked => p # <<>> /\ w.fat[1][p[n]] = EOC
    <2> SUFFICES ASSUME marked PROVE p # <<>> /\ w.fat[1][p[n]] = EOC
      OBVIOUS
    <2>1. n # 0 /\ n \in 1 .. n
      BY <1>5
    <2> QED
      BY <2>1, <1>11, <1>13
  <1>20. Holds(w, e, p, kept, marked)
    <2>1. e.size = Len(kept) /\ Len(kept) <= n * ClusterSize
      BY <1>6, <1>9, <1>10
    <2>2. \A i \in 1 .. n, j \in 1 .. ClusterSize :
           Place(i, j) <= Len(kept) => w.area[p[i]][j] = kept[Place(i, j)]
      BY <1>9, <1>18
    <2>3. p \in Seq(Clusters \ {2}) /\ Len(p) = n
      BY <1>13
    <2> QED
      BY ONLY <2>1, <2>2, <2>3, <1>9, <1>14, <1>15, <1>16, <1>17, <1>19 DEF Holds
  <1> QED
    BY <1>11, <1>13, <1>20

(* The histories when slot r gets a file.                                  *)
Logged(I, U, I2, U2, r, data, marked) ==
    /\ DOMAIN I2 = DOMAIN I \cup {r}
    /\ I2[r] = data
    /\ \A s \in DOMAIN I \ {r} : I2[s] = I[s]
    /\ U \subseteq U2
    /\ marked \/ r \in U2

LEMMA KeptAdd ==
    ASSUME NEW v, NEW path, NEW I, NEW U, Kept(v, path, I, U), Files(v) = DOMAIN I,
           NEW w, NEW d, NEW i, NEW x, SlotGets(v, w, d, i, x), x # NoEntry,
           NEW r, r = <<d, i>>, r \notin Files(v),
           NEW p, NEW data, NEW marked, Holds(v, x, p, data, marked),
           \A s \in Files(v) : \A j \in 1 .. Len(p), k \in 1 .. Len(path[s]) :
              p[j] # path[s][k],
           NEW I2, NEW U2, Logged(I, U, I2, U2, r, data, marked)
    PROVE  \E path2 : Kept(w, path2, I2, U2) /\ Files(w) = DOMAIN I2
  <1> DEFINE path2 == WithPath(path, Files(w), r, p)
  <1>1. Furnished(v)
    BY DEF Kept
  <1>2. Furnished(w) /\ FilesAre(v, w, r, x)
    BY <1>1, SlotKeeps
  <1>3. /\ Files(w) = Files(v) \cup {r}
        /\ At(w, r) = x
        /\ \A s \in Files(v) : At(w, s) = At(v, s)
        /\ w.fat = v.fat
        /\ \A c \in Clusters \ {2} : w.area[c] = v.area[c]
    BY <1>2 DEF FilesAre
  <1>4. \A s \in Files(w) : path2[s] = IF s = r THEN p ELSE path[s]
    BY DEF WithPath
  <1> HIDE DEF path2
  <1>5. DOMAIN I2 = Files(w)
    BY <1>3 DEF Logged
  <1>6. ASSUME NEW e, NEW q, NEW held, NEW m, NEW m2, Holds(v, e, q, held, m), m2 => m
        PROVE  Holds(w, e, q, held, m2)
    <2>1. \A j \in 1 .. Len(q) : w.fat[1][q[j]] = v.fat[1][q[j]] /\ w.area[q[j]] = v.area[q[j]]
      <3> TAKE j \in 1 .. Len(q)
      <3>1. q[j] \in Clusters /\ q[j] # 2
        BY <1>6, HeldClusters
      <3> QED
        BY <3>1, <1>3
    <2> QED
      BY <2>1, <1>6, HoldsSame
  <1>7. ASSUME NEW s \in Files(w)
        PROVE  Holds(w, At(w, s), path2[s], I2[s], s \notin U2)
    <2>1. PICK m2 : m2 = (s \notin U2)
      OBVIOUS
    <2>2. CASE s = r
      <3>1. At(w, s) = x /\ path2[s] = p /\ I2[s] = data
        BY <2>2, <1>3, <1>4 DEF Logged
      <3>2. m2 => marked
        BY <2>1, <2>2 DEF Logged
      <3>3. Holds(w, x, p, data, m2)
        BY <3>2, <1>6
      <3> QED
        BY <3>1, <3>3, <2>1
    <2>3. CASE s # r
      <3>1. s \in Files(v)
        BY <2>3, <1>3
      <3>2. At(w, s) = At(v, s) /\ path2[s] = path[s] /\ I2[s] = I[s]
        BY <3>1, <2>3, <1>3, <1>4 DEF Logged
      <3>3. PICK m : m = (s \notin U)
        OBVIOUS
      <3>4. Holds(v, At(v, s), path[s], I[s], m)
        BY <3>1, <3>3 DEF Kept
      <3>5. m2 => m
        BY <2>1, <3>3 DEF Logged
      <3>6. Holds(w, At(v, s), path[s], I[s], m2)
        BY <3>4, <3>5, <1>6
      <3> QED
        BY <3>2, <3>6, <2>1
    <2> QED
      BY <2>2, <2>3
  <1>8. Apart(path2, Files(w))
    <2>1. ASSUME NEW s \in Files(w), NEW t \in Files(w),
                 NEW j \in 1 .. Len(path2[s]), NEW k \in 1 .. Len(path2[t]),
                 path2[s][j] = path2[t][k], s # t
          PROVE  FALSE
      <3>1. CASE s = r
        <4>1. t \in Files(v) /\ path2[t] = path[t] /\ path2[s] = p
          BY <3>1, <2>1, <1>3, <1>4
        <4> QED
          BY <4>1, <2>1
      <3>2. CASE t = r
        <4>1. s \in Files(v) /\ path2[s] = path[s] /\ path2[t] = p
          BY <3>2, <2>1, <1>3, <1>4
        <4> QED
          BY <4>1, <2>1
      <3>3. CASE s # r /\ t # r
        <4>1. s \in Files(v) /\ path2[s] = path[s] /\ t \in Files(v) /\ path2[t] = path[t]
          BY <3>3, <2>1, <1>3, <1>4
        <4>2. Apart(path, Files(v))
          BY DEF Kept
        <4> QED
          BY <4>1, <4>2, <2>1 DEF Apart
      <3> QED
        BY <3>1, <3>2, <3>3
    <2> QED
      BY <2>1 DEF Apart
  <1>9. Kept(w, path2, I2, U2)
    BY <1>2, <1>5, <1>7, <1>8 DEF Kept
  <1> QED
    BY <1>5, <1>9

LEMMA KeptRemove ==
    ASSUME NEW u, NEW path, NEW I, NEW U, Kept(u, path, I, U), Files(u) = DOMAIN I,
           NEW r \in Files(u),
           NEW w, w = Without(u, ToSet(path[r]), r),
           NEW I2, DOMAIN I2 = DOMAIN I \ {r}, \A s \in DOMAIN I \ {r} : I2[s] = I[s],
           NEW U2, U \subseteq U2 \cup {r}
    PROVE  Kept(w, path, I2, U2) /\ Files(w) = DOMAIN I2
  <1>1. Furnished(u) /\ u \in Volumes /\ Apart(path, Files(u))
    BY DEF Kept, Furnished
  <1>2. PICK C : C = ToSet(path[r])
    OBVIOUS
  <1>3. C = {path[r][j] : j \in 1 .. Len(path[r])} /\ 2 \notin C
    <2>1. Holds(u, At(u, r), path[r], I[r], r \notin U)
      BY DEF Kept
    <2>2. path[r] \in Seq(Clusters \ {2})
      BY <2>1 DEF Holds
    <2> QED
      BY <2>2, <1>2 DEF ToSet
  <1>4. PICK v : v = Freed(u, C)
    OBVIOUS
  <1>5. /\ v.root = u.root /\ v.area = u.area
        /\ \A f \in Copies, b \in Clusters :
             v.fat[f][b] = IF b \in C THEN Free ELSE u.fat[f][b]
    BY <1>1, <1>4, FreedIs
  <1>6. v \in OffSame(u, C)
    <2>1. v \in Volumes
      BY <1>1, <1>4, FreedType DEF Volumes
    <2> QED
      BY <2>1, <1>5, FirstCopy DEF OffSame
  <1>7. /\ Furnished(v)
        /\ Files(v) = Files(u)
        /\ \A d \in Dirs : Slots(v, d) = Slots(u, d)
        /\ \A s \in Files(u) : At(v, s) = At(u, s)
    BY <1>1, <1>3, <1>6, OffSameFurnished
  <1>8. r \in Filled(u) /\ ~At(u, r).dir
    BY DEF Files
  <1>9. /\ r[1] \in Dirs /\ r[2] \in DOMAIN Slots(u, r[1])
        /\ r = <<r[1], r[2]>> /\ At(u, r) = Slots(u, r[1])[r[2]]
    BY <1>1, <1>8, FilledType DEF Filled
  <1>10. SlotGets(v, w, r[1], r[2], NoEntry)
    <2>1. w = After(v, SlotUpdate(r[1], r[2], NoEntry))
      BY <1>2, <1>4 DEF Without
    <2>2. Slots(v, r[1]) = Slots(u, r[1])
      BY <1>7, <1>9
    <2>3. PICK d, i, e : d = r[1] /\ i = r[2] /\ e = Slots(v, r[1])[r[2]]
      OBVIOUS
    <2>4. ~e.dir
      BY <2>2, <2>3, <1>8, <1>9
    <2>5. d \in Dirs /\ i \in DOMAIN Slots(v, d) /\ e = Slots(v, d)[i]
      BY <2>2, <2>3, <1>9
    <2>6. w = After(v, SlotUpdate(d, i, NoEntry))
      BY <2>1, <2>3
    <2>7. SlotGets(v, w, d, i, NoEntry)
      BY ONLY <2>4, <2>5, <2>6 DEF SlotGets
    <2> QED
      BY <2>3, <2>7
  <1>11. Furnished(w) /\ FilesAre(v, w, r, NoEntry)
    BY <1>7, <1>9, <1>10, SlotKeeps
  <1>12. /\ Files(w) = Files(u) \ {r}
         /\ \A s \in Files(u) \ {r} : At(w, s) = At(u, s)
         /\ w.fat = v.fat
         /\ \A c \in Clusters \ {2} : w.area[c] = u.area[c]
    BY <1>5, <1>7, <1>11 DEF FilesAre
  <1>13. ASSUME NEW s \in Files(w)
         PROVE  Holds(w, At(w, s), path[s], I2[s], s \notin U2)
    <2>1. s \in Files(u) /\ s # r /\ At(w, s) = At(u, s) /\ I2[s] = I[s]
      BY <1>12
    <2>2. PICK e : e = At(u, s)
      OBVIOUS
    <2>3. PICK p : p = path[s]
      OBVIOUS
    <2>4. PICK data : data = I[s]
      OBVIOUS
    <2>5. PICK m : m = (s \notin U)
      OBVIOUS
    <2>6. PICK m2 : m2 = (s \notin U2)
      OBVIOUS
    <2>7. Holds(u, e, p, data, m)
      BY <2>1, <2>2, <2>3, <2>4, <2>5 DEF Kept
    <2>8. m2 => m
      BY <2>1, <2>5, <2>6
    <2>9. \A j \in 1 .. Len(p) : w.fat[1][p[j]] = u.fat[1][p[j]] /\ w.area[p[j]] = u.area[p[j]]
      <3> TAKE j \in 1 .. Len(p)
      <3>1. p[j] \in Clusters /\ p[j] # 2
        BY <2>7, HeldClusters
      <3>2. p[j] \notin C
        BY <2>1, <2>3, <1>1, <1>3 DEF Apart
      <3> QED
        BY <3>1, <3>2, <1>5, <1>12, FirstCopy
    <2>10. Holds(w, e, p, data, m2)
      BY <2>7, <2>8, <2>9, HoldsSame
    <2> QED
      BY <2>1, <2>2, <2>3, <2>4, <2>6, <2>10
  <1>14. Apart(path, Files(w))
    BY <1>1, <1>12 DEF Apart
  <1>15. Files(w) = DOMAIN I2
    BY <1>12
  <1> QED
    BY <1>11, <1>13, <1>14, <1>15 DEF Kept

-----------------------------------------------------------------------------
(* The steps.                                                              *)

LEMMA TrackVolumes ==
    ASSUME NEW q, NEW I, NEW U
    PROVE  Track(q, I, U) \subseteq Volumes
  BY DEF Track, Harmless

(* One write of the queue.                                                 *)
LEMMA FlushArrives ==
    ASSUME NEW q, NEW v, NEW I, NEW U, Arrives(q, v, I, U), q # <<>>
    PROVE  Arrives(Tail(q), After(v, Head(q)), I, U)
  <1>1. PICK w, path : /\ Kept(w, path, I, U) /\ Files(w) = DOMAIN I
                       /\ q \in Seq(Updates)
                       /\ Runs(q, v, w, Track(q, I, U))
    BY DEF Arrives
  <1>2. PICK P : P = Track(q, I, U)
    OBVIOUS
  <1>3. Runs(q, v, w, P)
    BY <1>1, <1>2
  <1>4. Runs(Tail(q), After(v, Head(q)), w, P)
    BY <1>1, <1>3, RunsFlush
  <1>5. PICK t : t = Tail(q)
    OBVIOUS
  <1>6. t \in Seq(Updates)
    BY <1>1, <1>5
  <1>7. P \subseteq Track(t, I, U)
    <2>1. CASE t = <<>>
      <3>1. Track(t, I, U) = Volumes
        BY <2>1 DEF Track
      <3> QED
        BY <3>1, <1>2, TrackVolumes
    <2>2. CASE t # <<>>
      <3>1. Last(t) = Last(q)
        BY <2>2, <1>1, <1>5, TailLast
      <3> QED
        BY <2>2, <3>1, <1>2 DEF Track
    <2> QED
      BY <2>1, <2>2
  <1>8. PICK x : x = After(v, Head(q))
    OBVIOUS
  <1>9. Runs(t, x, w, Track(t, I, U))
    <2>1. Runs(t, x, w, P)
      BY <1>4, <1>5, <1>8
    <2> QED
      BY <2>1, <1>7, RunsMore
  <1>10. Arrives(t, x, I, U)
    BY <1>1, <1>6, <1>9 DEF Arrives
  <1> QED
    BY <1>5, <1>8, <1>10

(* Between two commands.                                                   *)
LEMMA IdleKept ==
    ASSUME NEW v, NEW I, NEW U
    PROVE  Arrives(<<>>, v, I, U) <=> \E path : Kept(v, path, I, U) /\ Files(v) = DOMAIN I
  <1> DEFINE none == <<>>
  <1>1. none \in Seq(Updates) /\ Track(none, I, U) = Volumes
    BY DEF Track
  <1>2. ASSUME NEW w, NEW path, Kept(w, path, I, U), Runs(none, v, w, Track(none, I, U))
        PROVE  v = w
    BY <1>2, RunsNothing
  <1>3. ASSUME NEW path, Kept(v, path, I, U)
        PROVE  Runs(none, v, v, Track(none, I, U))
    <2>1. v \in Track(none, I, U)
      BY <1>1, <1>3 DEF Kept, Furnished
    <2> QED
      BY <2>1, RunsNone
  <1> HIDE DEF none
  <1>4. Arrives(none, v, I, U) => \E path : Kept(v, path, I, U) /\ Files(v) = DOMAIN I
    BY <1>2 DEF Arrives
  <1>5. (\E path : Kept(v, path, I, U) /\ Files(v) = DOMAIN I) => Arrives(none, v, I, U)
    BY <1>1, <1>3 DEF Arrives
  <1> QED
    BY <1>4, <1>5 DEF none

LEMMA WriteArrives ==
    ASSUME ShellInv, ~spoilt, NEW path \in WritePaths, NEW data \in Inputs,
           write(path, data),
           NEW q, q = pending', NEW I2, I2 = input', NEW U2, U2 = unmarked'
    PROVE  Arrives(q, Disk, I2, U2)
  <1>1. PICK d, slot, e, r :
          /\ d = WriteDir(path)
          /\ slot = FreeSlot(read_directory(d))
          /\ e = [name |-> format_to_fat_name(path.name), dir |-> FALSE,
                  start |-> LowestFree, size |-> BytesWritten(data)]
          /\ r = <<d, slot>>
    OBVIOUS
  <1>2. /\ pending = <<>>
        /\ d # Lost /\ slot # 0 /\ LowestFree # 0
        /\ q = FileWrites(d, slot, e, data)
        /\ I2 = [ref \in DOMAIN input \cup {r} |->
                   IF ref = r THEN SubSeq(data, 1, BytesWritten(data)) ELSE input[ref]]
        /\ U2 = IF EndMarked(data) THEN unmarked ELSE unmarked \cup {r}
    BY <1>1 DEF write, Idle
  <1>3. current_dir \in Dirs /\ Arrives(pending, Disk, input, unmarked)
    BY DEF ShellInv
  <1>4. PICK paths : Kept(Disk, paths, input, unmarked) /\ Files(Disk) = DOMAIN input
    BY <1>2, <1>3, IdleKept
  <1>5. Furnished(Disk) /\ VolumeOK /\ Disk \in Volumes
    BY <1>4 DEF Kept, Furnished, VolumeOK
  <1>6. path.dirs \in Seq(Names) /\ path.name \in Names /\ data \in Seq(Units)
        /\ format_to_fat_name(path.name) \notin {Dot, DotDot}
    BY ShellAssumption
  <1>7. d \in Dirs
    <2>1. PICK d0 \in Dirs : d = change_dir(d0, path.dirs)
      BY <1>1, <1>3, DirsAre DEF WriteDir
    <2> QED
      BY <2>1, <1>2, <1>5, <1>6, ChangeDirDirs
  <1>8. /\ slot \in DOMAIN Slots(Disk, d) /\ Slots(Disk, d)[slot] = NoEntry
    <2>1. read_directory(d) = Slots(Disk, d)
      BY <1>5, <1>7, DirectoryIsSlots
    <2>2. /\ DOMAIN Slots(Disk, d) = 1 .. Len(Slots(Disk, d))
          /\ Len(Slots(Disk, d)) \in Nat
      BY <1>5, <1>7, DirsAre, SlotsType
    <2>3. PICK entries : entries = Slots(Disk, d)
      OBVIOUS
    <2>4. PICK n \in Nat : n = Len(entries)
      BY <2>2, <2>3
    <2>5. slot \in 0 .. n /\ entries[slot] = NoEntry
      BY <2>1, <2>3, <2>4, <1>1, <1>2, FoundSlot
    <2> QED
      BY <2>2, <2>3, <2>4, <2>5, <1>2
  <1>9. r \notin Files(Disk)
    <2>1. r[1] = d /\ r[2] = slot
      BY <1>1
    <2>2. At(Disk, r) = NoEntry
      BY <2>1, <1>8 DEF At
    <2> QED
      BY <2>2, DirsAre DEF Files, Filled
  <1>10. PICK F : F = FreeInOrder
    OBVIOUS
  <1>11. PICK marked : marked = EndMarked(data)
    OBVIOUS
  <1>12. PICK n : n = IF marked THEN Linked(data) + 1 ELSE Linked(data)
    OBVIOUS
  <1>13. PICK P : P = OffSame(Disk, FreeClusters)
    OBVIOUS
  <1>14. PICK a : a = ClusterWrites(data)
    OBVIOUS
  <1>15. /\ a \in Seq(Updates)
         /\ \E v \in P : Runs(a, Disk, v, P) /\ Stored(v, F, data, n, marked)
    BY <1>2, <1>5, <1>6, <1>10, <1>11, <1>12, <1>13, <1>14, FillRuns
  <1>16. PICK v \in P : Runs(a, Disk, v, P) /\ Stored(v, F, data, n, marked)
    BY <1>15
  <1>17. PICK kept : kept = SubSeq(data, 1, BytesWritten(data))
    OBVIOUS
  <1>18. Logged(input, unmarked, I2, U2, r, kept, marked)
    BY <1>2, <1>11, <1>17 DEF Logged
  <1>19. \A c \in FreeClusters : Disk.fat[1][c] = Free
    BY DEF FreeClusters, get_fat_entry, Disk
  <1>20. Agree(Disk, input, unmarked, I2, U2) /\ Agree(Disk, input, unmarked, input, unmarked)
    BY <1>4, <1>9, <1>18 DEF Agree, Logged
  <1>21. P \subseteq Harmless(I2, U2)
    <2> SUFFICES ASSUME NEW u \in P PROVE u \in Harmless(I2, U2)
      OBVIOUS
    <2>1. Kept(u, paths, I2, U2)
      BY <1>4, <1>13, <1>19, <1>20, OffSameKept
    <2> QED
      BY <2>1 DEF Harmless, Kept, Furnished
  <1>22. /\ Kept(v, paths, input, unmarked) /\ Files(v) = Files(Disk)
         /\ \A b \in Dirs : Slots(v, b) = Slots(Disk, b)
    BY <1>4, <1>13, <1>16, <1>19, <1>20, OffSameKept
  <1>23. /\ e \in Entries /\ IsLive(e) /\ ~e.dir /\ e # NoEntry
         /\ e.size = BytesWritten(data) /\ e.start = LowestFree
         /\ FileName(e.name)
    <2>1. /\ e.name = format_to_fat_name(path.name) /\ e.dir = FALSE
          /\ e.size = BytesWritten(data) /\ e.start = LowestFree
      BY <1>1
    <2>2. format_to_fat_name(path.name) \in Names
      BY <1>6 DEF format_to_fat_name, Names
    <2>3. LowestFree \in Nat
      BY <1>2, LowestFreeIs, ClustersAreFinite
    <2>4. BytesWritten(data) \in Nat
      BY <1>2, <1>6, <1>10, Fits
    <2>5. e \in Entries
      BY <2>2, <2>3, <2>4, <1>1 DEF Entries
    <2>6. IsLive(e)
      BY <2>1, <2>5, <1>6, EntryIsLive
    <2>7. e # NoEntry
      BY <2>6, DirsAre DEF IsLive
    <2>8. FileName(e.name)
      <3>1. format_to_fat_name(format_to_fat_name(path.name)) = format_to_fat_name(path.name)
        BY DEF format_to_fat_name
      <3> QED
        BY <3>1, <2>1, <1>6 DEF FileName
    <2> QED
      BY <2>1, <2>5, <2>6, <2>7, <2>8
  <1>24. PICK p : p = FirstOf(F, n)
    OBVIOUS
  <1>25. /\ Holds(v, e, p, kept, marked)
         /\ \A i \in 1 .. Len(p) : p[i] \in FreeClusters
    <2>1. 2 \notin FreeClusters
      <3>1. Disk.fat[1][2] = EOC /\ EOC # Free
        BY <1>5 DEF Furnished, EOC, Free
      <3> QED
        BY <3>1, <1>19
    <2>2. LowestFree # 0 /\ data \in Seq(Units)
      BY <1>2, <1>6
    <2>3. Stored(v, F, data, n, marked)
      BY <1>16
    <2>4. e.size = BytesWritten(data) /\ e.start = LowestFree
      BY <1>23
    <2> QED
      BY ONLY <2>1, <2>2, <2>3, <2>4, <1>10, <1>11, <1>12, <1>17, <1>24, StoredHolds
  <1>26. \A s \in Files(v) : \A j \in 1 .. Len(p), k \in 1 .. Len(paths[s]) :
           p[j] # paths[s][k]
    <2> SUFFICES ASSUME NEW s \in Files(v), NEW j \in 1 .. Len(p),
                        NEW k \in 1 .. Len(paths[s])
                 PROVE  p[j] # paths[s][k]
      OBVIOUS
    <2>1. PICK m : m = (s \notin unmarked)
      OBVIOUS
    <2>2. Holds(Disk, At(Disk, s), paths[s], input[s], m)
      BY <2>1, <1>4, <1>22 DEF Kept
    <2>3. Disk.fat[1][paths[s][k]] # Free
      BY <2>2, HeldClusters
    <2>4. Disk.fat[1][p[j]] = Free
      BY <1>19, <1>25
    <2> QED
      BY <2>3, <2>4
  <1>27. PICK w : w = After(v, SlotUpdate(d, slot, e))
    OBVIOUS
  <1>28. SlotGets(v, w, d, slot, e)
    <2>1. Slots(v, d) = Slots(Disk, d)
      BY <1>7, <1>22
    <2>2. slot \in DOMAIN Slots(v, d) /\ ~IsEntry(Slots(v, d)[slot])
      BY <2>1, <1>8, DirsAre
    <2> QED
      BY <2>2, <1>7, <1>23, <1>27 DEF SlotGets
  <1>29. \E path2 : Kept(w, path2, I2, U2) /\ Files(w) = DOMAIN I2
    <2>1. PICK I, U : I = input /\ U = unmarked
      OBVIOUS
    <2>2. Kept(v, paths, I, U) /\ Files(v) = DOMAIN I
      BY <2>1, <1>4, <1>22
    <2>3. Logged(I, U, I2, U2, r, kept, marked) /\ r \notin Files(v) /\ r = <<d, slot>>
      BY <2>1, <1>1, <1>9, <1>18, <1>22
    <2> QED
      BY <2>2, <2>3, <1>23, <1>25, <1>26, <1>28, KeptAdd
  <1>30. PICK H : H = Harmless(I2, U2)
    OBVIOUS
  <1>31. PICK b : b = SlotWrite(d, slot, e)
    OBVIOUS
  <1>32. Runs(b, v, w, H)
    <2>1. w \in H /\ v \in H
      BY <1>21, <1>29, <1>30 DEF Harmless, Kept, Furnished
    <2>2. b = <<SlotUpdate(d, slot, e)>>
      BY <1>31 DEF SlotWrite, SlotUpdate
    <2> QED
      BY <2>1, <2>2, <1>27, RunsOne
  <1>33. b \in Seq(Updates) /\ Len(b) = 1 /\ b[1].value = e
    <2>1. e \in Contents /\ d \in Nat /\ slot \in Nat
      <3>1. slot \in DOMAIN Slots(Disk, d) /\ DOMAIN Slots(Disk, d) = 1 .. Len(Slots(Disk, d))
        BY <1>5, <1>7, <1>8, DirsAre, SlotsType
      <3> QED
        BY <3>1, <1>7, <1>23, DirsAre, ClustersAreFinite DEF Contents, RootDir
    <2>2. SlotUpdate(d, slot, e) \in Updates
      BY <2>1 DEF SlotUpdate, Updates, Writes
    <2>3. b = <<SlotUpdate(d, slot, e)>> /\ SlotUpdate(d, slot, e).value = e
      BY <1>31 DEF SlotWrite, SlotUpdate
    <2> QED
      BY <2>2, <2>3
  <1>34. Runs(a, Disk, v, H)
    BY <1>16, <1>21, <1>30, RunsMore
  <1>35. q = a \o b
    BY <1>2, <1>14, <1>31 DEF FileWrites
  <1>36. Runs(q, Disk, w, H)
    BY <1>15, <1>32, <1>33, <1>34, <1>35, RunsConcat
  <1>37. q \in Seq(Updates) /\ q # <<>> /\ Last(q) = b[1]
    BY <1>15, <1>33, <1>35, LastOf
  <1>38. Track(q, I2, U2) = H
    BY <1>23, <1>30, <1>33, <1>37 DEF Track
  <1> QED
    BY <1>29, <1>36, <1>37, <1>38 DEF Arrives

LEMMA RmArrives ==
    ASSUME ShellInv, ~spoilt, NEW name, rm(name), ~spoilt',
           NEW q, q = pending', NEW I2, I2 = input', NEW U2, U2 = unmarked'
    PROVE  Arrives(q, Disk, I2, U2)
  <1>1. PICK i : i = find_entry_by_name(read_directory(current_dir), name)
    OBVIOUS
  <1>2. PICK d, e, r : /\ d = current_dir
                       /\ e = read_directory(d)[i]
                       /\ r = <<d, i>>
    OBVIOUS
  <1>3. /\ pending = <<>> /\ i # 0 /\ ~e.dir
        /\ q = FreeingWrites(Chain(e.start)) \o SlotWrite(d, i, NoEntry)
        /\ I2 = [ref \in DOMAIN input \ {r} |-> input[ref]]
        /\ U2 = unmarked \ {r}
        /\ r \notin unmarked
    BY <1>1, <1>2 DEF rm, Idle
  <1>4. d \in Dirs /\ Arrives(pending, Disk, input, unmarked)
    BY <1>2 DEF ShellInv
  <1>5. PICK paths : Kept(Disk, paths, input, unmarked) /\ Files(Disk) = DOMAIN input
    BY <1>3, <1>4, IdleKept
  <1>6. Furnished(Disk) /\ VolumeOK /\ Disk \in Volumes
    BY <1>5 DEF Kept, Furnished, VolumeOK
  <1>7. r \in Filled(Disk) /\ e = At(Disk, r)
    BY <1>1, <1>2, <1>3, <1>4, <1>6, FoundFilled
  <1>8. r \in Files(Disk)
    BY <1>3, <1>7 DEF Files
  <1>9. PICK p : p = paths[r]
    OBVIOUS
  <1>10. Chain(e.start) = p /\ p \in Seq(Clusters)
    <2>1. PICK m : m = (r \notin unmarked)
      OBVIOUS
    <2>2. Holds(Disk, e, p, input[r], m) /\ m
      BY <2>1, <1>3, <1>5, <1>7, <1>8, <1>9 DEF Kept
    <2>3. OnPath(Disk, p, e.start)
      BY <2>2, <1>6, HoldsReads
    <2> QED
      BY <2>3, ChainIsPath DEF OnPath
  <1>11. PICK C : C = ToSet(p)
    OBVIOUS
  <1>12. PICK u \in Volumes : u = Disk
    BY <1>6
  <1>13. PICK v : v = Freed(u, C)
    OBVIOUS
  <1>14. PICK a : a = FreeingWrites(p)
    OBVIOUS
  <1>15. Runs(a, u, v, Volumes) /\ v \in Volumes /\ a \in Seq(Updates)
    <2>1. ToSet(p) \subseteq Clusters
      BY <1>10 DEF ToSet
    <2> QED
      BY <2>1, <1>10, <1>11, <1>13, <1>14, VolumesTame, FreeingRuns
  <1>16. PICK b : b = SlotWrite(d, i, NoEntry)
    OBVIOUS
  <1>17. PICK w : w = After(v, SlotUpdate(d, i, NoEntry))
    OBVIOUS
  <1>18. SlotUpdate(d, i, NoEntry) \in SlotUpdates
    <2>1. i \in Nat /\ d \in Nat /\ NoEntry \in Contents
      <3>1. r[2] = i /\ r[2] \in Nat
        BY <1>2, <1>6, <1>7, FilledType
      <3> QED
        BY <3>1, <1>4, DirsAre, ClustersAreFinite DEF RootDir
    <2> QED
      BY <2>1 DEF SlotUpdate, SlotUpdates
  <1>19. Runs(b, v, w, Volumes) /\ b \in Seq(Updates)
    BY <1>15, <1>16, <1>17, <1>18, VolumesTame, SlotRuns
  <1>20. Runs(a \o b, u, w, Volumes)
    BY <1>15, <1>19, RunsConcat
  <1>21. q = a \o b
    BY <1>3, <1>10, <1>14, <1>16
  <1>22. Kept(w, paths, I2, U2) /\ Files(w) = DOMAIN I2
    <2>1. w = Without(Disk, ToSet(paths[r]), r)
      <3>1. r[1] = d /\ r[2] = i
        BY <1>2
      <3> QED
        BY <3>1, <1>9, <1>11, <1>12, <1>13, <1>17 DEF Without
    <2>2. PICK I, U : I = input /\ U = unmarked
      OBVIOUS
    <2>3. Kept(u, paths, I, U) /\ Files(u) = DOMAIN I /\ r \in Files(u)
      BY <2>2, <1>5, <1>8, <1>12
    <2>4. /\ DOMAIN I2 = DOMAIN I \ {r}
          /\ \A s \in DOMAIN I \ {r} : I2[s] = I[s]
          /\ U \subseteq U2 \cup {r}
      BY <2>2, <1>3
    <2>5. w = Without(u, ToSet(paths[r]), r)
      BY <2>1, <1>12
    <2> QED
      BY <2>3, <2>4, <2>5, KeptRemove
  <1>23. Len(b) = 1 /\ b[1].value = NoEntry
    BY <1>16 DEF SlotWrite
  <1>24. q \in Seq(Updates) /\ q # <<>> /\ Last(q) = b[1]
    BY <1>15, <1>19, <1>21, <1>23, LastOf
  <1>25. Track(q, I2, U2) = Volumes
    BY <1>23, <1>24 DEF Track
  <1>26. Runs(q, Disk, w, Track(q, I2, U2))
    BY <1>12, <1>20, <1>21, <1>25
  <1> QED
    BY <1>22, <1>24, <1>26 DEF Arrives

LEMMA ShellInit ==
    ASSUME Init
    PROVE  ShellInv
  <1> DEFINE none == <<>>
             F == [c \in Clusters |-> IF c = 2 THEN EOC ELSE Free]
             R == [i \in 1 .. RootDirEntries |-> IF i = 1 THEN DirEntry(Dir, 2) ELSE NoEntry]
             S == [k \in 1 .. DirEntriesPerCluster |->
                     IF k = 1 THEN DirEntry(Dot, 2)
                     ELSE IF k = 2 THEN DirEntry(DotDot, RootDir) ELSE NoEntry]
             Z == [k \in 1 .. ClusterSize |-> Zero]
             A == [c \in Clusters |-> IF c = 2 THEN S ELSE Z]
  <1>1. fat = [f \in Copies |-> F] /\ root = R /\ area = A
    BY DEF Init
  <1>2. /\ pending = none /\ current_dir = RootDir /\ input = none /\ unmarked = {}
    BY DEF Init
  <1>3. F \in [Clusters -> Nat] /\ F[2] = EOC
    BY DirsAre, ClustersAreFinite
  <1>4. DirEntry(Dot, 2) \in Entries /\ DirEntry(DotDot, RootDir) \in Entries
        /\ DirEntry(Dot, 2).dir /\ DirEntry(DotDot, RootDir).dir
        /\ DirEntry(Dot, 2).start = 2 /\ DirEntry(DotDot, RootDir).start = RootDir
    <2>1. Dot \in Names /\ DotDot \in Names
      BY DEF Dot, DotDot, Names
    <2> QED
      BY <2>1 DEF DirEntry, Entries, RootDir
  <1>5. S \in [1 .. DirEntriesPerCluster -> Contents]
        /\ \A k \in 1 .. DirEntriesPerCluster :
             IsEntry(S[k]) => S[k].dir /\ S[k].start \in Dirs
    <2>1. NoEntry \in Contents /\ Entries \subseteq Contents /\ ~IsEntry(NoEntry)
      BY DirsAre DEF Contents
    <2> QED
      BY <2>1, <1>4, DirsAre
  <1>6. R \in [1 .. RootDirEntries -> Contents]
        /\ R[1] = DirEntry(Dir, 2)
        /\ \A k \in 1 .. RootDirEntries : IsEntry(R[k]) => R[k].dir /\ R[k].start \in Dirs
    <2>1. NoEntry \in Contents /\ Entries \subseteq Contents /\ ~IsEntry(NoEntry)
      BY DirsAre DEF Contents
    <2>2. 1 \in 1 .. RootDirEntries
      BY Geometry
    <2> QED
      BY <2>1, <2>2, DirsAre
  <1>7. Z \in [1 .. ClusterSize -> Contents]
    BY DEF Contents
  <1> HIDE DEF F, R, S, Z
  <1>8. S \in Seq(Contents) /\ Z \in Seq(Contents) /\ Len(S) = DirEntriesPerCluster
    BY <1>5, <1>7, Geometry
  <1>9. A \in [Clusters -> Seq(Contents)] /\ A[2] = S
    BY <1>8, DirsAre
  <1> HIDE DEF A
  <1>10. Disk \in Volumes
    <2>1. fat \in [Copies -> [Clusters -> Nat]]
      BY <1>1, <1>3
    <2> QED
      BY <2>1, <1>1, <1>6, <1>9 DEF Volumes, Disks, Disk
  <1>11. ASSUME NEW r \in Filled(Disk)
         PROVE  At(Disk, r).dir /\ At(Disk, r).start \in Dirs
    <2>1. /\ IsEntry(At(Disk, r)) /\ r[1] \in Dirs
          /\ r[2] \in DOMAIN Slots(Disk, r[1]) /\ At(Disk, r) = Slots(Disk, r[1])[r[2]]
      BY DEF Filled, At
    <2>2. CASE r[1] = RootDir
      <3>1. Slots(Disk, r[1]) = R
        BY <2>2, <1>1 DEF Slots, Disk
      <3>2. r[2] \in 1 .. RootDirEntries
        BY <2>1, <3>1, <1>6
      <3> QED
        BY <2>1, <3>1, <3>2, <1>6
    <2>3. CASE r[1] # RootDir
      <3>1. Slots(Disk, r[1]) = S
        BY <2>1, <2>3, <1>1, <1>9 DEF Slots, Disk, Dirs
      <3>2. r[2] \in 1 .. DirEntriesPerCluster
        BY <2>1, <3>1, <1>5
      <3> QED
        BY <2>1, <3>1, <3>2, <1>5
    <2> QED
      BY <2>2, <2>3
  <1>12. Furnished(Disk)
    <2>1. /\ Disk.fat[1][2] = EOC /\ Disk.root[1] = DirEntry(Dir, 2)
          /\ Len(Disk.area[2]) = DirEntriesPerCluster
      BY <1>1, <1>3, <1>6, <1>8, <1>9, FirstCopy DEF Disk
    <2> QED
      BY <2>1, <1>10, <1>11 DEF Furnished
  <1>13. Files(Disk) = {}
    BY <1>11 DEF Files
  <1>14. DOMAIN none = {}
    OBVIOUS
  <1>15. Kept(Disk, none, none, {}) /\ Files(Disk) = DOMAIN none
    BY <1>12, <1>13, <1>14 DEF Kept, Apart
  <1>16. Arrives(<<>>, Disk, none, {})
    BY <1>15, IdleKept
  <1> QED
    BY <1>2, <1>16, DirsAre DEF ShellInv

LEMMA ShellNext ==
    ASSUME ShellInv, [Next]_vars
    PROVE  ShellInv'
  <1> SUFFICES ASSUME ~spoilt'
               PROVE  current_dir' \in Dirs /\ Arrives(pending', Disk', input', unmarked')
    BY DEF ShellInv
  <1>1. ~spoilt
    BY DEF Next, cd, write, rm, Flush, vars, history
  <1>2. current_dir \in Dirs /\ Arrives(pending, Disk, input, unmarked)
    BY <1>1 DEF ShellInv
  <1>3. CASE UNCHANGED vars
    BY <1>2, <1>3 DEF vars, volume, history, Disk
  <1>4. ASSUME NEW path \in CdPaths, cd(path)
        PROVE  current_dir' \in Dirs /\ Arrives(pending', Disk', input', unmarked')
    <2>1. /\ pending = <<>>
          /\ current_dir' # Lost
          /\ current_dir' = change_dir(IF path.abs THEN RootDir ELSE current_dir, path.dirs)
          /\ UNCHANGED <<fat, root, area, pending, input, unmarked>>
      BY <1>4 DEF cd, Idle, volume, history
    <2>2. \E paths : Kept(Disk, paths, input, unmarked)
      BY <2>1, <1>2, IdleKept
    <2>3. Furnished(Disk)
      BY <2>2 DEF Kept
    <2>4. PICK d0 \in Dirs : current_dir' = change_dir(d0, path.dirs)
      BY <2>1, <1>2, DirsAre
    <2>5. path.dirs \in Seq(Names)
      BY ShellAssumption
    <2>6. current_dir' \in Dirs
      <3>1. change_dir(d0, path.dirs) \in Dirs \cup {Lost}
        BY <2>3, <2>5, ChangeDirDirs
      <3> QED
        BY <3>1, <2>1, <2>4
    <2> QED
      BY <2>1, <2>6, <1>2 DEF Disk
  <1>5. ASSUME NEW path \in WritePaths, NEW data \in Inputs, write(path, data)
        PROVE  current_dir' \in Dirs /\ Arrives(pending', Disk', input', unmarked')
    <2>1. PICK q : q = pending'
      OBVIOUS
    <2>2. PICK I2 : I2 = input'
      OBVIOUS
    <2>3. PICK U2 : U2 = unmarked'
      OBVIOUS
    <2>4. Arrives(q, Disk, I2, U2)
      BY <2>1, <2>2, <2>3, <1>1, <1>5, WriteArrives
    <2>5. current_dir' = current_dir /\ Disk' = Disk
      BY <1>5 DEF write, volume, Disk
    <2> QED
      BY <2>1, <2>2, <2>3, <2>4, <2>5, <1>2
  <1>6. ASSUME NEW name \in RmNames, rm(name)
        PROVE  current_dir' \in Dirs /\ Arrives(pending', Disk', input', unmarked')
    <2>1. PICK q : q = pending'
      OBVIOUS
    <2>2. PICK I2 : I2 = input'
      OBVIOUS
    <2>3. PICK U2 : U2 = unmarked'
      OBVIOUS
    <2>4. Arrives(q, Disk, I2, U2)
      BY <2>1, <2>2, <2>3, <1>1, <1>6, RmArrives
    <2>5. current_dir' = current_dir /\ Disk' = Disk
      BY <1>6 DEF rm, volume, Disk
    <2> QED
      BY <2>1, <2>2, <2>3, <2>4, <2>5, <1>2
  <1>7. CASE Flush
    <2>1. /\ pending # <<>> /\ Apply(Head(pending)) /\ pending' = Tail(pending)
          /\ current_dir' = current_dir /\ input' = input /\ unmarked' = unmarked
      BY <1>7 DEF Flush, Idle, history
    <2>2. Disk' = After(Disk, Head(pending))
      BY <2>1, ApplyIsAfter
    <2>3. Arrives(Tail(pending), After(Disk, Head(pending)), input, unmarked)
      <3>1. PICK q : q = pending
        OBVIOUS
      <3>2. PICK I, U : I = input /\ U = unmarked
        OBVIOUS
      <3>3. PICK v : v = Disk
        OBVIOUS
      <3>4. Arrives(q, v, I, U) /\ q # <<>>
        BY <3>1, <3>2, <3>3, <2>1, <1>2
      <3>5. Arrives(Tail(q), After(v, Head(q)), I, U)
        BY <3>4, FlushArrives
      <3> QED
        BY <3>1, <3>2, <3>3, <3>5
    <2> QED
      BY <2>1, <2>2, <2>3, <1>2
  <1> QED
    BY <1>3, <1>4, <1>5, <1>6, <1>7 DEF Next

LEMMA ShellKeeps ==
    Spec => []ShellInv
  <1>1. Init => ShellInv
    BY ShellInit
  <1>2. ShellInv /\ [Next]_vars => ShellInv'
    BY ShellNext
  <1> QED
    BY <1>1, <1>2, PTL DEF Spec

-----------------------------------------------------------------------------
(* What cat shows.                                                         *)

LEMMA ShellKept ==
    ASSUME ShellInv, Idle, ~spoilt
    PROVE  \E path : Kept(Disk, path, input, unmarked) /\ Files(Disk) = DOMAIN input
  <1>1. Arrives(pending, Disk, input, unmarked) /\ pending = <<>>
    BY DEF ShellInv, Idle
  <1>2. PICK v, I, U : v = Disk /\ I = input /\ U = unmarked
    OBVIOUS
  <1>3. Arrives(<<>>, v, I, U)
    BY <1>1, <1>2
  <1>4. \E path : Kept(v, path, I, U) /\ Files(v) = DOMAIN I
    BY <1>3, IdleKept
  <1> QED
    BY <1>2, <1>4

(* The entry that cat prints.                                              *)
LEMMA FoundFile ==
    ASSUME NEW entries, NEW n \in Nat, Len(entries) = n, NEW name,
           NEW i, i = find_file(entries, name)
    PROVE  /\ i \in 0 .. n
           /\ i # 0 => /\ IsEntry(entries[i]) /\ ~entries[i].dir
                       /\ entries[i].name \in {name, format_to_fat_name(name)}
                       /\ \A j \in 1 .. n :
                             /\ IsEntry(entries[j]) /\ ~entries[j].dir
                             /\ entries[j].name = entries[i].name
                             => i <= j
           /\ i = 0 => \A j \in 1 .. n :
                          ~(/\ IsEntry(entries[j]) /\ ~entries[j].dir
                            /\ entries[j].name = format_to_fat_name(name))
  <1>1. PICK found, short : /\ found = find_entry_by_name(entries, name)
                            /\ short = format_to_fat_name(name)
    OBVIOUS
  <1>2. /\ found \in 0 .. n
        /\ found # 0 => /\ IsEntry(entries[found]) /\ entries[found].name = name
                        /\ \A j \in 1 .. n :
                              IsEntry(entries[j]) /\ entries[j].name = name => found <= j
    BY <1>1, FoundEntry
  <1> DEFINE I == {j \in 1 .. n : /\ IsEntry(entries[j]) /\ ~entries[j].dir
                                  /\ entries[j].name = short}
  <1>3. i = IF found # 0 /\ ~entries[found].dir THEN found
            ELSE IF I # {} THEN Min(I) ELSE 0
    BY <1>1 DEF find_file, SelectInSeq
  <1>4. CASE found # 0 /\ ~entries[found].dir
    BY <1>2, <1>3, <1>4
  <1>5. CASE ~(found # 0 /\ ~entries[found].dir) /\ I = {}
    BY <1>1, <1>3, <1>5
  <1>6. CASE ~(found # 0 /\ ~entries[found].dir) /\ I # {}
    <2>1. \E x \in I : \A y \in I : x <= y
      <3>1. I \subseteq Nat
        OBVIOUS
      <3> HIDE DEF I
      <3> QED
        BY <3>1, <1>6, LeastElement
    <2>2. Min(I) \in I /\ \A y \in I : Min(I) <= y
      BY <2>1 DEF Min
    <2>3. i \in I /\ \A y \in I : i <= y
      BY <1>3, <1>6, <2>2
    <2> QED
      BY <2>3, <1>1
  <1> QED
    BY <1>4, <1>5, <1>6

(* A file that is not behind another of its name is the one that is found. *)
LEMMA FoundUnlessShadowed ==
    ASSUME Furnished(Disk), NEW ref \in LiveFiles \ Shadowed,
           NEW name, format_to_fat_name(name) = EntryAt(ref).name
    PROVE  find_file(read_directory(ref[1]), name) = ref[2]
  <1>1. PICK d, k, q, e : /\ d = ref[1] /\ k = ref[2] /\ q = read_directory(d)
                          /\ e = EntryAt(ref)
    OBVIOUS
  <1>2. /\ LiveFiles = Files(Disk)
        /\ \A r \in Files(Disk) : EntryAt(r) = At(Disk, r)
    BY LiveFilesAre
  <1>3. Disk \in Volumes /\ ref \in Filled(Disk) /\ ~e.dir
    BY <1>1, <1>2 DEF Files, Furnished
  <1>4. /\ d \in Dirs /\ k \in 1 .. Len(Slots(Disk, d)) /\ k \in Nat /\ ref = <<d, k>>
        /\ e = Slots(Disk, d)[k] /\ IsEntry(e)
    BY <1>1, <1>2, <1>3, FilledType
  <1>5. q = Slots(Disk, d)
    BY <1>1, <1>4, DirectoryIsSlots
  <1>6. PICK n \in Nat : n = Len(q) /\ DOMAIN q = 1 .. n
    BY <1>3, <1>4, <1>5, DirsAre, SlotsType
  <1>7. k \in 1 .. n /\ IsEntry(q[k]) /\ ~q[k].dir /\ q[k].name = format_to_fat_name(name)
    BY <1>1, <1>3, <1>4, <1>5, <1>6
  <1>8. PICK i : i = find_file(q, name)
    OBVIOUS
  <1>9. /\ i \in 1 .. n /\ IsEntry(q[i]) /\ ~q[i].dir
        /\ q[i].name \in {name, format_to_fat_name(name)}
        /\ \A j \in 1 .. n :
              IsEntry(q[j]) /\ ~q[j].dir /\ q[j].name = q[i].name => i <= j
    BY <1>6, <1>7, <1>8, FoundFile
  <1>10. PICK r : r = <<d, i>>
    OBVIOUS
  <1>11. r[1] = d /\ r[2] = i /\ r \in Dirs \X Nat /\ At(Disk, r) = q[i]
    BY <1>4, <1>5, <1>9, <1>10 DEF At
  <1>12. r \in Filled(Disk) /\ r \in Files(Disk)
    BY <1>5, <1>6, <1>9, <1>11 DEF Filled, Files
  <1>13. FileName(q[i].name)
    BY <1>9, <1>11, <1>12 DEF Furnished
  <1>14. q[i].name = format_to_fat_name(name)
    BY <1>9, <1>13 DEF FileName
  <1>15. i <= k
    BY <1>7, <1>9, <1>14
  <1>16. ~(i < k)
    <2> SUFFICES ASSUME i < k PROVE FALSE
      OBVIOUS
    <2>1. i \in 1 .. k - 1
      BY <1>4, <1>9
    <2>2. r \in LiveFiles /\ EntryAt(r).name = EntryAt(ref).name
      BY <1>2, <1>11, <1>12, <1>14
    <2>3. ref \in Shadowed
      BY <2>1, <2>2, <1>1, <1>10 DEF Shadowed
    <2> QED
      BY <2>3
  <1>17. i = k
    BY <1>4, <1>9, <1>15, <1>16
  <1> QED
    BY <1>1, <1>8, <1>17

LEMMA InvReadsBack ==
    ShellInv => ReadsBack
  <1> SUFFICES ASSUME ShellInv, Idle, ~spoilt
               PROVE  /\ LiveFiles = DOMAIN input
                      /\ \A ref \in LiveFiles \ Shadowed : ReadBack(ref)
    BY DEF ReadsBack
  <1>1. PICK path : Kept(Disk, path, input, unmarked) /\ Files(Disk) = DOMAIN input
    BY ShellKept
  <1>2. PICK I, U : I = input /\ U = unmarked
    OBVIOUS
  <1>3. Kept(Disk, path, I, U) /\ Furnished(Disk)
    BY <1>1, <1>2 DEF Kept
  <1>4. LiveFiles = Files(Disk) /\ \A ref \in LiveFiles : slotContent(ref) = I[ref]
    BY <1>3, KeptReads
  <1>5. ASSUME NEW ref \in LiveFiles \ Shadowed
        PROVE  ReadBack(ref)
    <2> SUFFICES ASSUME NEW name, format_to_fat_name(name) = EntryAt(ref).name
                 PROVE  readFile(ref[1], name) = input[ref]
      BY DEF ReadBack
    <2>1. find_file(read_directory(ref[1]), name) = ref[2]
      BY <1>3, FoundUnlessShadowed
    <2>2. Disk \in Volumes /\ ref \in Filled(Disk)
      BY <1>3, <1>4 DEF Files, Furnished
    <2>3. ref[2] # 0 /\ ref = <<ref[1], ref[2]>>
      BY <2>2, FilledType
    <2>4. readFile(ref[1], name) = slotContent(ref)
      BY <2>1, <2>3 DEF readFile
    <2> QED
      BY <2>4, <1>2, <1>4
  <1> QED
    BY <1>1, <1>4, <1>5

(* Whatever the commands, between them cat of the name a file was written  *)
(* under gives the data that write read for it, unless an earlier file of  *)
(* the directory has the name too, until rm is given a file without an end *)
(* of chain (fat.c:494-529, 608-791, 794-839).                             *)
THEOREM ReadsBackAlways == Spec => []ReadsBack
  BY ShellKeeps, InvReadsBack, PTL

LEMMA InvDisjoint ==
    ShellInv => ChainsAreDisjoint
  <1> SUFFICES ASSUME ShellInv, Idle, ~spoilt, unmarked = {}, NEW r1 \in LiveFiles
               PROVE  /\ ClustersOf(r1) \cap FreeClusters = {}
                      /\ \A r2 \in LiveFiles \ {r1} :
                            ClustersOf(r1) \cap ClustersOf(r2) = {}
    BY DEF ChainsAreDisjoint
  <1>1. PICK path : Kept(Disk, path, input, {})
    BY ShellKept
  <1>2. Furnished(Disk) /\ VolumeOK
    BY <1>1 DEF Kept, Furnished, VolumeOK
  <1>3. /\ LiveFiles = Files(Disk)
        /\ \A ref \in Files(Disk) : EntryAt(ref) = At(Disk, ref)
    BY <1>2, LiveFilesAre
  <1>4. ASSUME NEW r \in Files(Disk)
        PROVE  /\ OnPath(Disk, path[r], EntryAt(r).start)
               /\ ClustersOf(r) = ToSet(path[r])
    <2>1. PICK e : e = EntryAt(r)
      OBVIOUS
    <2>2. Holds(Disk, e, path[r], input[r], TRUE)
      <3>1. Holds(Disk, At(Disk, r), path[r], input[r], r \notin {})
        BY <1>1 DEF Kept
      <3>2. At(Disk, r) = e /\ (r \notin {}) = TRUE
        BY <2>1, <1>3
      <3> QED
        BY <3>1, <3>2
    <2>3. OnPath(Disk, path[r], e.start)
      BY <2>2, <1>2, HoldsReads
    <2>4. Chain(e.start) = path[r]
      BY <2>3, ChainIsPath
    <2> QED
      BY <2>1, <2>3, <2>4 DEF ClustersOf
  <1>5. ASSUME NEW r \in Files(Disk), NEW c \in ClustersOf(r)
        PROVE  \E i \in 1 .. Len(path[r]) : c = path[r][i]
    <2>1. PICK p : p = path[r]
      OBVIOUS
    <2>2. p \in Seq(Clusters) /\ c \in ToSet(p)
      BY <2>1, <1>4, <1>5 DEF OnPath
    <2> QED
      BY <2>1, <2>2 DEF ToSet
  <1>6. ClustersOf(r1) \cap FreeClusters = {}
    <2> SUFFICES ASSUME NEW c \in ClustersOf(r1), c \in FreeClusters
                 PROVE  FALSE
      OBVIOUS
    <2>1. PICK i \in 1 .. Len(path[r1]) : c = path[r1][i]
      BY <1>3, <1>5
    <2>2. Disk.fat[1][path[r1][i]] # Free
      <3>1. PICK p, start : p = path[r1] /\ start = EntryAt(r1).start
        OBVIOUS
      <3>2. OnPath(Disk, p, start) /\ i \in 1 .. Len(p)
        BY <3>1, <1>3, <1>4
      <3> QED
        BY <3>1, <3>2, OnPathMarked
    <2> QED
      BY <2>1, <2>2 DEF FreeClusters, get_fat_entry, Disk
  <1>7. ASSUME NEW r2 \in LiveFiles \ {r1}
        PROVE  ClustersOf(r1) \cap ClustersOf(r2) = {}
    <2> SUFFICES ASSUME NEW c \in ClustersOf(r1), c \in ClustersOf(r2)
                 PROVE  FALSE
      OBVIOUS
    <2>1. PICK i \in 1 .. Len(path[r1]) : c = path[r1][i]
      BY <1>3, <1>5
    <2>2. PICK j \in 1 .. Len(path[r2]) : c = path[r2][j]
      BY <1>3, <1>5, <1>7
    <2>3. Apart(path, Files(Disk))
      BY <1>1 DEF Kept
    <2>4. r1 = r2
      BY <2>1, <2>2, <2>3, <1>3, <1>7 DEF Apart
    <2> QED
      BY <2>4, <1>7
  <1> QED
    BY <1>6, <1>7

(* Between the commands, while every file has an end of chain, no cluster  *)
(* belongs to two files and none of a file's clusters is free, so rm frees *)
(* the clusters of one file (fat.c:794-839).                               *)
THEOREM ChainsAreDisjointAlways == Spec => []ChainsAreDisjoint
  BY ShellKeeps, InvDisjoint, PTL

LEMMA InvHarmless ==
    ShellInv => InterruptedWriteHarmless
  <1> SUFFICES ASSUME ShellInv, pending # <<>>, ~spoilt, Last(pending).value # NoEntry
               PROVE  \A ref \in LiveFiles : slotContent(ref) = input[ref]
    BY DEF InterruptedWriteHarmless, Idle
  <1>1. PICK q, v, I, U : q = pending /\ v = Disk /\ I = input /\ U = unmarked
    OBVIOUS
  <1>2. Arrives(q, v, I, U) /\ q # <<>> /\ Last(q).value # NoEntry
    BY <1>1 DEF ShellInv
  <1>3. PICK w, path : /\ Kept(w, path, I, U) /\ Files(w) = DOMAIN I
                       /\ q \in Seq(Updates)
                       /\ Runs(q, v, w, Track(q, I, U))
    BY <1>2 DEF Arrives
  <1>4. PICK P : P = Track(q, I, U)
    OBVIOUS
  <1>5. P = Harmless(I, U)
    BY <1>2, <1>4 DEF Track
  <1>6. v \in P
    BY <1>2, <1>3, <1>4, RunsFlush
  <1>7. \E paths : Kept(v, paths, I, U)
    BY <1>5, <1>6 DEF Harmless
  <1>8. PICK paths : Kept(Disk, paths, I, U)
    BY <1>1, <1>7
  <1>9. \A ref \in LiveFiles : slotContent(ref) = I[ref]
    BY <1>8, KeptReads
  <1> QED
    BY <1>1, <1>9

(* At every disk write of write, where the shell may be interrupted, cat   *)
(* still gives every file of the image what was written to it: the entry   *)
(* is the last write (fat.c:774-784).                                      *)
THEOREM InterruptedAlways == Spec => []InterruptedWriteHarmless
  BY ShellKeeps, InvHarmless, PTL

=============================================================================
