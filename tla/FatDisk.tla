------------------------------- MODULE FatDisk -------------------------------
(***************************************************************************)
(* The FAT16 volume as src/file_system/fuse/fat.c and                      *)
(* src/file_system/pure_fat/fat.c see it: the copies of the FAT, the root  *)
(* directory, the data area, and the reading helpers of fat.c, which the   *)
(* two programs hold in the same words.                                    *)
(*                                                                         *)
(* A program changes the volume by fseek, fwrite, fflush.  A handler is    *)
(* sequential and reads back what it wrote, so the whole list of its       *)
(* writes is known when it starts; the list is queued in pending and       *)
(* flushed one write at a time.  Every state between two flushes is what   *)
(* the image holds if the program is killed there.                         *)
(***************************************************************************)
EXTENDS Integers, FiniteSets, SequencesExt

CONSTANTS
    TotalClusters,         \* total_sectors / sectors_per_cluster
    NumberOfFats,          \* bs.number_of_fats
    RootDirEntries,        \* bs.root_dir_entries
    DirEntriesPerCluster,  \* max_entries_per_cluster
    ClusterSize,           \* units of file data in a cluster
    Units,                 \* the units of data that programs write
    NoEntry,               \* a slot whose first byte is 0x00 or 0xE5
    Zero,                  \* a unit of zero bytes
    Junk                   \* a unit nobody wrote: stale disk or heap bytes

ASSUME Geometry ==
    /\ TotalClusters \in Nat /\ TotalClusters < 65528
    /\ NumberOfFats \in Nat \ {0}
    /\ RootDirEntries \in Nat \ {0}
    /\ ClusterSize \in Nat \ {0}
    /\ DirEntriesPerCluster \in Nat /\ DirEntriesPerCluster >= 2

(* What a slot of a directory holds.  "." and ".." are strings like the    *)
(* others; the provers have to be told.                                    *)
Names == (STRING \cup {".", ".."}) \X (STRING \cup {""})

Entries == [name : Names, dir : BOOLEAN, start : Nat, size : Nat]

ASSUME CellsDiffer ==
    \A x \in {NoEntry, Zero, Junk} \cup Units : x \notin Entries

VARIABLES
    fat,       \* fat[f][c]: the entry of cluster c in copy f
    root,      \* the slots of the root directory
    area,      \* area[c]: the cells of cluster c, data units or slots
    pending    \* the writes, and the reply, the running handler still owes

volume == <<fat, root, area>>

Clusters == 2 .. TotalClusters - 1
Copies == 1 .. NumberOfFats
Free == 0
EOC == 65535
RootDir == 0
Lost == -1

(* An empty formatted volume.                                              *)
FormattedVolume ==
    /\ fat = [f \in Copies |-> [c \in Clusters |-> Free]]
    /\ root = [i \in 1 .. RootDirEntries |-> NoEntry]
    /\ area = [c \in Clusters |-> [k \in 1 .. ClusterSize |-> Zero]]

-----------------------------------------------------------------------------
(* Reading.  A name is <<stem, rest>>: stem is the part an 8.3 entry can   *)
(* hold, up to case, and rest the characters it cannot.                    *)

Dot == <<".", "">>
DotDot == <<"..", "">>

format_to_fat_name(name) == <<name[1], "">>

get_fat_entry(c) == fat[1][c]

FreeClusters == {c \in Clusters : get_fat_entry(c) = Free}

(* The clusters of S, lowest first.                                        *)
LowestFirst(S) ==
    [k \in 1 .. Cardinality(S) |->
        CHOOSE c \in S : Cardinality({x \in S : x < c}) = k - 1]

LowestFree == IF FreeClusters = {} THEN 0 ELSE Min(FreeClusters)

(* The clusters a loop visits that starts at start and follows             *)
(* get_fat_entry while 2 <= cluster < 0xFFF8.                              *)
Chain(start) ==
    LET visited[n \in 0 .. TotalClusters] ==
          IF n = 0 THEN <<>>
          ELSE LET seen == visited[n - 1]
                   next == IF n = 1 THEN start
                           ELSE IF seen = <<>> THEN Free
                           ELSE get_fat_entry(seen[Len(seen)])
               IN  IF next \in Clusters \ ToSet(seen) THEN Append(seen, next)
                                                      ELSE seen
    IN  visited[TotalClusters]

Cells(start) ==
    LET chain == Chain(start)
    IN  FlattenSeq([k \in 1 .. Len(chain) |-> area[chain[k]]])

read_directory(d) == IF d = RootDir THEN root ELSE Cells(d)

(* Cells that file data was written to are no entries.                     *)
IsEntry(e) == e \notin {NoEntry, Zero, Junk} \cup Units

find_entry_by_name(entries, name) ==
    SelectInSeq(entries, LAMBDA e : IsEntry(e) /\ e.name = name)

(* Mutant: of a full directory the last slot is taken.                     *)
SlotOrLast(entries) ==
    LET i == SelectInSeq(entries, LAMBDA e : e = NoEntry)
    IN  IF i = 0 THEN Len(entries) ELSE i

FreeSlot(entries) == SelectInSeq(entries, LAMBDA e : e = NoEntry)

(* One token of change_dir, and the whole walk from directory d.           *)
Enter(d, name) ==
    LET entries == read_directory(d)
        i == find_entry_by_name(entries, name)
    IN  IF name = Dot \/ (name = DotDot /\ d = RootDir) THEN d
        ELSE IF i # 0 /\ entries[i].dir THEN entries[i].start
        ELSE IF name = DotDot THEN RootDir
        ELSE Lost

change_dir(d, tokens) ==
    FoldLeft(LAMBDA c, name : IF c = Lost THEN Lost ELSE Enter(c, name),
             d, tokens)

(* The first size units of the file behind entry e; where its chain is     *)
(* shorter than its size the buffer keeps what it was filled with.         *)
FileContent(e, size, filler) ==
    LET cells == Cells(e.start)
    IN  [k \in 1 .. size |->
            IF k <= e.size /\ k <= Len(cells) THEN cells[k] ELSE filler]

-----------------------------------------------------------------------------
(* Writing.                                                                *)

(* Mutant: only the first copy of the FAT is written.                      *)
FirstCopyWrites(c, v) ==
    <<[to |-> "fat", copy |-> 1, cluster |-> c, value |-> v]>>

FatWrites(c, v) ==
    [f \in Copies |-> [to |-> "fat", copy |-> f, cluster |-> c, value |-> v]]

FreeingWrites(chain) ==
    FlattenSeq([k \in 1 .. Len(chain) |-> FatWrites(chain[k], Free)])

SlotWrite(d, i, e) == <<[to |-> "slot", dir |-> d, slot |-> i, value |-> e]>>

AreaWrite(c, cells) == <<[to |-> "area", cluster |-> c, value |-> cells]>>

(* fwrite leaves what lies past the end of the data as it was.             *)
DataWrite(c, units) ==
    AreaWrite(c, [k \in 1 .. ClusterSize |->
                     IF k <= Len(units) THEN units[k] ELSE Junk])

(* One fseek, fwrite, fflush.                                              *)
Apply(w) ==
    \/ /\ w.to = "fat"
       /\ fat' = [fat EXCEPT ![w.copy][w.cluster] = w.value]
       /\ UNCHANGED <<root, area>>
    \/ /\ w.to = "slot" /\ w.dir = RootDir
       /\ root' = [root EXCEPT ![w.slot] = w.value]
       /\ UNCHANGED <<fat, area>>
    \/ /\ w.to = "slot" /\ w.dir # RootDir
       /\ area' = [area EXCEPT ![w.dir][w.slot] = w.value]
       /\ UNCHANGED <<fat, root>>
    \/ /\ w.to = "area"
       /\ area' = [area EXCEPT ![w.cluster] = w.value]
       /\ UNCHANGED <<fat, root>>

-----------------------------------------------------------------------------
(* The directories that can be reached from the root, the live entries in  *)
(* them, and what the FAT says about their clusters.                       *)

SubdirsOf(d) ==
    {e.start : e \in {x \in ToSet(read_directory(d)) :
                        IsEntry(x) /\ x.dir /\ x.name \notin {Dot, DotDot}}}

LiveDirs ==
    LET within[depth \in 0 .. TotalClusters] ==
          IF depth = 0 THEN {RootDir}
          ELSE LET above == within[depth - 1]
               IN  above \cup UNION {SubdirsOf(d) : d \in above}
    IN  within[TotalClusters]

LiveEntries ==
    {ref \in LiveDirs \X (1 .. RootDirEntries + DirEntriesPerCluster) :
        LET entries == read_directory(ref[1])
        IN  /\ ref[2] \in DOMAIN entries
            /\ IsEntry(entries[ref[2]])
            /\ entries[ref[2]].name \notin {Dot, DotDot}}

EntryAt(ref) == read_directory(ref[1])[ref[2]]

ClustersOf(ref) == ToSet(Chain(EntryAt(ref).start))

Owned == UNION {ClustersOf(ref) : ref \in LiveEntries}

Leaked == (Clusters \ FreeClusters) \ Owned

=============================================================================
