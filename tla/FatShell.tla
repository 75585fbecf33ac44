------------------------------ MODULE FatShell ------------------------------
(***************************************************************************)
(* The interactive FAT16 shell of src/file_system/pure_fat/fat.c: cd,      *)
(* write and rm, and cat as the operator that reads.  The shell runs one   *)
(* command at a time; its disk writes reach the image one by one as in     *)
(* FatDisk.  It keeps a current directory between commands.                *)
(***************************************************************************)
EXTENDS FatDisk

CONSTANTS
    Dir,          \* the subdirectory the image holds at the start
    CdPaths,      \* arguments of cd: [abs, dirs]
    WritePaths,   \* FAT paths of write: [abs, dirs, name]
    Inputs,       \* what write reads from its input, sequences of units
    RmNames       \* arguments of rm

VARIABLES
    current_dir,  \* current_dir_cluster
    input,        \* history: what each slot's file was written from
    unmarked,     \* history: the slots whose write marked no end of chain
    spoilt        \* history: rm followed a chain past such an end

history == <<input, unmarked, spoilt>>
vars == <<volume, pending, current_dir, history>>

(* Cluster 2 is the subdirectory of the image.  The commands name files    *)
(* and directories, and no file "." or "..", and write reads units.        *)
ASSUME ShellAssumption ==
    /\ TotalClusters > 2
    /\ Dir \in Names \ {Dot, DotDot}
    /\ \A path \in CdPaths : path.dirs \in Seq(Names)
    /\ \A path \in WritePaths :
          /\ path.dirs \in Seq(Names) /\ path.name \in Names
          /\ format_to_fat_name(path.name) \notin {Dot, DotDot}
    /\ \A data \in Inputs : data \in Seq(Units)

Idle == pending = <<>>

(* The image: a formatted volume with one empty subdirectory; the shell    *)
(* itself has no mkdir.                                                    *)
DirEntry(name, c) == [name |-> name, dir |-> TRUE, start |-> c, size |-> 0]

Init ==
    /\ fat = [f \in Copies |-> [c \in Clusters |-> IF c = 2 THEN EOC ELSE Free]]
    /\ root = [i \in 1 .. RootDirEntries |->
                  IF i = 1 THEN DirEntry(Dir, 2) ELSE NoEntry]
    /\ area = [c \in Clusters |->
                  IF c = 2 THEN [k \in 1 .. DirEntriesPerCluster |->
                                    IF k = 1 THEN DirEntry(Dot, 2)
                                    ELSE IF k = 2 THEN DirEntry(DotDot, RootDir)
                                    ELSE NoEntry]
                           ELSE [k \in 1 .. ClusterSize |-> Zero]]
    /\ pending = <<>>
    /\ current_dir = RootDir
    /\ input = <<>>
    /\ unmarked = {}
    /\ spoilt = FALSE

cd(path) ==
    LET d == change_dir(IF path.abs THEN RootDir ELSE current_dir, path.dirs)
    IN  /\ Idle
        /\ d # Lost
        /\ current_dir' = d
        /\ UNCHANGED <<volume, pending, history>>

(* The directory write works in.  Of "/name" it keeps the empty string     *)
(* before the slash, which changeDir takes for the current directory.      *)
WriteDir(path) ==
    change_dir(IF path.abs /\ path.dirs # <<>> THEN RootDir ELSE current_dir,
               path.dirs)

FreeInOrder == LowestFirst(FreeClusters)

(* The full clusters that the loop links to a next cluster; on a full disk *)
(* the last one finds none and the loop breaks before it is counted.       *)
FullClusters(data) == Len(data) \div ClusterSize
Linked(data) == Min({FullClusters(data), Len(FreeInOrder) - 1})
DiskFull(data) == FullClusters(data) > Linked(data)

Chunk(data, k) ==
    SubSeq(data, (k - 1) * ClusterSize + 1, Min({k * ClusterSize, Len(data)}))

(* Mutant: the last cluster is not marked end-of-chain.                    *)
ClosingUnmarked(data) ==
    LET k == Linked(data) + 1
    IN  IF Chunk(data, k) = <<>> THEN <<>>
        ELSE DataWrite(FreeInOrder[k], Chunk(data, k))

(* A short chunk is the last one: only it is marked end-of-chain.          *)
ClosingWrites(data) ==
    LET k == Linked(data) + 1
        cluster == FreeInOrder[k]
    IN  IF DiskFull(data) THEN DataWrite(cluster, Chunk(data, k))
        ELSE IF Chunk(data, k) = <<>> THEN <<>>
        ELSE DataWrite(cluster, Chunk(data, k)) \o FatWrites(cluster, EOC)

ClusterWrites(data) ==
    FlattenSeq([k \in 1 .. Linked(data) |->
        DataWrite(FreeInOrder[k], Chunk(data, k))
        \o FatWrites(FreeInOrder[k], FreeInOrder[k + 1])])
    \o ClosingWrites(data)

(* Mutant: the size counts what did not fit.                               *)
BytesRead(data) == Len(data)

BytesWritten(data) ==
    IF DiskFull(data) THEN Linked(data) * ClusterSize ELSE Len(data)

(* Mutant: the entry goes out first.                                       *)
EntryBeforeData(d, slot, new_entry, data) ==
    SlotWrite(d, slot, new_entry) \o ClusterWrites(data)

(* The entry goes out last.                                                *)
FileWrites(d, slot, new_entry, data) ==
    ClusterWrites(data) \o SlotWrite(d, slot, new_entry)

EndMarked(data) == ~DiskFull(data) /\ Len(data) % ClusterSize # 0

write(path, data) ==
    LET d == WriteDir(path)
        slot == FreeSlot(read_directory(d))
        new_entry == [name |-> format_to_fat_name(path.name), dir |-> FALSE,
                      start |-> LowestFree, size |-> BytesWritten(data)]
    IN  /\ Idle
        /\ d # Lost /\ slot # 0 /\ LowestFree # 0
        /\ pending' = FileWrites(d, slot, new_entry, data)
        /\ input' = [ref \in DOMAIN input \cup {<<d, slot>>} |->
                        IF ref = <<d, slot>>
                        THEN SubSeq(data, 1, BytesWritten(data))
                        ELSE input[ref]]
        /\ unmarked' = IF EndMarked(data) THEN unmarked
                                         ELSE unmarked \cup {<<d, slot>>}
        /\ UNCHANGED <<volume, current_dir, spoilt>>

rm(name) ==
    LET entries == read_directory(current_dir)
        i == find_entry_by_name(entries, name)
    IN  /\ Idle
        /\ i # 0 /\ ~entries[i].dir
        /\ pending' = FreeingWrites(Chain(entries[i].start))
                      \o SlotWrite(current_dir, i, NoEntry)
        /\ input' = [ref \in DOMAIN input \ {<<current_dir, i>>} |-> input[ref]]
        /\ unmarked' = unmarked \ {<<current_dir, i>>}
        /\ spoilt' = (spoilt \/ <<current_dir, i>> \in unmarked)
        /\ UNCHANGED <<volume, current_dir>>

Flush ==
    /\ ~Idle
    /\ Apply(Head(pending))
    /\ pending' = Tail(pending)
    /\ UNCHANGED <<current_dir, history>>

Next ==
    \/ \E path \in CdPaths : cd(path)
    \/ \E path \in WritePaths, data \in Inputs : write(path, data)
    \/ \E name \in RmNames : rm(name)
    \/ Flush

Spec == Init /\ [][Next]_vars

(* cat and save look their name up twice: the first entry of that name, and *)
(* when it is a directory or there is none the first file that has the     *)
(* name cut to 8.3.                                                        *)
find_file(entries, name) ==
    LET found == find_entry_by_name(entries, name)
    IN  IF found # 0 /\ ~entries[found].dir THEN found
        ELSE SelectInSeq(entries, LAMBDA e :
                            IsEntry(e) /\ ~e.dir /\ e.name = format_to_fat_name(name))

(* What they read of the entry, and of a name in directory d, which is     *)
(* Lost when there is none.                                                *)
slotContent(ref) == FileContent(EntryAt(ref), EntryAt(ref).size, Junk)

readFile(d, name) ==
    LET i == find_file(read_directory(d), name)
    IN  IF i = 0 THEN Lost ELSE slotContent(<<d, i>>)

LiveFiles == {ref \in LiveEntries : ~EntryAt(ref).dir}

(* write takes a free slot without a look at the names of the others, so   *)
(* that a file may stand behind another of its name.                       *)
Shadowed ==
    {ref \in LiveFiles :
        \E i \in 1 .. ref[2] - 1 :
            <<ref[1], i>> \in LiveFiles /\ EntryAt(<<ref[1], i>>).name = EntryAt(ref).name}

ReadBack(ref) ==
    \A path \in WritePaths :
        format_to_fat_name(path.name) = EntryAt(ref).name =>
            readFile(ref[1], path.name) = input[ref]

-----------------------------------------------------------------------------
(* Properties.                                                             *)

(* cat of the name a file was written under gives the data write read from *)
(* its input, unless an earlier file of the directory has the name too:    *)
(* however the disk filled up and whatever slots and clusters are reused,  *)
(* no later command overwrites it, until rm is given a file whose chain    *)
(* has no end (fat.c:494-529, 717-721, 743-746; see RmDeletesOneFile).     *)
ReadsBack ==
    Idle /\ ~spoilt => /\ LiveFiles = DOMAIN input
                       /\ \A ref \in LiveFiles \ Shadowed : ReadBack(ref)

(* While the chain of every file has an end, no cluster belongs to two     *)
(* files between commands and none of a file's clusters is free: what rm   *)
(* frees belongs to the removed file alone.                                *)
ChainsAreDisjoint ==
    Idle /\ ~spoilt /\ unmarked = {} =>
        \A r1 \in LiveFiles :
              /\ ClustersOf(r1) \cap FreeClusters = {}
              /\ \A r2 \in LiveFiles \ {r1} :
                   ClustersOf(r1) \cap ClustersOf(r2) = {}

(* A write that is interrupted at any of its disk writes has spoilt no     *)
(* file: the entry goes out last (fat.c:774-784).                          *)
InterruptedWriteHarmless ==
    ~Idle /\ ~spoilt /\ Last(pending).value # NoEntry =>
        \A ref \in LiveFiles : slotContent(ref) = input[ref]

(* pure_fat/fat.c:793 "Delete a file from the FAT16 filesystem": rm        *)
(* deletes one file, the others keep their data.  VIOLATED: the free       *)
(* cluster at the end of such a file becomes the first cluster of the next *)
(* file, and rm of the one frees the other, to be overwritten later.       *)
RmDeletesOneFile ==
    Idle => \A ref \in LiveFiles :
              EntryAt(ref).size > 0 => get_fat_entry(EntryAt(ref).start) # Free

=============================================================================
