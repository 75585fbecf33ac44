------------------------------- MODULE FatFuse -------------------------------
(***************************************************************************)
(* The FUSE handlers of src/file_system/fuse/fat_fuse.c on the volume of   *)
(* FatDisk, one call at a time.  Every handler saves the current           *)
(* directory, enters the parent with change_dir and restores on every      *)
(* exit, so a sequential handler always starts in the root.                *)
(*                                                                         *)
(* getattr, readdir, open and read change nothing: they are operators.     *)
(* create, write, mkdir, rmdir and unlink queue their writes and then      *)
(* their reply.                                                            *)
(***************************************************************************)
EXTENDS FatDisk

CONSTANTS
    Paths,          \* the paths the kernel asks for, sequences of names
    DirPaths,       \* the paths that mkdir is asked for
    DataChoices,    \* the buffers written, sequences of units
    OffsetChoices,  \* the offsets written at
    MaxSize,        \* bound: no write reaches past this size
    MaxCrashes,     \* bound: how often the program is killed in a handler
    CrashPaths      \* bound: the only paths in use at a kill and after it

VARIABLES
    reply,    \* the reply of the last handler, "busy" while one runs
    view,     \* history: what programs saw when the last handler returned,
              \* kept up to the first kill
    leaked,   \* history: the clusters leaked when it returned
    call,     \* history: the handler that runs and its path
    crashes   \* how often the program was killed

vars == <<volume, pending, reply, view, leaked, call, crashes>>

(* The kernel resolves "." and ".." itself, keeps no empty name, and never  *)
(* asks for a write of no bytes.                                           *)
ASSUME CallsAssumption ==
    /\ Paths \subseteq Seq(STRING \X STRING)
    /\ \A p \in Paths :
          /\ p # <<>>
          /\ \A i \in 1 .. Len(p) : format_to_fat_name(p[i]) \notin {Dot, DotDot}
    /\ CrashPaths \subseteq Paths
    /\ DataChoices \subseteq Seq(Units) \ {<<>>}
    /\ OffsetChoices \subseteq Nat
    /\ MaxSize \in Nat
    /\ MaxCrashes \in Nat

-----------------------------------------------------------------------------
(* The path prologue of every handler, and the reading handlers.           *)

ParentDir(p) == change_dir(RootDir, Front(p))

SlotIn(d, p) ==
    IF d = Lost THEN 0 ELSE find_entry_by_name(read_directory(d), Last(p))

Exists(p) == SlotIn(ParentDir(p), p) # 0

Entry(p) == read_directory(ParentDir(p))[SlotIn(ParentDir(p), p)]

getattr(p) ==
    IF Exists(p) THEN [dir |-> Entry(p).dir, size |-> Entry(p).size]
                 ELSE "ENOENT"

open(p) == IF Exists(p) /\ ~Entry(p).dir THEN "ok" ELSE "ENOENT"

read(p, size, offset) ==
    IF open(p) # "ok" THEN "ENOENT"
    ELSE SubSeq(FileContent(Entry(p), Entry(p).size, Junk),
                offset + 1, Min({offset + size, Entry(p).size}))

(* The slots that readdir lists, in their order.                           *)
Listed(d) ==
    LET entries == read_directory(d)
    IN  LowestFirst({i \in DOMAIN entries :
                        /\ IsEntry(entries[i])
                        /\ entries[i].name \notin {Dot, DotDot}})

readdir(d) == [k \in DOMAIN Listed(d) |-> read_directory(d)[Listed(d)[k]].name]

(* What a program sees of the volume through the reading handlers.         *)
Stored ==
    [p \in {q \in Paths : Exists(q)} |->
        [dir |-> getattr(p).dir,
         data |-> IF open(p) = "ok" THEN read(p, MaxSize, 0) ELSE <<>>]]

-----------------------------------------------------------------------------
(* The writing handlers.  Answer starts one: its writes, then its reply.   *)

Idle == pending = <<>>

Answer(op, p, writes, code) ==
    /\ Idle
    /\ pending' = Append(writes, [to |-> "reply", value |-> code])
    /\ call' = [op |-> op, path |-> p]
    /\ reply' = "busy"
    /\ UNCHANGED <<volume, view, leaked, crashes>>

(* Mutant: the name is not looked up first.                                *)
MakeUnchecked(p) ==
    LET d == ParentDir(p)
    IN  IF d = Lost THEN "ENOENT"
        ELSE IF FreeSlot(read_directory(d)) = 0 \/ LowestFree = 0 THEN "ENOSPC"
        ELSE "ok"

(* The checks create and mkdir share: the parent, the name, a slot, a      *)
(* cluster.                                                                *)
MakeRefusal(p) ==
    LET d == ParentDir(p)
    IN  IF d = Lost THEN "ENOENT"
        ELSE IF Exists(p) THEN "EEXIST"
        ELSE IF FreeSlot(read_directory(d)) = 0 \/ LowestFree = 0 THEN "ENOSPC"
        ELSE "ok"

NewEntry(p, dir) ==
    [name |-> format_to_fat_name(Last(p)), dir |-> dir,
     start |-> LowestFree, size |-> 0]

(* The directory entry goes out first, the end-of-chain marks after it.    *)
EntryWrites(p, dir) ==
    SlotWrite(ParentDir(p), FreeSlot(read_directory(ParentDir(p))),
              NewEntry(p, dir))
    \o FatWrites(LowestFree, EOC)

create(p) ==
    LET code == MakeRefusal(p)
    IN  Answer("create", p,
               IF code = "ok" THEN EntryWrites(p, FALSE) ELSE <<>>, code)

EmptyDirectory(c, parent) ==
    [k \in 1 .. DirEntriesPerCluster |->
        CASE k = 1 -> [name |-> Dot, dir |-> TRUE, start |-> c, size |-> 0]
          [] k = 2 -> [name |-> DotDot, dir |-> TRUE, start |-> parent,
                       size |-> 0]
          [] OTHER -> NoEntry]

mkdir(p) ==
    LET code == MakeRefusal(p)
    IN  Answer("mkdir", p,
               IF code = "ok"
               THEN EntryWrites(p, TRUE)
                    \o AreaWrite(LowestFree,
                                 EmptyDirectory(LowestFree, ParentDir(p)))
               ELSE <<>>,
               code)

RmdirRefusal(p) ==
    IF ~Exists(p) THEN "ENOENT"
    ELSE IF ~Entry(p).dir THEN "ENOTDIR"
    ELSE IF Entry(p).start = 0 THEN "EINVAL"
    ELSE IF readdir(Entry(p).start) # <<>> THEN "ENOTEMPTY"
    ELSE "ok"

(* Mutants: the entry stays, the chain stays.                              *)
RemovalKeepsEntry(p) == FreeingWrites(Chain(Entry(p).start))
RemovalKeepsChain(p) == SlotWrite(ParentDir(p), SlotIn(ParentDir(p), p), NoEntry)

(* The chain is freed first, the entry is marked deleted after it.         *)
RemovalWrites(p) ==
    FreeingWrites(Chain(Entry(p).start))
    \o SlotWrite(ParentDir(p), SlotIn(ParentDir(p), p), NoEntry)

rmdir(p) ==
    LET code == RmdirRefusal(p)
    IN  Answer("rmdir", p, IF code = "ok" THEN RemovalWrites(p) ELSE <<>>, code)

UnlinkRefusal(p) ==
    IF ~Exists(p) THEN "ENOENT" ELSE IF Entry(p).dir THEN "EISDIR" ELSE "ok"

unlink(p) ==
    LET code == UnlinkRefusal(p)
    IN  Answer("unlink", p, IF code = "ok" THEN RemovalWrites(p) ELSE <<>>, code)

-----------------------------------------------------------------------------
(* write rebuilds the whole file in memory, frees the old chain when the   *)
(* size changes, allocates a new chain cluster by cluster, lowest free     *)
(* cluster first, and updates the entry last.                              *)

NewSize(e, buf, offset) == Max({offset + Len(buf), e.size})

(* Mutant: the old content is not read first.                              *)
FreshBuffer(e, buf, offset) ==
    [k \in 1 .. NewSize(e, buf, offset) |->
        IF k > offset /\ k <= offset + Len(buf) THEN buf[k - offset] ELSE Zero]

FileBuffer(e, buf, offset) ==
    LET old == FileContent(e, NewSize(e, buf, offset), Zero)
    IN  [k \in DOMAIN old |->
            IF k > offset /\ k <= offset + Len(buf) THEN buf[k - offset]
                                                    ELSE old[k]]

ClustersNeeded(size) == (size + ClusterSize - 1) \div ClusterSize

OldChain(e, size) == IF size # e.size THEN Chain(e.start) ELSE <<>>

(* The clusters the allocation loop gets: fewer than it needs when the     *)
(* disk is full.                                                           *)
Allocated(e, size) ==
    LET free == LowestFirst(FreeClusters \cup ToSet(OldChain(e, size)))
    IN  SubSeq(free, 1, Min({ClustersNeeded(size), Len(free)}))

(* Mutant: the last cluster is not marked end-of-chain.                    *)
AllocationUnmarked(chain, buffer) ==
    FlattenSeq([k \in 1 .. Len(chain) |->
        (IF k = 1 THEN <<>> ELSE FatWrites(chain[k - 1], chain[k]))
        \o DataWrite(chain[k],
                     SubSeq(buffer, (k - 1) * ClusterSize + 1,
                            Min({k * ClusterSize, Len(buffer)})))])

AllocationWrites(chain, buffer) ==
    FlattenSeq([k \in 1 .. Len(chain) |->
        (IF k = 1 THEN <<>> ELSE FatWrites(chain[k - 1], chain[k]))
        \o FatWrites(chain[k], EOC)
        \o DataWrite(chain[k],
                     SubSeq(buffer, (k - 1) * ClusterSize + 1,
                            Min({k * ClusterSize, Len(buffer)})))])

write(p, buf, offset) ==
    LET e == Entry(p)
        size == NewSize(e, buf, offset)
        chain == Allocated(e, size)
        written == FreeingWrites(OldChain(e, size))
                   \o AllocationWrites(chain, FileBuffer(e, buf, offset))
        updated == SlotWrite(ParentDir(p), SlotIn(ParentDir(p), p),
                             [e EXCEPT !.start = chain[1], !.size = size])
    IN  /\ offset + Len(buf) <= MaxSize
        /\ IF open(p) # "ok" THEN Answer("write", p, <<>>, "ENOENT")
           ELSE IF Len(chain) < ClustersNeeded(size)
           THEN Answer("write", p, written, "ENOSPC")
           ELSE Answer("write", p, written \o updated, "ok")

-----------------------------------------------------------------------------
Flush ==
    /\ ~Idle
    /\ Head(pending).to # "reply"
    /\ Apply(Head(pending))
    /\ pending' = Tail(pending)
    /\ UNCHANGED <<reply, view, leaked, call, crashes>>

Return ==
    /\ ~Idle
    /\ Head(pending).to = "reply"
    /\ reply' = Head(pending).value
    /\ pending' = <<>>
    /\ IF crashes = 0 THEN view' = Stored /\ leaked' = Leaked
                      ELSE UNCHANGED <<view, leaked>>
    /\ call' = <<>>
    /\ UNCHANGED <<volume, crashes>>

(* The program is killed in a handler and started again: the volume stays  *)
(* as it is, init_file_system reads nothing but the geometry.              *)
Crash ==
    /\ ~Idle
    /\ crashes < MaxCrashes
    /\ DOMAIN view \cup {call.path} \subseteq CrashPaths
    /\ crashes' = crashes + 1
    /\ pending' = <<>>
    /\ call' = <<>>
    /\ reply' = "none"
    /\ UNCHANGED <<volume, view, leaked>>

Init ==
    /\ FormattedVolume
    /\ pending = <<>>
    /\ view = <<>>
    /\ leaked = {}
    /\ call = <<>>
    /\ reply = "none"
    /\ crashes = 0

Next ==
    \/ \E p \in IF crashes = 0 THEN Paths ELSE CrashPaths :
        \/ create(p)
        \/ crashes = 0 /\ p \in DirPaths /\ mkdir(p)
        \/ rmdir(p)
        \/ unlink(p)
        \/ \E buf \in DataChoices, offset \in OffsetChoices :
             write(p, buf, offset)
    \/ Flush
    \/ Return
    \/ Crash

Spec == Init /\ [][Next]_vars

-----------------------------------------------------------------------------
(* Properties.                                                             *)

(* The handlers implement the file store: between calls every path reads   *)
(* back what the calls that succeeded wrote, whatever chains, slots and    *)
(* clusters were reused, and a refused call changes nothing a program can  *)
(* see (the exception, a failed write, is the one FileStore names).  A     *)
(* handler that is killed never answers: the promise ends there.           *)
Store == INSTANCE FileStore
    WITH files <- view, reply <- IF crashes = 0 THEN reply ELSE "busy"

ImplementsFileStore == Store!Spec

(* Between calls no cluster belongs to two entries: the allocator          *)
(* (fat_fuse.c:764-772) never hands out a cluster that a live chain holds. *)
(* (Up to the first kill: create and mkdir write the entry before they     *)
(* mark its cluster, fat_fuse.c:580-589, and the next allocation takes a   *)
(* cluster that is not marked.)                                            *)
NoSharing ==
    Idle /\ crashes = 0 => \A r1, r2 \in LiveEntries :
              r1 # r2 => ClustersOf(r1) \cap ClustersOf(r2) = {}

(* Between calls every cluster of a live chain is marked in the FAT, even  *)
(* after a write that ran out of space and never updated its entry         *)
(* (fat_fuse.c:774-782), up to the first kill.                             *)
NoDangling ==
    Idle /\ crashes = 0 => \A r \in LiveEntries :
              /\ EntryAt(r).start \in Clusters
              /\ ClustersOf(r) \cap FreeClusters = {}

(* What the entries of paths that an 8.3 name cannot hold are called.      *)
LongForms ==
    {format_to_fat_name(Last(p)) : p \in {q \in Paths : Last(q)[2] # ""}}

(* Between calls a name comes twice in a directory only when it is the cut *)
(* form of one that does not fit 8.3: every other entry that readdir lists *)
(* is the one the other handlers find.  In the subdirectories that holds   *)
(* up to the first kill, in the root directory after any number of kills.  *)
UniqueNames ==
    Idle => \A d \in LiveDirs : crashes = 0 \/ d = RootDir =>
              \A j, k \in DOMAIN readdir(d) :
                 readdir(d)[j] = readdir(d)[k]
                   => j = k \/ readdir(d)[j] \in LongForms

(* At every write of a handler, were the program killed there, every path  *)
(* but the one the handler works on still reads as before the call.        *)
OthersSurvive ==
    ~Idle /\ crashes = 0 => LET now == Stored
             IN  \A p \in DOMAIN view :
                   ~IsPrefix(call.path, p) =>
                       p \in DOMAIN now /\ now[p] = view[p]

(* Clusters that no entry reaches appear only in write, either when the    *)
(* size did not change (fat_fuse.c:735 keeps the old chain allocated and   *)
(* the entry forgets it) or when the disk is full; no call gives one back. *)
LeaksOnlyInWrite ==
    [][ ~Idle /\ Idle' /\ crashes' = 0 =>
          \/ leaked' = leaked
          \/ /\ call.op = "write"
             /\ leaked \subseteq leaked'
             /\ \/ reply' = "ENOSPC"
                \/ Len(view'[call.path].data)
                     = Len(view[call.path].data) ]_vars

(* The copies of the FAT agree but for the entry being written now and one *)
(* for every time the program was killed: nothing repairs them, nothing    *)
(* lets them drift further apart.                                          *)
MirrorsAgree ==
    Cardinality({c \in Clusters : \E f \in Copies : fat[f][c] # fat[1][c]})
        <= crashes + (IF Idle THEN 0 ELSE 1)

=============================================================================
