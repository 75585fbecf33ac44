------------------------------ MODULE FatThreads ------------------------------
(***************************************************************************)
(* The path prologue of the FUSE handlers (fat_fuse.c) run by several      *)
(* threads.  fuse_main serves requests from a pool of threads unless -s is *)
(* given, and the usage line of the Makefile gives -f -d.  All handlers    *)
(* share current_dir_cluster: each saves it, lets change_dir move it to    *)
(* the parent of its path, reads the directory it names, and restores it.  *)
(* One shared access is one step; the volume does not change here.         *)
(***************************************************************************)
EXTENDS Integers

CONSTANTS
    Threads,  \* the threads of the FUSE session
    SubDirs,  \* the subdirectories of the root, their clusters
    Root      \* 0, the cluster that stands for the root

Dirs == SubDirs \cup {Root}

VARIABLES
    current_dir_cluster,
    pc,       \* where each thread is in its handler
    parent,   \* the parent directory of the path it was asked for
    saved,    \* its saved_cluster
    walk      \* temp_dir_cluster of its change_dir

vars == <<current_dir_cluster, pc, parent, saved, walk>>

Init ==
    /\ current_dir_cluster = Root
    /\ pc = [t \in Threads |-> "idle"]
    /\ parent = [t \in Threads |-> Root]
    /\ saved = [t \in Threads |-> Root]
    /\ walk = [t \in Threads |-> Root]

Goto(t, label) == pc' = [pc EXCEPT ![t] = label]

(* saved_cluster = current_dir_cluster; a path in the root skips           *)
(* change_dir ("Already at root, do nothing"), readdir of the root itself  *)
(* sets the current directory.                                             *)
Save(t, d) ==
    /\ pc[t] = "idle"
    /\ parent' = [parent EXCEPT ![t] = d]
    /\ saved' = [saved EXCEPT ![t] = current_dir_cluster]
    /\ IF d = Root THEN Goto(t, "look") \/ Goto(t, "go_to_root")
                   ELSE Goto(t, "walk")
    /\ UNCHANGED <<current_dir_cluster, walk>>

GoToRoot(t) ==
    /\ pc[t] = "go_to_root"
    /\ current_dir_cluster' = Root
    /\ Goto(t, "look")
    /\ UNCHANGED <<parent, saved, walk>>

(* change_dir(path_copy + 1): the path without its slash is looked up from *)
(* the current directory, and a subdirectory is only found in the root.    *)
Walk(t) ==
    /\ pc[t] = "walk"
    /\ IF current_dir_cluster = Root
       THEN walk' = [walk EXCEPT ![t] = parent[t]] /\ Goto(t, "apply")
       ELSE Goto(t, "restore") /\ UNCHANGED walk
    /\ UNCHANGED <<current_dir_cluster, parent, saved>>

Apply(t) ==
    /\ pc[t] = "apply"
    /\ current_dir_cluster' = walk[t]
    /\ Goto(t, "look")
    /\ UNCHANGED <<parent, saved, walk>>

(* read_directory(current_dir_cluster), find_entry_by_name and the rest of *)
(* the handler, which only read the current directory.                     *)
Look(t) ==
    /\ pc[t] = "look"
    /\ Goto(t, "restore")
    /\ UNCHANGED <<current_dir_cluster, parent, saved, walk>>

Restore(t) ==
    /\ pc[t] = "restore"
    /\ current_dir_cluster' = saved[t]
    /\ Goto(t, "idle")
    /\ UNCHANGED <<parent, saved, walk>>

Next == \E t \in Threads :
    \/ \E d \in Dirs : Save(t, d)
    \/ GoToRoot(t)
    \/ Walk(t)
    \/ Apply(t)
    \/ Look(t)
    \/ Restore(t)

Spec == Init /\ [][Next]_vars

-----------------------------------------------------------------------------
(* Properties.                                                             *)

(* fat_fuse.c:169 "Save current directory state to restore later": when no *)
(* handler runs, the current directory is the root again.  VIOLATED by two *)
(* threads; from then on every handler that starts alone saves and         *)
(* restores the wrong directory.                                           *)
RestoredToRoot ==
    (\A t \in Threads : pc[t] = "idle") => current_dir_cluster = Root

=============================================================================
