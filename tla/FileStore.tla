------------------------------ MODULE FileStore ------------------------------
(***************************************************************************)
(* What a mounted volume promises the programs that use it: a map from     *)
(* paths to files and directories, and a reply to every call.  A call that *)
(* is refused changes nothing; a write that runs out of space may spoil    *)
(* the content of its own file but neither its size nor any other file.    *)
(***************************************************************************)
EXTENDS Naturals, Sequences

CONSTANTS Paths, DataChoices, OffsetChoices, Zero

VARIABLES files, reply

Parent(p) == SubSeq(p, 1, Len(p) - 1)
Exists(p) == p \in DOMAIN files
ParentIsDir(p) == Len(p) = 1 \/ (Exists(Parent(p)) /\ files[Parent(p)].dir)

With(p, v) == [q \in DOMAIN files \cup {p} |-> IF q = p THEN v ELSE files[q]]
Without(p) == [q \in DOMAIN files \ {p} |-> files[q]]

Init == files = <<>> /\ reply = "none"

Refuse(code) == reply' = code /\ UNCHANGED files

Make(p, dir) ==
    \/ ~ParentIsDir(p) /\ Refuse("ENOENT")
    \/ Exists(p) /\ Refuse("EEXIST")
    \/ ParentIsDir(p) /\ ~Exists(p) /\ Refuse("ENOSPC")
    \/ /\ ParentIsDir(p) /\ ~Exists(p)
       /\ files' = With(p, [dir |-> dir, data |-> <<>>])
       /\ reply' = "ok"

IsFile(p) == Exists(p) /\ ~files[p].dir

Write(p, offset, buf) ==
    LET old == files[p].data
        end == offset + Len(buf)
        new == [k \in 1 .. (IF end > Len(old) THEN end ELSE Len(old)) |->
                  IF k > offset /\ k <= end THEN buf[k - offset]
                  ELSE IF k <= Len(old) THEN old[k] ELSE Zero]
    IN  \/ ~IsFile(p) /\ Refuse("ENOENT")
        \/ /\ IsFile(p)
           /\ reply' = "ok"
           /\ files' = With(p, [dir |-> FALSE, data |-> new])
        \/ /\ reply' = "ENOSPC"
           /\ IsFile(p) /\ Len(new) # Len(old)
           /\ DOMAIN files' = DOMAIN files
           /\ \A q \in DOMAIN files \ {p} : files'[q] = files[q]
           /\ ~files'[p].dir /\ Len(files'[p].data) = Len(old)
        \/ IsFile(p) /\ Len(new) = Len(old) /\ Refuse("ENOSPC")

Unlink(p) ==
    \/ ~Exists(p) /\ Refuse("ENOENT")
    \/ Exists(p) /\ files[p].dir /\ Refuse("EISDIR")
    \/ IsFile(p) /\ files' = Without(p) /\ reply' = "ok"

Rmdir(p) ==
    \/ ~Exists(p) /\ Refuse("ENOENT")
    \/ IsFile(p) /\ Refuse("ENOTDIR")
    \/ /\ Exists(p) /\ files[p].dir
       /\ \/ /\ \E q \in DOMAIN files : Len(q) > 1 /\ Parent(q) = p
             /\ Refuse("ENOTEMPTY")
          \/ /\ \A q \in DOMAIN files : Len(q) = 1 \/ Parent(q) # p
             /\ files' = Without(p)
             /\ reply' = "ok"

Call == reply # "busy" /\ reply' = "busy" /\ UNCHANGED files

Next ==
    \/ Call
    \/ /\ reply = "busy"
       /\ \E p \in Paths :
            \/ Make(p, FALSE)
            \/ Make(p, TRUE)
            \/ \E offset \in OffsetChoices, buf \in DataChoices :
                 Write(p, offset, buf)
            \/ Unlink(p)
            \/ Rmdir(p)

Spec == Init /\ [][Next]_<<files, reply>>

=============================================================================
