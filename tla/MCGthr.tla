------------------------------- MODULE MCGthr -------------------------------
(* Small instances of Gthr for TLC.                                        *)
EXTENDS Gthr, TLC

CONSTANTS s1, s2

Binary == s1 :> 1
BinaryAndEmpty == (s1 :> 1) @@ (s2 :> 0)

(* One priority gt_create has to clamp and one it keeps.                   *)
OutsideAndInside == {-1, 1}

=============================================================================
