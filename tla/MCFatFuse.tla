------------------------------ MODULE MCFatFuse ------------------------------
(* Instances of FatFuse for TLC.                                           *)
EXTENDS FatFuse

CONSTANTS a, b

A == <<"A", "">>
B == <<"B", "">>
D == <<"D", "">>

Files == {<<A>>, <<B>>}
WideTree == {<<A>>, <<B>>, <<D>>, <<D, A>>}
One == {<<a>>}

(* Without crashes no handler reads what a free cluster holds: the cells   *)
(* of a free cluster are left out of the fingerprint.  After a kill there  *)
(* are no directories but the root, the data never decides what a handler  *)
(* does, and the two properties that are left are about the FAT and the    *)
(* root directory: the data is left out.                                   *)
ViewOfVolume ==
    IF crashes = 0
    THEN <<fat, root, [c \in Clusters \ FreeClusters |-> area[c]], pending,
           reply, view, leaked, call>>
    ELSE <<fat, root, crashes,
           [i \in DOMAIN pending |->
               IF pending[i].to = "area" THEN <<>> ELSE pending[i]]>>

=============================================================================
