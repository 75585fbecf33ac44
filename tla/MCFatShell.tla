----------------------------- MODULE MCFatShell -----------------------------
(* Instances of FatShell for TLC.                                          *)
EXTENDS FatShell

CONSTANTS a, b

A == <<"A", "">>
B == <<"B", "">>
LongB == <<"B", "+">>   \* past 8.3; cut, it is B
D == <<"D", "">>

IntoDAndBack == {[abs |-> FALSE, dirs |-> <<D>>],
                 [abs |-> FALSE, dirs |-> <<DotDot>>],
                 [abs |-> TRUE, dirs |-> <<>>]}
HereAndInD == {[abs |-> FALSE, dirs |-> <<>>, name |-> A],
               [abs |-> TRUE, dirs |-> <<D>>, name |-> B]}
AnySlash == HereAndInD \cup {[abs |-> TRUE, dirs |-> <<>>, name |-> LongB]}
AllLengths == {<<>>, <<a>>, <<a, b>>, <<b, a, b>>, <<b, b, a, a>>}
Both == {A, B}

(* What happens after files have been lost is not explored.                *)
NothingSpoilt == ~spoilt

=============================================================================
