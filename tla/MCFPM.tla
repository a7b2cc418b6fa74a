------------------------------- MODULE MCFPM -------------------------------
(***************************************************************************)
(* TLC instances of FPM.                                                   *)
(***************************************************************************)
EXTENDS FPM, TLC

CONSTANTS a, b

MCPools1 == {a}
MCPools2 == {a, b}
MCNone == {}
MCGood == {[usable |-> TRUE, max |-> 0]}
MCAny == [usable : {TRUE}, max : {0, 1}] \cup {[usable |-> FALSE, max |-> 0]}
MCSymmetry == Permutations(Pools)
=============================================================================
