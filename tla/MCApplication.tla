---------------------------- MODULE MCApplication ----------------------------
(***************************************************************************)
(* TLC instances of ApplicationLock.                                       *)
(***************************************************************************)
EXTENDS ApplicationLock, TLC

CONSTANTS r1, r2, k1, v1

MCServers2 == {r1, r2}
MCKeys == {k1}
MCVals == {v1}
MCNobody == {}
MCOne == {r2}

==============================================================================
