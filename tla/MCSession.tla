------------------------------ MODULE MCSession ------------------------------
(***************************************************************************)
(* TLC instances of SessionStore.                                          *)
(***************************************************************************)
EXTENDS SessionStore, TLC

CONSTANTS a, b, o1, o2, o3, r1, r2, w1, w2, v1, v2

MCIds1 == {a}
MCIds2 == {a, b}
MCObjs1 == {o1}
MCObjs2 == {o1, o2}
MCObjs3 == {o1, o2, o3}
MCRequests1 == {r1}
MCRequests2 == {r1, r2}
MCWorkers1 == {w1}
MCWorkers2 == {w1, w2}
MCVals1 == {v1}
MCVals2 == {v1, v2}

(***************************************************************************)
(* Identifiers, objects, requests and workers are interchangeable; used    *)
(* only where no liveness property is checked.                             *)
(***************************************************************************)
MCSymmetry ==
    Permutations(Ids) \cup Permutations(Objs) \cup Permutations(Requests)
      \cup Permutations(Workers) \cup Permutations(Vals)

==============================================================================
