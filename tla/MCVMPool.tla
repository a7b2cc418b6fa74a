------------------------------ MODULE MCVMPool ------------------------------
(***************************************************************************)
(* TLC instances of VMPool.                                                *)
(***************************************************************************)
EXTENDS VMPool, TLC

CONSTANTS r1, r2, r3, p1, v1, v2, v3, q1, q2

MCRequests2 == {r1, r2}
MCRequests3 == {r1, r2, r3}
MCPrograms1 == {p1}
MCVMs2 == {v1, v2}
MCVMs3 == {v1, v2, v3}
MCPools1 == {q1}
MCPools2 == {q1, q2}

\* Caddy never calls SetVMPoolSizeLimit.
MCServerAndCaddy == {[host |-> "server", limit |-> 2],
                     [host |-> "caddy", limit |-> 0]}
MCFastCGI == {[host |-> "fastcgi", limit |-> 1]}
MCServer2 == {[host |-> "server", limit |-> 2]}

(***************************************************************************)
(* Requests, programs, VMs and pools are interchangeable; used only where  *)
(* no liveness property is checked.                                        *)
(***************************************************************************)
MCSymmetry ==
    Permutations(Requests) \cup Permutations(Programs)
      \cup Permutations(VMs) \cup Permutations(Pools)

=============================================================================
