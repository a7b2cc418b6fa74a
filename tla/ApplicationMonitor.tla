-------------------------- MODULE ApplicationMonitor --------------------------
(***************************************************************************)
(* What Application.Lock promises a script (www/manual/md/asp/             *)
(* application.md): a reentrant monitor around the shared maps.  Only the  *)
(* request inside the monitor changes them, and it leaves by itself.       *)
(***************************************************************************)
EXTENDS Naturals

CONSTANTS Servers, NoServer, Cells, Values

VARIABLES owner, depth, store

vars == <<owner, depth, store>>

Init ==
    /\ owner = NoServer
    /\ depth = 0
    /\ store \in [Cells -> Values]

Enter(s) ==
    /\ owner \in {NoServer, s}
    /\ owner' = s
    /\ depth' = depth + 1
    /\ UNCHANGED store

Leave(s) ==
    /\ owner = s
    /\ depth' = depth - 1
    /\ owner' = IF depth = 1 THEN NoServer ELSE s
    /\ UNCHANGED store

Change(s) ==
    /\ owner = s
    /\ store' \in [Cells -> Values]
    /\ UNCHANGED <<owner, depth>>

Next == \E s \in Servers : Enter(s) \/ Leave(s) \/ Change(s)

Spec == Init /\ [][Next]_vars

==============================================================================
