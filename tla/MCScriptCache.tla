---------------------------- MODULE MCScriptCache ----------------------------
(***************************************************************************)
(* TLC instances of ScriptCache: page a includes x, page b includes y and  *)
(* then x, and b fills the memory tier.  In the Case instances the names   *)
(* of a and b differ in case only and both include x.                      *)
(***************************************************************************)
EXTENDS ScriptCache, TLC

CONSTANTS a, b, x, y, r1, r2

MCPages == {a, b}
MCIncludes == {x, y}
MCUses == (a :> <<x>>) @@ (b :> <<y, x>>)
MCSize == (a :> 1) @@ (b :> 2)
MCPage == {a}
MCInclude == {x}
MCUsesOne == a :> <<x>>
MCSizeOne == a :> 1
MCFold == [f \in Pages \cup Includes |-> f]
MCFoldCase == [f \in Pages \cup Includes |-> IF f = b THEN a ELSE f]
MCUsesCase == (a :> <<x>>) @@ (b :> <<x>>)
MCFiles == Pages \cup Includes
MCRequests == {r1, r2}

MCSymmetry == Permutations(Requests)

=============================================================================
