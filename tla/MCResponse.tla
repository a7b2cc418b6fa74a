----------------------------- MODULE MCResponse -----------------------------
(***************************************************************************)
(* TLC instances of Response.                                              *)
(***************************************************************************)
EXTENDS Response

MCTexts == {"x"}
MCNames == {"custom"}
MCCodePages == {"65001", "1252"}
=============================================================================
