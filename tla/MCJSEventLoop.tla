--------------------------- MODULE MCJSEventLoop ---------------------------
(* Values of the constants of JSEventLoop for TLC. *)
EXTENDS JSEventLoop
=============================================================================
