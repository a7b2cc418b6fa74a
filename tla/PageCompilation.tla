-------------------------- MODULE PageCompilation ---------------------------
(***************************************************************************)
(* The compiler and the optimizer together: the pages are syntax trees,    *)
(* the code the optimizer starts from is the one the compiler emits (the   *)
(* configurations give Emitted the value Compile), and what the code does  *)
(* is compared with what the page means.                                   *)
(***************************************************************************)
EXTENDS Optimizer, Compiler

CONSTANT Variables \* the variables of the pages

\* SAFETY: whatever has been done to the code, it does what the page means:
\* it writes the same, leaves the same values in the variables, and fails on
\* the same line if it fails. Before the first pass this is the compiler's
\* own correctness (Compile, parseStatement); after it, every pass's.
MeaningKept == Seen(Variables, Run(code)) = Meaning(Variables, program)
=============================================================================
