------------------------------ MODULE MCContext ------------------------------
(* Two threads, two contexts, and memory for a code buffer and a program   *)
(* list of each: enough for one thread to hash while the other makes, frees *)
(* or reuses memory, and for either allocation to run out.                 *)
EXTENDS ContextRefinement
=============================================================================
