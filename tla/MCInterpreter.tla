---------------------------- MODULE MCInterpreter ----------------------------
(* Interpreter on seven-bit words, two programs and two loops a phase.     *)
EXTENDS InterpreterRefinement, SmallWord
=============================================================================
