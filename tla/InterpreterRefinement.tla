------------------------ MODULE InterpreterRefinement ------------------------
(***************************************************************************)
(* The interpreter implements HashwxVM.  The abstract machine knows the    *)
(* registers only between two passes, so a history variable keeps the      *)
(* registers the current pass started from.                                *)
(***************************************************************************)
EXTENDS Interpreter

VARIABLE start

hvars == <<vars, start>>

HInit == Init /\ start = r

HNext == Next /\ start' = IF ic' = 0 THEN r' ELSE start

HSpec == HInit /\ [][HNext]_hvars /\ WF_hvars(HNext)

VM == INSTANCE HashwxVM WITH prog <- i, bc <- branch_counter, regs <- start

(* Instruction by instruction, with one flag and one counter, the          *)
(* interpreter runs whole passes in the order HashwxVM gives them.         *)
Implements == VM!Spec
=============================================================================
