---------------------------- MODULE X86Refinement ----------------------------
(***************************************************************************)
(* The compiled function implements HashwxVM.  Between two passes the      *)
(* machine state is the abstract state: history variables keep it there.   *)
(* Two passes meet where a program's code begins, where a branch is taken, *)
(* and where the epilogue begins.                                          *)
(***************************************************************************)
EXTENDS X86Machine

VARIABLES
    start, budget,   \* R0-R9 and the loops left, when the pass began
    entered          \* pieces of code entered: the programs, twice, and the epilogue

hvars == <<vars, start, budget, entered>>

HInit == Init /\ start = io /\ budget = BranchLimit /\ entered = 0

Current(y) == [k \in Reg |-> y[HomeOf(k)]]

NewPass(counter) ==
    /\ start' = Current(x')
    /\ budget' = BranchLimit - x'[counter]

(* A taken branch finds the loops used in ebp, where the instruction it    *)
(* jumps to will take them from.                                           *)
HNext ==
    /\ Next
    /\ \/ pc' < pc /\ NewPass(rbp) /\ UNCHANGED entered
       \/ /\ pc' > pc
          /\ pc' # buffer.pos /\ buffer.code[pc'].op \in {"test_bc", "unwind"}
          /\ NewPass(rbx)
          /\ entered' = entered + 1
       \/ /\ pc' >= pc
          /\ pc' # buffer.pos => buffer.code[pc'].op \notin {"test_bc", "unwind"}
          /\ UNCHANGED <<start, budget, entered>>

HSpec == HInit /\ [][HNext]_hvars /\ WF_hvars(HNext)

Reached == IF entered = 0 THEN 0 ELSE entered - 1
Phase ==
    IF Reached = 2 * NumPrograms THEN "done"
    ELSE IF Reached < NumPrograms THEN "reg" ELSE "mem"
Prog == IF Phase = "mem" \/ Phase = "done" THEN Reached - NumPrograms ELSE Reached

(* The pushes of the programs behind us, as the memory they leave to the   *)
(* second phase; rsp points to its lowest cell.                            *)
Memory ==
    [a \in 0 .. MemSize - 1 |->
        IF Phase = "reg" /\ a < MemSize - 8 * Prog THEN Uninit ELSE stack[a]]

VM == INSTANCE HashwxVM
    WITH phase <- Phase, prog <- Prog, bc <- budget, regs <- start, mem <- Memory

(* Machine instruction by machine instruction, the function runs the       *)
(* passes HashwxVM runs: the compiled hash is the interpreted hash.        *)
Implements == VM!Spec

(* What hashwx_exec finds in r[] is the last registers of that machine.    *)
ResultReturned == ~Running => \A k \in Reg : io[k] = start[k]
=============================================================================
