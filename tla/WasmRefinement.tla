---------------------------- MODULE WasmRefinement ----------------------------
(***************************************************************************)
(* The side module implements HashwxVM.  Two passes meet where a program's *)
(* loop begins, for the first time or again, and where the epilogue does:  *)
(* there the locals are the registers of the abstract machine.             *)
(***************************************************************************)
EXTENDS WasmMachine

VARIABLES
    start, budget,   \* R0-R9 and the loops left, when the pass began
    entered          \* loops entered from outside, and the epilogue

hvars == <<vars, start, budget, entered>>

HInit ==
    /\ Init
    /\ start = [k \in Reg |-> heap[k]]
    /\ budget = BranchLimit
    /\ entered = 0

Epilogue == Len(code) - Len(code_epilogue) + 1
Meets(p) == p \in 1 .. Len(code) /\ (code[p].op = "loop" \/ p = Epilogue)

HNext ==
    /\ Next
    /\ \/ /\ pc' # pc /\ Meets(pc')
          /\ start' = [k \in Reg |-> loc'[LOC(k)]]
          /\ budget' = BranchLimit - loc'[BC]
          /\ entered' = IF Op("br") THEN entered ELSE entered + 1
       \/ /\ pc' = pc \/ ~Meets(pc')
          /\ UNCHANGED <<start, budget, entered>>

HSpec == HInit /\ [][HNext]_hvars /\ WF_hvars(HNext)

Reached == IF entered = 0 THEN 0 ELSE entered - 1
Phase ==
    IF Reached = 2 * NumPrograms THEN "done"
    ELSE IF Reached < NumPrograms THEN "reg" ELSE "mem"
Prog == IF Phase = "reg" THEN Reached ELSE Reached - NumPrograms

(* What the finished programs of the first phase have stored.              *)
Filled ==
    [a \in 0 .. MemSize - 1 |->
        IF Phase = "reg" /\ a < MemSize - 8 * Prog THEN Uninit ELSE heap[MemCell + a]]

VM == INSTANCE HashwxVM
    WITH phase <- Phase, prog <- Prog, bc <- budget, regs <- start, mem <- Filled

(* Stack instruction by stack instruction, the side module runs the passes *)
(* HashwxVM runs: the hash in a browser is the hash of the interpreter.    *)
Implements == VM!Spec

(* The words of ctx->reg hashwx_exec_final makes the hash of; R9 is the    *)
(* one hashwx_exec_begin stored.                                           *)
ReadByFinal == Dst \cup {9}
ResultReturned == ~Running => \A k \in ReadByFinal : heap[k] = start[k]
=============================================================================
