----------------------------- MODULE Interpreter -----------------------------
(***************************************************************************)
(* src/program_exec.c: the interpreter.  One action is one turn of the     *)
(* for (;;) loop of program_execute_reg or program_execute_mem, which      *)
(* differ only in where the second operand comes from (phase); HaltReg and *)
(* HaltMem add what hashwx_program_list_execute does when the call         *)
(* returns.                                                                *)
(***************************************************************************)
EXTENDS HashwxIsa

CONSTANT Uninit    \* an uninitialised cell of the C array

ASSUME UninitAssumption == Uninit \notin Word

VARIABLES
    program_list,
    phase,           \* which of the two for loops runs; "done" on return
    i,               \* the loop index of hashwx_program_list_execute
    ic,              \* the instruction counter
    branch_counter,
    branch_flag,
    r,
    mem

vars == <<program_list, phase, i, ic, branch_counter, branch_flag, r, mem>>

Init ==
    /\ program_list \in ProgramLists
    /\ phase = "reg"
    /\ i = 0
    /\ ic = 0
    /\ branch_counter = BranchLimit
    /\ branch_flag = 0
    /\ \E draw \in Draws : r = FirstRegisters(draw)
    /\ mem = [a \in 0 .. MemSize - 1 |-> Uninit]

-----------------------------------------------------------------------------
instr == program_list[i][ic]

(* The flag is a copy of the low half of RMCG's result, zero at the start  *)
(* of each call.                                                           *)
LoopTaken == branch_counter # 0 /\ Looping(branch_flag)

(* The multiplications and the XOR/ADD/SUB instructions.                   *)
Arithmetic ==
    /\ phase # "done"
    /\ instr.opcode \in MulOps \cup XasOps
    /\ r' = Apply(instr, r, Second(instr, r, phase, mem))
    /\ ic' = ic + 1
    /\ UNCHANGED <<program_list, phase, i, branch_counter, branch_flag, mem>>

(* Mutant: the flag is taken before the multiplication.                    *)
MutRmcg ==
    /\ phase # "done"
    /\ instr.opcode = RMCG
    /\ r' = Apply(instr, r, r[instr.src])
    /\ branch_flag' = Low(r[instr.dst])
    /\ ic' = ic + 1
    /\ UNCHANGED <<program_list, phase, i, branch_counter, mem>>

Rmcg ==
    /\ phase # "done"
    /\ instr.opcode = RMCG
    /\ r' = Apply(instr, r, r[instr.src])
    /\ branch_flag' = Low(r'[instr.dst])
    /\ ic' = ic + 1
    /\ UNCHANGED <<program_list, phase, i, branch_counter, mem>>

BranchTaken ==
    /\ phase # "done"
    /\ instr.opcode = BRANCH
    /\ LoopTaken
    /\ branch_counter' = branch_counter - 1
    /\ ic' = 0
    /\ UNCHANGED <<program_list, phase, i, branch_flag, r, mem>>

(* Mutant: a branch that is not taken does not move on.                    *)
MutBranchNotTaken ==
    /\ phase # "done"
    /\ instr.opcode = BRANCH
    /\ ~LoopTaken
    /\ UNCHANGED <<program_list, phase, i, ic, branch_counter, branch_flag, r, mem>>

BranchNotTaken ==
    /\ phase # "done"
    /\ instr.opcode = BRANCH
    /\ ~LoopTaken
    /\ ic' = ic + 1
    /\ UNCHANGED <<program_list, phase, i, branch_counter, branch_flag, r, mem>>

(* The next call starts with ic and branch_flag at zero and the branch     *)
(* counter the last call returned.                                         *)
NextCall ==
    /\ ic' = 0
    /\ branch_flag' = 0
    /\ UNCHANGED <<program_list, r>>

(* Mutant: the second phase goes on with the loops the first one left.     *)
MutHaltReg ==
    /\ phase = "reg"
    /\ instr.opcode = HALT
    /\ mem' = Store(mem, i, r)
    /\ \/ i < NumPrograms - 1 /\ i' = i + 1 /\ UNCHANGED phase
       \/ i = NumPrograms - 1 /\ phase' = "mem" /\ i' = 0
    /\ NextCall
    /\ UNCHANGED branch_counter

HaltReg ==
    /\ phase = "reg"
    /\ instr.opcode = HALT
    /\ mem' = Store(mem, i, r)
    /\ \/ /\ i < NumPrograms - 1
          /\ i' = i + 1
          /\ UNCHANGED <<phase, branch_counter>>
       \/ /\ i = NumPrograms - 1
          /\ phase' = "mem"
          /\ i' = 0
          /\ branch_counter' = BranchLimit
    /\ NextCall

(* Mutants: the last call is not the end; every program has loops anew.    *)
MutLastHalt ==
    /\ phase = "mem"
    /\ instr.opcode = HALT
    /\ i' = i + 1
    /\ phase' = IF i = NumPrograms THEN "done" ELSE "mem"
    /\ NextCall
    /\ UNCHANGED <<branch_counter, mem>>
MutHaltMem ==
    /\ phase = "mem"
    /\ instr.opcode = HALT
    /\ i' = i + 1
    /\ phase' = IF i = NumPrograms - 1 THEN "done" ELSE "mem"
    /\ branch_counter' = BranchLimit
    /\ NextCall
    /\ UNCHANGED mem

HaltMem ==
    /\ phase = "mem"
    /\ instr.opcode = HALT
    /\ i' = i + 1
    /\ phase' = IF i = NumPrograms - 1 THEN "done" ELSE "mem"
    /\ NextCall
    /\ UNCHANGED <<branch_counter, mem>>

(* hashwx_program_list_execute has returned.                               *)
Returned == phase = "done" /\ UNCHANGED vars

Next ==
    \/ Arithmetic \/ Rmcg
    \/ BranchTaken \/ BranchNotTaken
    \/ HaltReg \/ HaltMem
    \/ Returned

(* One thread executes straight through: it is never descheduled for ever. *)
Spec == Init /\ [][Next]_vars /\ WF_vars(Next)

-----------------------------------------------------------------------------
(* The type invariant.                                                     *)
TypeOK ==
    /\ program_list \in ProgramLists
    /\ phase \in {"reg", "mem", "done"}
    /\ i \in 0 .. NumPrograms
    /\ i = NumPrograms <=> phase = "done"
    /\ ic \in Line
    /\ branch_counter \in 0 .. BranchLimit
    /\ branch_flag \in Word
    /\ r \in Registers
    /\ mem \in [0 .. MemSize - 1 -> Word \cup {Uninit}]

(* The memory buffer is a local array nobody clears.  The first phase      *)
(* fills it from the top, eight cells a program, and the second phase,     *)
(* which may read any cell, starts only when no cell is left unwritten.    *)
Written ==
    IF phase = "reg" THEN MemSize - 8 * i .. MemSize - 1 ELSE 0 .. MemSize - 1
MemoryReady == \A a \in 0 .. MemSize - 1 : mem[a] # Uninit <=> a \in Written

(* The flag the branch tests is the RMCG result of this very pass, still   *)
(* in its destination register: what lets the compiled code test that      *)
(* register's copy, made at another place of the program, and still agree. *)
FlagIsLive ==
    (phase # "done" /\ ic \in 1 .. 7) =>
        Looping(branch_flag) = Looping(r[program_list[i][0].dst])

(* Instructions the execution may still run: ten for each program to come  *)
(* and eight more for each loop left, in this phase and in the next.       *)
PhaseWork == 10 * NumPrograms + 8 * BranchLimit
Work ==
    IF phase = "done" THEN 0
    ELSE 10 * (NumPrograms - i) - ic + 8 * branch_counter
            + (IF phase = "reg" THEN PhaseWork ELSE 0)

(* The execution time of a hash is bounded whatever the programs and the   *)
(* input are: no instruction runs without using up some of the work, of    *)
(* which there is 2 * (10 * NumPrograms + 8 * BranchLimit) at the start.   *)
WorkDecreases == [][Work' < Work]_vars
WorkBounded == Work \in 0 .. 2 * PhaseWork

(* A hash is computed: hashwx_program_list_execute returns.                *)
Termination == <>(phase = "done")
=============================================================================
