------------------------------ MODULE HashwxVM -------------------------------
(***************************************************************************)
(* What hashwx_program_list_execute promises, whatever executes it: the    *)
(* programs run in order, first on registers and then on the memory the    *)
(* first phase filled; a program is repeated while the word its RMCG       *)
(* computed in this pass asks for it and the phase has a loop left.  One   *)
(* step is one whole pass over a program, from its first instruction to    *)
(* the branch, or to the halt.  The interpreter of program_exec.c and the  *)
(* machine code of compiler_x86.c are shown to implement this machine.     *)
(***************************************************************************)
EXTENDS HashwxIsa

CONSTANT Uninit    \* an uninitialised cell of the C array

VARIABLES
    program_list,
    phase,         \* "reg", "mem", then "done"
    prog,          \* the program being run
    bc,            \* loops this phase has left, for all its programs
    regs,          \* the registers before the pass
    mem

vars == <<program_list, phase, prog, bc, regs, mem>>

Init ==
    /\ program_list \in ProgramLists
    /\ phase = "reg"
    /\ prog = 0
    /\ bc = BranchLimit
    /\ \E draw \in Draws : regs = FirstRegisters(draw)
    /\ mem = [a \in 0 .. MemSize - 1 |-> Uninit]

Exec(k, rs) ==
    LET instr == program_list[prog][k]
    IN  Apply(instr, rs, Second(instr, rs, phase, mem))

Pass ==
    LET r0 == Exec(0, regs)
        r1 == Exec(1, r0)
        r2 == Exec(2, r1)
        r3 == Exec(3, r2)
        r4 == Exec(4, r3)
        r5 == Exec(5, r4)
    IN  Exec(6, r5)
Flag == Exec(0, regs)[program_list[prog][0].dst]
Again == bc # 0 /\ Looping(Flag)

(* The program is repeated on the registers the pass left.                 *)
Loop ==
    /\ phase # "done"
    /\ Again
    /\ bc' = bc - 1
    /\ regs' = Pass
    /\ UNCHANGED <<program_list, phase, prog, mem>>

(* A program of the first phase ends: its registers go to memory, and the  *)
(* last one opens the second phase with its loops restored.                *)
FinishReg ==
    /\ phase = "reg"
    /\ ~Again
    /\ regs' = Exec(8, Pass)
    /\ mem' = Store(mem, prog, regs')
    /\ \/ /\ prog < NumPrograms - 1
          /\ prog' = prog + 1
          /\ UNCHANGED <<phase, bc>>
       \/ /\ prog = NumPrograms - 1
          /\ phase' = "mem"
          /\ prog' = 0
          /\ bc' = BranchLimit
    /\ UNCHANGED program_list

FinishMem ==
    /\ phase = "mem"
    /\ ~Again
    /\ regs' = Exec(8, Pass)
    /\ prog' = prog + 1
    /\ phase' = IF prog = NumPrograms - 1 THEN "done" ELSE "mem"
    /\ UNCHANGED <<program_list, bc, mem>>

Next == Loop \/ FinishReg \/ FinishMem

(* The safety of the machine.  That it gets to the end is a property of    *)
(* each executor (Termination), which maps phase to phase.                 *)
Spec == Init /\ [][Next]_vars
=============================================================================
