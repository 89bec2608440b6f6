-------------------------- MODULE InterpreterProofs --------------------------
(***************************************************************************)
(* Proofs about the interpreter, for every word size, every number of      *)
(* programs and every branch limit.                                        *)
(***************************************************************************)
EXTENDS InterpreterRefinement, TLAPS

-----------------------------------------------------------------------------
(* Facts about the instruction set.                                        *)

(* An instruction maps words to a word (the arithmetic cases of the        *)
(* switches in program_exec.c).                                            *)
LEMMA OperateType ==
    ASSUME NEW op \in MULOR .. SUBLSR, NEW d \in Word, NEW imm \in Imm, NEW s \in Word
    PROVE  Operate(op, d, imm, s) \in Word
<1>1. imm \in Word
  BY WordAssumption
<1>2. Mixed(op, d, imm) \in Word
  BY <1>1, WordAssumption DEF Mixed
<1>3. Shifted(op, d, imm) \in Word
  BY WordAssumption DEF Shifted
<1>4. Combined(op, Shifted(op, d, imm), s) \in Word
  BY <1>3, WordAssumption DEF Combined
<1>5. Ror(Mul(d, s), imm) \in Word /\ Mul(Mixed(op, d, imm), s) \in Word
  BY <1>2, WordAssumption
<1> QED
  BY <1>4, <1>5 DEF Operate

(* In a generated program the opcode tells the position: what makes the    *)
(* opcode switch walk each program from RMCG to HALT.                      *)
LEMMA LayoutOpcodes ==
    ASSUME NEW code \in Program, NEW k \in Line
    PROVE  /\ code[k] \in Instr
           /\ code[k].opcode = RMCG => k = 0
           /\ code[k].opcode = BRANCH => k = 7
           /\ code[k].opcode = HALT => k = 9
           /\ code[k].opcode \in MulOps \cup XasOps => k \in {1, 2, 3, 4, 5, 6, 8}
<1>1. code[k] \in Instr /\ Layout(code)
  BY DEF Program
<1>2. k \in {0, 1, 2, 3, 4, 5, 6, 7, 8, 9}
  BY DEF Line
<1> QED
  BY <1>1, <1>2 DEF Layout, MulOps, XasOps, MULOR, MULADD, RMCG, XORROR, SUBLSR, BRANCH, HALT

(* An instruction writes one word and leaves R8 and R9 alone.              *)
LEMMA ApplyType ==
    ASSUME NEW in \in Instr, NEW rs \in Registers, NEW s \in Word,
           in.opcode \in MulOps \cup XasOps \cup {RMCG}
    PROVE  /\ Apply(in, rs, s) \in Registers
           /\ \A x \in Reg \ {in.dst} : Apply(in, rs, s)[x] = rs[x]
<1>1. in.opcode \in MULOR .. SUBLSR /\ in.dst \in Reg /\ in.imm \in Imm
  BY DEF Instr, MulOps, XasOps, MULOR, MULADD, RMCG, XORROR, SUBLSR, HALT, Dst, Reg
<1>2. Operate(in.opcode, rs[in.dst], in.imm, s) \in Word
  BY <1>1, OperateType DEF Registers
<1> QED
  BY <1>1, <1>2 DEF Apply, Registers

-----------------------------------------------------------------------------
(* The inductive invariant: types need the memory to be written before it  *)
(* is read, and the flag has the value RMCG left in its destination.       *)
FlagCopied ==
    (phase # "done" /\ ic \in 1 .. 7) =>
        branch_flag = Low(r[program_list[i][0].dst])

IInv == TypeOK /\ MemoryReady /\ FlagCopied

(* The program being interpreted is a generated one.                       *)
LEMMA CurrentProgram ==
    ASSUME TypeOK, phase # "done"
    PROVE  /\ i \in 0 .. NumPrograms - 1
           /\ program_list[i] \in Program
           /\ instr \in Instr
<1>1. i \in 0 .. NumPrograms - 1
  BY SizesAssumption DEF TypeOK
<1>2. program_list[i] \in Program
  BY <1>1, InputsAssumption DEF TypeOK
<1> QED
  BY <1>1, <1>2, LayoutOpcodes DEF instr, TypeOK

(* An arithmetic instruction never reads an unwritten cell.                *)
LEMMA SecondType ==
    ASSUME TypeOK, MemoryReady, phase # "done"
    PROVE  Second(instr, r, phase, mem) \in Word
<1>1. instr \in Instr
  BY CurrentProgram
<1>2. r[instr.src] \in Word
  BY <1>1 DEF TypeOK, Registers, Instr
<1>3. CASE phase = "reg"
  BY <1>2, <1>3 DEF Second
<1>4. CASE phase = "mem"
  <2>1. Slot(r[instr.src]) \in 0 .. MemSize - 1
    BY <1>2, WordAssumption
  <2>2. mem[Slot(r[instr.src])] \in Word
    BY <2>1, <1>4 DEF TypeOK, MemoryReady, Written
  <2> QED
    BY <1>2, <2>2 DEF Second
<1> QED
  BY <1>3, <1>4 DEF TypeOK

-----------------------------------------------------------------------------
(* The first registers are words.                                          *)
LEMMA FirstRegistersType ==
    ASSUME NEW draw \in Draws
    PROVE  FirstRegisters(draw) \in Registers
<1>1. draw \in [Dst -> Word]
  BY InputsAssumption
<1>2. draw[4] \in Word /\ draw[7] \in Word
  BY <1>1 DEF Dst
<1> QED
  BY <1>1, <1>2, WordAssumption DEF FirstRegisters, Registers, Reg, Dst

LEMMA InitIInv == Init => IInv
<1> SUFFICES ASSUME Init PROVE IInv
  OBVIOUS
<1>1. r \in Registers
  BY FirstRegistersType DEF Init
<1>2. TypeOK
  BY <1>1, SizesAssumption, WordAssumption DEF Init, TypeOK, Line
<1>3. MemoryReady
  BY SizesAssumption, UninitAssumption DEF Init, MemoryReady, Written, MemSize
<1>4. FlagCopied
  BY DEF Init, FlagCopied
<1> QED
  BY <1>2, <1>3, <1>4 DEF IInv

(* Each program's block of eight cells follows the blocks written before,  *)
(* and the last one reaches the bottom of the buffer.                      *)
LEMMA StoreWrites ==
    ASSUME IInv, phase = "reg"
    PROVE  /\ Store(mem, i, r) \in [0 .. MemSize - 1 -> Word \cup {Uninit}]
           /\ \A a \in 0 .. MemSize - 1 :
                 Store(mem, i, r)[a] # Uninit <=> a \in MemSize - 8 * (i + 1) .. MemSize - 1
<1>1. i \in 0 .. NumPrograms - 1 /\ NumPrograms \in Nat /\ MemSize = 8 * NumPrograms
  BY CurrentProgram, SizesAssumption DEF IInv, MemSize
<1>2. \A a \in Block(i) : MemSize - 1 - 8 * i - a \in Reg
  BY <1>1 DEF Block, Reg
<1>3. \A a \in Block(i) : r[MemSize - 1 - 8 * i - a] \in Word
  BY <1>2 DEF IInv, TypeOK, Registers
<1>4. \A a \in 0 .. MemSize - 1 :
        Store(mem, i, r)[a] = IF a \in Block(i) THEN r[MemSize - 1 - 8 * i - a] ELSE mem[a]
  BY DEF Store
<1>5. Store(mem, i, r) \in [0 .. MemSize - 1 -> Word \cup {Uninit}]
  BY <1>3 DEF Store, IInv, TypeOK
<1>6. ASSUME NEW a \in 0 .. MemSize - 1
      PROVE  Store(mem, i, r)[a] # Uninit <=> a \in MemSize - 8 * (i + 1) .. MemSize - 1
  <2>1. CASE a \in Block(i)
    <3>1. Store(mem, i, r)[a] # Uninit
      BY <1>3, <1>4, <2>1, UninitAssumption
    <3>2. a \in MemSize - 8 * (i + 1) .. MemSize - 1
      BY <1>1, <2>1 DEF Block
    <3> QED
      BY <3>1, <3>2
  <2>2. CASE a \notin Block(i)
    <3>1. Store(mem, i, r)[a] # Uninit <=> a \in MemSize - 8 * i .. MemSize - 1
      BY <1>4, <2>2 DEF IInv, MemoryReady, Written
    <3>2. a \in MemSize - 8 * (i + 1) .. MemSize - 1 <=> a \in MemSize - 8 * i .. MemSize - 1
      BY <1>1, <2>2 DEF Block
    <3> QED
      BY <3>1, <3>2
  <2> QED
    BY <2>1, <2>2
<1> QED
  BY <1>5, <1>6

(* One step per action of the interpreter; under it, what the action can   *)
(* disturb.                                                                *)
LEMMA NextIInv == IInv /\ [Next]_vars => IInv'
<1> SUFFICES ASSUME IInv, [Next]_vars PROVE IInv'
  OBVIOUS
<1> USE DEF IInv
<1>1. CASE Arithmetic
  <2>1. /\ phase # "done" /\ instr \in Instr /\ program_list[i] \in Program
        /\ ic \in {1, 2, 3, 4, 5, 6, 8}
    BY <1>1, CurrentProgram, LayoutOpcodes DEF Arithmetic, instr, TypeOK
  <2>2. /\ r' \in Registers
        /\ \A x \in Reg \ {instr.dst} : r'[x] = r[x]
    BY <1>1, <2>1, SecondType, ApplyType DEF Arithmetic, TypeOK
  <2>3. TypeOK'
    BY <1>1, <2>1, <2>2 DEF Arithmetic, TypeOK, Line
  <2>4. MemoryReady'
    BY <1>1 DEF Arithmetic, MemoryReady, Written
  <2>5. FlagCopied'
    <3> SUFFICES ASSUME ic' \in 1 .. 7
                 PROVE  branch_flag' = Low(r'[program_list'[i'][0].dst])
      BY DEF FlagCopied
    <3>1. ic \in 1 .. 6
      BY <1>1, <2>1 DEF Arithmetic
    <3>2. instr.dst # program_list[i][0].dst /\ program_list[i][0].dst \in Reg
      BY <2>1, <3>1 DEF Program, Layout, Operands, instr, Line, Instr, Dst, Reg
    <3>3. r'[program_list[i][0].dst] = r[program_list[i][0].dst]
      BY <2>2, <3>2
    <3> QED
      BY <1>1, <2>1, <3>1, <3>3 DEF Arithmetic, FlagCopied
  <2> QED
    BY <2>3, <2>4, <2>5
<1>2. CASE Rmcg
  <2>1. phase # "done" /\ instr \in Instr /\ program_list[i] \in Program /\ ic = 0
    BY <1>2, CurrentProgram, LayoutOpcodes DEF Rmcg, instr, TypeOK
  <2>2. r[instr.src] \in Word
    BY <2>1 DEF TypeOK, Registers, Instr
  <2>3. r' \in Registers
    BY <1>2, <2>1, <2>2, ApplyType DEF Rmcg, TypeOK
  <2>4. branch_flag' = Low(r'[instr.dst]) /\ branch_flag' \in Word
    BY <1>2, <2>1, <2>3, WordAssumption DEF Rmcg, Registers, Instr, Dst, Reg
  <2>5. TypeOK'
    BY <1>2, <2>1, <2>3, <2>4 DEF Rmcg, TypeOK, Line
  <2>6. MemoryReady'
    BY <1>2 DEF Rmcg, MemoryReady, Written
  <2>7. FlagCopied'
    BY <1>2, <2>1, <2>4 DEF Rmcg, FlagCopied, instr
  <2> QED
    BY <2>5, <2>6, <2>7
<1>3. CASE BranchTaken
  <2>1. TypeOK'
    BY <1>3, SizesAssumption DEF BranchTaken, LoopTaken, TypeOK, Line
  <2>2. MemoryReady'
    BY <1>3 DEF BranchTaken, MemoryReady, Written
  <2>3. FlagCopied'
    BY <1>3 DEF BranchTaken, FlagCopied
  <2> QED
    BY <2>1, <2>2, <2>3
<1>4. CASE BranchNotTaken
  <2>1. ic = 7
    BY <1>4, CurrentProgram, LayoutOpcodes DEF BranchNotTaken, instr, TypeOK
  <2>2. TypeOK'
    BY <1>4, <2>1 DEF BranchNotTaken, TypeOK, Line
  <2>3. MemoryReady'
    BY <1>4 DEF BranchNotTaken, MemoryReady, Written
  <2>4. FlagCopied'
    BY <1>4, <2>1 DEF BranchNotTaken, FlagCopied
  <2> QED
    BY <2>2, <2>3, <2>4
<1>5. CASE HaltReg
  <2>1. i \in 0 .. NumPrograms - 1 /\ NumPrograms \in Nat \ {0}
    BY <1>5, CurrentProgram, SizesAssumption DEF HaltReg
  <2>2. TypeOK'
    BY <1>5, <2>1, StoreWrites, SizesAssumption, WordAssumption
    DEF HaltReg, NextCall, TypeOK, Line
  <2>3. MemoryReady'
    BY <1>5, <2>1, StoreWrites DEF HaltReg, MemoryReady, Written, MemSize
  <2>4. FlagCopied'
    BY <1>5 DEF HaltReg, NextCall, FlagCopied
  <2> QED
    BY <2>2, <2>3, <2>4
<1>6. CASE HaltMem
  <2>1. i \in 0 .. NumPrograms - 1 /\ NumPrograms \in Nat \ {0}
    BY <1>6, CurrentProgram, SizesAssumption DEF HaltMem
  <2>2. TypeOK'
    BY <1>6, <2>1, WordAssumption DEF HaltMem, NextCall, TypeOK, Line
  <2>3. MemoryReady'
    BY <1>6 DEF HaltMem, MemoryReady, Written
  <2>4. FlagCopied'
    BY <1>6 DEF HaltMem, NextCall, FlagCopied
  <2> QED
    BY <2>2, <2>3, <2>4
<1>7. CASE UNCHANGED vars
  BY <1>7 DEF vars, TypeOK, MemoryReady, Written, FlagCopied
<1> QED
  BY <1>1, <1>2, <1>3, <1>4, <1>5, <1>6, <1>7 DEF Next, Returned

THEOREM Invariance == Spec => []IInv
<1> QED
  BY InitIInv, NextIInv, PTL DEF Spec

(* TypeOK, for every word size, program list and number of programs.       *)
THEOREM TypeCorrect == Spec => []TypeOK
<1>1. IInv => TypeOK
  BY DEF IInv
<1> QED
  BY <1>1, Invariance, PTL

(* No cell of the stack buffer mem is read before it is written.           *)
THEOREM MemoryIsReady == Spec => []MemoryReady
<1>1. IInv => MemoryReady
  BY DEF IInv
<1> QED
  BY <1>1, Invariance, PTL

(* The interpreter's copy of the flag and the register it came from ask    *)
(* for the same branch.                                                    *)
THEOREM FlagStaysLive == Spec => []FlagIsLive
<1>1. IInv => FlagIsLive
  <2> SUFFICES ASSUME IInv, phase # "done", ic \in 1 .. 7
               PROVE  Looping(branch_flag) = Looping(r[program_list[i][0].dst])
    BY DEF FlagIsLive
  <2>1. program_list[i][0] \in Instr
    BY CurrentProgram, LayoutOpcodes DEF IInv, Line
  <2>2. r[program_list[i][0].dst] \in Word
    BY <2>1 DEF IInv, TypeOK, Registers, Instr, Dst, Reg
  <2> QED
    BY <2>2, WordAssumption DEF IInv, FlagCopied
<1> QED
  BY <1>1, Invariance, PTL

-----------------------------------------------------------------------------
(* Work stays in its bounds.                                               *)
LEMMA WorkBounds == IInv => WorkBounded
<1> SUFFICES ASSUME IInv PROVE WorkBounded
  OBVIOUS
<1>1. CASE phase = "done"
  BY <1>1, SizesAssumption DEF WorkBounded, Work, PhaseWork
<1>2. CASE phase # "done"
  <2>1. /\ i \in 0 .. NumPrograms - 1 /\ NumPrograms \in Nat /\ BranchLimit \in Nat
        /\ ic \in 0 .. 9 /\ branch_counter \in 0 .. BranchLimit
        /\ phase \in {"reg", "mem", "done"}
    BY <1>2, CurrentProgram, SizesAssumption DEF IInv, TypeOK, Line
  <2> QED
    BY <1>2, <2>1 DEF WorkBounded, Work, PhaseWork
<1> QED
  BY <1>1, <1>2

(* Every instruction uses work up.                                         *)
LEMMA WorkStep == IInv /\ Next => (Work' < Work \/ UNCHANGED vars)
<1> SUFFICES ASSUME IInv, Next PROVE Work' < Work \/ UNCHANGED vars
  OBVIOUS
<1>1. CASE Returned
  BY <1>1 DEF Returned
<1>2. CASE ~Returned
  <2>1. phase # "done"
    BY <1>2 DEF Next, Returned, Arithmetic, Rmcg, BranchTaken, BranchNotTaken, HaltReg, HaltMem
  <2>2. /\ i \in 0 .. NumPrograms - 1 /\ NumPrograms \in Nat \ {0} /\ BranchLimit \in Nat
        /\ ic \in 0 .. 9 /\ branch_counter \in 0 .. BranchLimit
        /\ phase \in {"reg", "mem"}
    BY <2>1, CurrentProgram, SizesAssumption DEF IInv, TypeOK, Line
  <2>3. instr.opcode = BRANCH => ic = 7
    BY <2>1, CurrentProgram, LayoutOpcodes DEF IInv, TypeOK, instr
  <2>4. instr.opcode = HALT => ic = 9
    BY <2>1, CurrentProgram, LayoutOpcodes DEF IInv, TypeOK, instr
  <2>5. CASE Arithmetic \/ Rmcg
    BY <2>1, <2>2, <2>5 DEF Arithmetic, Rmcg, Work, PhaseWork
  <2>6. CASE BranchTaken
    BY <2>1, <2>2, <2>3, <2>6 DEF BranchTaken, LoopTaken, Work, PhaseWork
  <2>7. CASE BranchNotTaken
    BY <2>1, <2>2, <2>7 DEF BranchNotTaken, Work, PhaseWork
  <2>8. CASE HaltReg
    BY <2>2, <2>4, <2>8 DEF HaltReg, NextCall, Work, PhaseWork
  <2>9. CASE HaltMem
    BY <2>2, <2>4, <2>9 DEF HaltMem, NextCall, Work, PhaseWork
  <2> QED
    BY <1>2, <2>5, <2>6, <2>7, <2>8, <2>9 DEF Next
<1> QED
  BY <1>1, <1>2

(* The interpreter's running time is bounded, whatever the program list:   *)
(* at most 2 * (10 * NumPrograms + 8 * BranchLimit) turns of its loop.     *)
THEOREM BoundedWork == Spec => []WorkBounded /\ WorkDecreases
<1>1. IInv /\ [Next]_vars => [Work' < Work]_vars
  BY WorkStep
<1> QED
  BY <1>1, WorkBounds, Invariance, PTL DEF Spec, WorkDecreases

-----------------------------------------------------------------------------
(* The interpreter implements HashwxVM.  Both read the same instruction    *)
(* set, HashwxVM through its instance.                                     *)
LEMMA SameOperate ==
    ASSUME NEW op, NEW d, NEW imm, NEW s
    PROVE  VM!Operate(op, d, imm, s) = Operate(op, d, imm, s)
<1>1. /\ VM!MulOps = MulOps /\ VM!MULOR = MULOR /\ VM!MULXOR = MULXOR /\ VM!RMCG = RMCG
      /\ VM!XORROR = XORROR /\ VM!SUBROR = SUBROR /\ VM!XORASR = XORASR
      /\ VM!SUBASR = SUBASR /\ VM!XORLSR = XORLSR
      /\ VM!ADDROR = ADDROR /\ VM!ADDASR = ADDASR /\ VM!ADDLSR = ADDLSR
  BY DEF VM!MulOps, VM!MULOR, VM!MULADD, VM!MULXOR, VM!RMCG, VM!XORROR, VM!ADDROR,
     VM!SUBROR, VM!XORASR, VM!ADDASR, VM!SUBASR, VM!XORLSR, VM!ADDLSR, MulOps, MULOR,
     MULXOR, MULADD, RMCG, XORROR, ADDROR, SUBROR, XORASR, ADDASR, SUBASR, XORLSR, ADDLSR
<1>2. VM!Mixed(op, d, imm) = Mixed(op, d, imm)
  BY <1>1 DEF VM!Mixed, Mixed
<1>3. VM!Shifted(op, d, imm) = Shifted(op, d, imm)
  BY <1>1 DEF VM!Shifted, Shifted
<1>4. \A a : VM!Combined(op, a, s) = Combined(op, a, s)
  BY <1>1 DEF VM!Combined, Combined
<1> QED
  BY <1>1, <1>2, <1>3, <1>4 DEF VM!Operate, Operate

LEMMA ExecIs ==
    ASSUME NEW k, NEW rs
    PROVE  VM!Exec(k, rs) =
             Apply(program_list[i][k], rs, Second(program_list[i][k], rs, phase, mem))
<1>1. VM!Second(program_list[i][k], rs, phase, mem) =
        Second(program_list[i][k], rs, phase, mem)
  BY DEF VM!Second, Second, VM!RMCG, RMCG
<1>2. ASSUME NEW in, NEW s
      PROVE  VM!Apply(in, rs, s) = Apply(in, rs, s)
  BY SameOperate DEF VM!Apply, Apply
<1> QED
  BY <1>1, <1>2 DEF VM!Exec

(* In the middle of a pass the registers are those the first instructions  *)
(* made of start: R1 after RMCG, up to R7 at the branch.                   *)
R1 == VM!Exec(0, start)
R2 == VM!Exec(1, R1)
R3 == VM!Exec(2, R2)
R4 == VM!Exec(3, R3)
R5 == VM!Exec(4, R4)
R6 == VM!Exec(5, R5)
R7 == VM!Exec(6, R6)
AskedAgain == branch_counter # 0 /\ Looping(R1[program_list[i][0].dst])

MidPass ==
    /\ ic = 0 => r = start
    /\ ic = 1 => r = R1
    /\ ic = 2 => r = R2
    /\ ic = 3 => r = R3
    /\ ic = 4 => r = R4
    /\ ic = 5 => r = R5
    /\ ic = 6 => r = R6
    /\ ic = 7 => r = R7
    /\ ic = 8 => r = R7 /\ ~AskedAgain
    /\ ic = 9 => r = VM!Exec(8, R7) /\ ~AskedAgain
    /\ ic \in 1 .. 7 => Looping(branch_flag) = Looping(R1[program_list[i][0].dst])

PassInv == (ic = 0 => r = start) /\ (phase # "done" => MidPass)

(* The instructions in front of the halt leave everything HashwxVM sees in *)
(* place.                                                                  *)
Still == UNCHANGED <<program_list, phase, i, branch_counter, mem, start>>

LEMMA StillPass ==
    ASSUME Still
    PROVE  /\ R1' = R1 /\ R2' = R2 /\ R3' = R3 /\ R4' = R4
           /\ R5' = R5 /\ R6' = R6 /\ R7' = R7
           /\ VM!Exec(8, R7)' = VM!Exec(8, R7)
           /\ AskedAgain' = AskedAgain
<1>1. R1' = R1
  BY DEF Still, R1, VM!Exec
<1>2. R2' = R2
  BY <1>1 DEF Still, R2, VM!Exec
<1>3. R3' = R3
  BY <1>2 DEF Still, R3, VM!Exec
<1>4. R4' = R4
  BY <1>3 DEF Still, R4, VM!Exec
<1>5. R5' = R5
  BY <1>4 DEF Still, R5, VM!Exec
<1>6. R6' = R6
  BY <1>5 DEF Still, R6, VM!Exec
<1>7. R7' = R7
  BY <1>6 DEF Still, R7, VM!Exec
<1>8. VM!Exec(8, R7)' = VM!Exec(8, R7)
  BY <1>7 DEF Still, VM!Exec
<1>9. AskedAgain' = AskedAgain
  BY <1>1 DEF Still, AskedAgain
<1> QED
  BY <1>1, <1>2, <1>3, <1>4, <1>5, <1>6, <1>7, <1>8, <1>9

(* VM's definitions, in terms of the registers of the pass.                *)
LEMMA PassIs == VM!Pass = R7 /\ VM!Again = AskedAgain
BY DEF VM!Pass, VM!Again, VM!Flag, AskedAgain, R1, R2, R3, R4, R5, R6, R7

(* Inside a pass, an instruction is a stuttering step of HashwxVM.         *)
LEMMA InsidePass ==
    ASSUME IInv, PassInv, HNext, Arithmetic \/ Rmcg \/ BranchNotTaken
    PROVE  PassInv' /\ Still
<1>1. /\ phase # "done" /\ instr \in Instr /\ program_list[i] \in Program /\ ic \in Line
      /\ MidPass
  BY CurrentProgram DEF Arithmetic, Rmcg, BranchNotTaken, IInv, TypeOK, PassInv
<1>2. ic' # 0
  BY <1>1 DEF Arithmetic, Rmcg, BranchNotTaken, Line
<1>3. Still
  BY <1>2 DEF HNext, Arithmetic, Rmcg, BranchNotTaken, Still
<1>4. CASE Arithmetic
  <2>1. ic \in {1, 2, 3, 4, 5, 6, 8}
    BY <1>1, <1>4, LayoutOpcodes DEF Arithmetic, instr
  <2>2. r' = VM!Exec(ic, r) /\ ic' = ic + 1 /\ branch_flag' = branch_flag
    BY <1>4, ExecIs DEF Arithmetic, instr
  <2>3. R1'[program_list'[i'][0].dst] = R1[program_list[i][0].dst]
    BY <1>3, StillPass DEF Still
  <2>4. MidPass'
    BY <1>1, <1>3, <2>1, <2>2, <2>3, StillPass DEF MidPass, R2, R3, R4, R5, R6, R7
  <2> QED
    BY <1>2, <1>3, <2>4 DEF PassInv
<1>5. CASE Rmcg
  <2>1. ic = 0 /\ instr.dst \in Reg /\ instr = program_list[i][0]
    BY <1>1, <1>5, LayoutOpcodes DEF Rmcg, instr, Instr, Dst, Reg
  <2>2. r' = R1 /\ ic' = 1
    BY <1>1, <1>5, <2>1, ExecIs DEF Rmcg, instr, Second, R1, MidPass
  <2>3. r[instr.src] \in Word /\ instr.opcode = RMCG
    BY <1>1, <1>5 DEF Rmcg, IInv, TypeOK, Registers, Instr
  <2>4. r' \in Registers
    BY <1>1, <1>5, <2>3, ApplyType DEF Rmcg, IInv, TypeOK
  <2>5. Looping(branch_flag') = Looping(R1[program_list[i][0].dst])
    BY <1>5, <2>1, <2>2, <2>4, WordAssumption DEF Rmcg, Registers
  <2>6. MidPass'
    BY <1>3, <2>2, <2>5, StillPass DEF MidPass, Still
  <2> QED
    BY <1>2, <1>3, <2>6 DEF PassInv
<1>6. CASE BranchNotTaken
  <2>1. ic = 7 /\ ic' = 8 /\ r' = r
    BY <1>1, <1>6, LayoutOpcodes DEF BranchNotTaken, instr
  <2>2. ~AskedAgain
    BY <1>1, <1>6, <2>1 DEF BranchNotTaken, LoopTaken, AskedAgain, MidPass
  <2>3. MidPass'
    BY <1>1, <1>3, <2>1, <2>2, StillPass DEF MidPass
  <2> QED
    BY <1>2, <1>3, <2>3 DEF PassInv
<1> QED
  BY <1>3, <1>4, <1>5, <1>6

(* A taken branch is the Loop of HashwxVM, a halt one of its two ends.     *)
LEMMA EndOfPass ==
    ASSUME IInv, PassInv, HNext, BranchTaken \/ HaltReg \/ HaltMem
    PROVE  PassInv' /\ VM!Next
<1>1. /\ phase # "done" /\ instr \in Instr /\ program_list[i] \in Program /\ ic \in Line
      /\ i \in 0 .. NumPrograms - 1 /\ MidPass
  BY CurrentProgram DEF BranchTaken, HaltReg, HaltMem, IInv, TypeOK, PassInv
<1>2. ic' = 0 /\ start' = r'
  BY DEF BranchTaken, HaltReg, HaltMem, NextCall, HNext
<1>3. PassInv'
  BY <1>2 DEF PassInv, MidPass
<1>4. CASE BranchTaken
  <2>0. ic = 7
    BY <1>1, <1>4, LayoutOpcodes DEF BranchTaken, instr
  <2>1. r = R7 /\ Looping(branch_flag) = Looping(R1[program_list[i][0].dst])
    BY <1>1, <2>0 DEF MidPass
  <2>2. AskedAgain
    BY <1>4, <2>1 DEF BranchTaken, LoopTaken, AskedAgain
  <2>3. VM!Loop
    BY <1>1, <1>2, <1>4, <2>1, <2>2, PassIs DEF BranchTaken, VM!Loop
  <2> QED
    BY <1>3, <2>3 DEF VM!Next
<1>5. CASE HaltReg
  <2>1. r = VM!Exec(8, R7) /\ ~AskedAgain
    BY <1>1, <1>5, LayoutOpcodes DEF HaltReg, instr, MidPass
  <2>2. VM!FinishReg
    BY <1>2, <1>5, <2>1, PassIs DEF HaltReg, NextCall, VM!FinishReg, VM!Store, VM!Block,
       VM!MemSize, Store, Block, MemSize
  <2> QED
    BY <1>3, <2>2 DEF VM!Next
<1>6. CASE HaltMem
  <2>1. r = VM!Exec(8, R7) /\ ~AskedAgain
    BY <1>1, <1>6, LayoutOpcodes DEF HaltMem, instr, MidPass
  <2>2. VM!FinishMem
    BY <1>2, <1>6, <2>1, PassIs DEF HaltMem, NextCall, VM!FinishMem
  <2> QED
    BY <1>3, <2>2 DEF VM!Next
<1> QED
  BY <1>4, <1>5, <1>6

(* Every behaviour of the interpreter is one of HashwxVM: the interpreted  *)
(* hash is the hash HashwxVM defines, for every word size, program list,   *)
(* input, number of programs and branch limit.                             *)
THEOREM Refinement == HSpec => Implements
<1>1. HInit => IInv
  BY InitIInv DEF HInit
<1>2. HInit => VM!Init /\ PassInv
  BY DEF HInit, Init, VM!Init, PassInv, MidPass, VM!FirstRegisters, VM!Reg, VM!MemSize,
     FirstRegisters, Reg, MemSize
<1>3. IInv /\ [HNext]_hvars => IInv'
  BY NextIInv DEF HNext, hvars
<1>4. IInv /\ PassInv /\ [HNext]_hvars => PassInv' /\ [VM!Next]_VM!vars
  <2> SUFFICES ASSUME IInv, PassInv, [HNext]_hvars
               PROVE  PassInv' /\ [VM!Next]_VM!vars
    OBVIOUS
  <2>1. CASE HNext /\ (Arithmetic \/ Rmcg \/ BranchNotTaken)
    <3>1. PassInv' /\ Still
      BY <2>1, InsidePass
    <3> QED
      BY <3>1 DEF Still, VM!vars
  <2>2. CASE HNext /\ (BranchTaken \/ HaltReg \/ HaltMem)
    BY <2>2, EndOfPass
  <2>3. CASE HNext /\ Returned
    BY <2>3 DEF Returned, HNext, vars, VM!vars, PassInv
  <2>4. CASE UNCHANGED hvars
    <3>1. Still /\ UNCHANGED <<ic, r, branch_flag>>
      BY <2>4 DEF hvars, vars, Still
    <3>2. MidPass' = MidPass
      BY <3>1, StillPass DEF MidPass, Still
    <3> QED
      BY <3>1, <3>2 DEF Still, PassInv, VM!vars
  <2> QED
    BY <2>1, <2>2, <2>3, <2>4 DEF HNext, Next
<1> QED
  BY <1>1, <1>2, <1>3, <1>4, PTL DEF HSpec, Implements, VM!Spec
=============================================================================
