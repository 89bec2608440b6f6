------------------------------ MODULE HashwxIsa ------------------------------
(***************************************************************************)
(* The instruction set of a HashWX program (src/instruction.h), the        *)
(* layout every generated program has (src/program.c), and the effect of   *)
(* one arithmetic instruction.  The executors (Interpreter, X86Code) and   *)
(* the abstract machine HashwxVM are built on these definitions.           *)
(*                                                                         *)
(* A register holds a member of Word.  The 64-bit primitives of the C code *)
(* are constant operators: the proofs hold for every choice of them, and   *)
(* TLC runs them on a narrow word (module SmallWord).                      *)
(***************************************************************************)
EXTENDS Naturals

CONSTANTS
    Word,            \* values of a register; uint64_t in the code
    Imm,             \* immediate operands, a subset of Word
    Or(_, _), Xor(_, _), Add(_, _), Sub(_, _), Mul(_, _),
    Ror(_, _),       \* rotr64
    Asr(_, _),       \* (int64_t)a >> b
    Lsr(_, _),       \* a >> b
    Low(_),          \* (uint32_t)a
    Tag(_, _),       \* (a & -8) | k, of hashwx_exec
    Slot(_),         \* (a / 8) % HASHWX_MEM_SIZE
    Looping(_),      \* (a & 32) == 0, of a branch flag
    NumPrograms,     \* HASHWX_NUM_PROGRAMS, 32 in the code
    BranchLimit,     \* loops allowed in one phase, 32 in the code
    ProgramLists,    \* the program lists a run starts from
    Draws            \* the eight words hashwx_exec draws for R0-R7

ASSUME SizesAssumption ==
    /\ NumPrograms \in Nat \ {0}
    /\ BranchLimit \in Nat

(* One program fills eight cells of the memory buffer.                     *)
MemSize == 8 * NumPrograms

ASSUME WordAssumption ==
    /\ 0 \in Word
    /\ Imm \subseteq Word
    /\ \A a, b \in Word :
          /\ Or(a, b) \in Word
          /\ Xor(a, b) \in Word
          /\ Add(a, b) \in Word
          /\ Sub(a, b) \in Word
          /\ Mul(a, b) \in Word
    /\ \A a \in Word, b \in Imm :
          /\ Ror(a, b) \in Word
          /\ Asr(a, b) \in Word
          /\ Lsr(a, b) \in Word
    /\ \A a \in Word :
          /\ Low(a) \in Word
          /\ Slot(a) \in 0 .. MemSize - 1
          /\ Tag(a, 3) \in Word
          /\ Tag(a, 5) \in Word
          /\ Looping(a) \in BOOLEAN
          /\ Looping(Low(a)) = Looping(a)

-----------------------------------------------------------------------------
(* enum instr_type: the C enumeration, with its numbering, which gen_imm   *)
(* compares with <=.                                                       *)
MULOR  == 0
MULXOR == 1
MULADD == 2
RMCG   == 3
XORROR == 4
ADDROR == 5
SUBROR == 6
XORASR == 7
ADDASR == 8
SUBASR == 9
XORLSR == 10
ADDLSR == 11
SUBLSR == 12
BRANCH == 13
HALT   == 14

MulOps == MULOR .. MULADD
XasOps == XORROR .. SUBLSR

-----------------------------------------------------------------------------
Reg  == 0 .. 9           \* r[HASHWX_REG_SIZE]
Dst  == 0 .. 7           \* the registers a program writes
Line == 0 .. 9           \* positions of a program, HASHWX_PROGRAM_SIZE
Operands == (0 .. 6) \cup {8}   \* the positions that have operands
Registers == [Reg -> Word]

Instr == [opcode : MULOR .. HALT, src : Reg, dst : Dst, imm : Imm]

(* The layout program_generate's comment draws, and what its callees give  *)
(* the operands: the destinations are a permutation of R0-R7, RMCG reads   *)
(* R8 or R9, and no other instruction reads the register it writes.        *)
Layout(code) ==
    /\ code[0].opcode = RMCG /\ code[0].src \in {8, 9}
    /\ \A k \in {1, 3, 5, 8} : code[k].opcode \in XasOps
    /\ \A k \in {2, 4, 6} : code[k].opcode \in MulOps
    /\ code[7].opcode = BRANCH
    /\ code[9].opcode = HALT
    /\ \A k \in Operands \ {0} : code[k].src \in Dst \ {code[k].dst}
    /\ \A j, k \in Operands : j # k => code[j].dst # code[k].dst

(* HALT and BRANCH carry operands no executor reads (program_generate does *)
(* not even write those of HALT): any value of the right type stands for   *)
(* them.                                                                   *)
Program == {code \in [Line -> Instr] : Layout(code)}

(* A product is not read by the four instructions after the one that       *)
(* computes it, so that none of them waits for the multiplier.             *)
(* compiler_a64.c relies on it to rotate RMCG's product only after the     *)
(* multiplication of instruction 2, and to load sources early.             *)
Products == {0, 2, 4, 6}
Slots == [k \in 0 .. 7 |-> IF k = 7 THEN 8 ELSE k]
Settled(code) ==
    \A j \in Products : \A k \in j + 1 .. j + 4 :
        k <= 7 => code[Slots[k]].src # code[j].dst

ASSUME InputsAssumption ==
    /\ ProgramLists \subseteq [0 .. NumPrograms - 1 -> Program]
    /\ Draws \subseteq [Dst -> Word]

-----------------------------------------------------------------------------
(* What an arithmetic instruction computes from the destination's value d, *)
(* the immediate and the second operand s: the opcodes named X-Y apply Y   *)
(* with the immediate, then X with the operand.                            *)
Mixed(opcode, d, imm) ==
    IF opcode = MULOR THEN Or(d, imm)
    ELSE IF opcode = MULXOR THEN Xor(d, imm) ELSE Add(d, imm)

Shifted(opcode, d, imm) ==
    IF opcode \in XORROR .. SUBROR THEN Ror(d, imm)
    ELSE IF opcode \in XORASR .. SUBASR THEN Asr(d, imm) ELSE Lsr(d, imm)

Combined(opcode, a, s) ==
    IF opcode \in {XORROR, XORASR, XORLSR} THEN Xor(a, s)
    ELSE IF opcode \in {ADDROR, ADDASR, ADDLSR} THEN Add(a, s) ELSE Sub(a, s)

Operate(opcode, d, imm, s) ==
    IF opcode \in MulOps THEN Mul(Mixed(opcode, d, imm), s)
    ELSE IF opcode = RMCG THEN Ror(Mul(d, s), imm)
    ELSE Combined(opcode, Shifted(opcode, d, imm), s)

(* The second operand: a register in the first phase and for RMCG, and in  *)
(* the second phase the memory cell the register points to.                *)
Second(instr, rs, phase, mem) ==
    IF phase = "mem" /\ instr.opcode # RMCG
    THEN mem[Slot(rs[instr.src])]
    ELSE rs[instr.src]

Apply(instr, rs, s) ==
    [rs EXCEPT ![instr.dst] = Operate(instr.opcode, @, instr.imm, s)]

-----------------------------------------------------------------------------
(* hashwx_exec's registers before the first program: R8 and R9 are R4 and  *)
(* R7 with their low bits replaced, so that RMCG multiplies by an odd word.*)
FirstRegisters(draw) ==
    [x \in Reg |-> IF x = 8 THEN Tag(draw[4], 3)
                  ELSE IF x = 9 THEN Tag(draw[7], 5) ELSE draw[x]]

(* The block of memory cells program i fills from R0-R7, highest cell      *)
(* first.                                                                  *)
Block(i) == MemSize - 8 - 8 * i .. MemSize - 1 - 8 * i
(* Mutant: the loop that stores the registers ends one short.              *)
MutStore(mem, i, rs) ==
    [a \in 0 .. MemSize - 1 |->
        IF a \in Block(i) /\ a # MemSize - 8 - 8 * i THEN rs[MemSize - 1 - 8 * i - a]
        ELSE mem[a]]

Store(mem, i, rs) ==
    [a \in 0 .. MemSize - 1 |->
        IF a \in Block(i) THEN rs[MemSize - 1 - 8 * i - a] ELSE mem[a]]
=============================================================================
