------------------------------- MODULE WasmCode -------------------------------
(***************************************************************************)
(* src/compiler_wasm.c: the function hashwx_compile_wasm emits, a sequence *)
(* of stack instructions with structured control, and the sizes its module *)
(* header and its assertions give.  An instruction is a record with its    *)
(* name, its length in bytes and its immediate argument.                   *)
(***************************************************************************)
EXTENDS HashwxIsa, Sequences
LOCAL INSTANCE SequencesExt

CONSTANTS And(_, _), FlagBit  \* i64.and, and the 32 a branch tests

ASSUME AndAssumption == \A a \in Word :
    /\ And(a, FlagBit) \in Word
    /\ (And(a, FlagBit) = 0) = Looping(a)
    /\ And(a, 8 * (MemSize - 1)) = 8 * Slot(a)

(* Parameters and locals of the function.                                  *)
RP == 0              \* pointer to ctx->reg
MP == 1              \* pointer into ctx->mem
LOC(k) == 2 + k      \* R0-R9
BC == 12             \* loops used
BF == 13             \* branch flag
MM == 14             \* memory mask

Isn(name, bytes, argument) == <<[op |-> name, len |-> bytes, arg |-> argument]>>
Get(n) == Isn("get", 2, n)
Set(n) == Isn("set", 2, n)
Tee(n) == Isn("tee", 2, n)
Const64(v, bytes) == Isn("const64", 1 + bytes, v)
Const32(v, bytes) == Isn("const32", 1 + bytes, v)
Plain(name) == Isn(name, 1, 0)
Load(offset) == Isn("load", 3, offset)
StoreAt(offset) == Isn("store", 3, offset)
Loop == Isn("loop", 2, 0)
If == Isn("if", 2, 0)
Br(depth) == Isn("br", 2, depth)
End == Plain("end")

Each(n, piece(_)) == FlattenSeq([k \in 1 .. n |-> piece(k - 1)])

Bytes(isns) ==
    LET upto[k \in 0 .. Len(isns)] == IF k = 0 THEN 0 ELSE upto[k - 1] + isns[k].len
    IN  upto[Len(isns)]

-----------------------------------------------------------------------------
(* The instructions of code_prologue: registers from ctx->reg, and $mp     *)
(* moved behind the memory, which the first phase fills downwards.         *)
LoadRegister(k) == Get(RP) \o Load(8 * k) \o Set(LOC(k))

code_prologue ==
    Each(10, LoadRegister)
    \o Const64(0, 1) \o Set(BC)
    \o Const64(8 * (MemSize - 1), 2) \o Set(MM)
    \o Const32(8 * MemSize, 2) \o Get(MP) \o Plain("add32") \o Set(MP)

(* Mutant: R7 goes to where R6 was stored.                                 *)
MutEpilogue ==
    LET StoreRegister(k) == Get(RP) \o Get(LOC(k)) \o StoreAt(IF k = 7 THEN 48 ELSE 8 * k)
    IN  Each(8, StoreRegister) \o End

code_epilogue ==
    LET StoreRegister(k) == Get(RP) \o Get(LOC(k)) \o StoreAt(8 * k)
    IN  Each(8, StoreRegister) \o End

code_clear_bc == Const64(0, 1) \o Set(BC)

(* Mutant: $mp moves down by seven cells only.                             *)
MutRegPrologue == Get(MP) \o Const32(56, 2) \o Plain("sub32") \o Set(MP) \o Loop

code_reg_prologue == Get(MP) \o Const32(64, 2) \o Plain("sub32") \o Set(MP) \o Loop

code_reg_epilogue ==
    LET StoreRegister(k) == Get(MP) \o Get(LOC(k)) \o StoreAt(56 - 8 * k)
    IN  End \o Each(8, StoreRegister)

(* The branch leaves the if and begins the loop around it again.           *)
code_branch ==
    Get(BC) \o Get(BF) \o Plain("or") \o Const64(FlagBit, 1) \o Plain("and") \o Plain("eqz")
    \o If \o Const64(1, 1) \o Get(BC) \o Plain("add") \o Set(BC) \o Br(1) \o End

lookup_pre(opcode) ==
    IF opcode \in MulOps THEN <<"or", "xor", "add">>[opcode + 1]
    ELSE <<"ror", "shrs", "shru">>[(opcode - 4) \div 3 + 1]
lookup_post(opcode) == <<"xor", "add", "sub">>[((opcode - 4) % 3) + 1]

(* Mutant: the address is not narrowed to 32 bits.                         *)
MutMemSrc(src) ==
    Get(LOC(src)) \o Get(MM) \o Plain("and")
    \o Get(MP) \o Plain("add32") \o Load(0)

emit_mem_src(src) ==
    Get(LOC(src)) \o Get(MM) \o Plain("and") \o Plain("wrap")
    \o Get(MP) \o Plain("add32") \o Load(0)

(* Immediates are emitted as one byte.                                     *)
Imm64(in) == Const64(in.imm, 1)

(* Mutant: the destination is set and read again, two bytes more.          *)
MutRmcg(in) ==
    Get(LOC(in.dst)) \o Get(LOC(in.src)) \o Plain("mul") \o Imm64(in) \o Plain("ror")
    \o Set(LOC(in.dst)) \o Get(LOC(in.dst)) \o Set(BF)

CompileRmcg(in) ==
    Get(LOC(in.dst)) \o Get(LOC(in.src)) \o Plain("mul") \o Imm64(in) \o Plain("ror")
    \o Tee(LOC(in.dst)) \o Set(BF)

CompileReg(in) ==
    Get(LOC(in.dst)) \o Imm64(in) \o Plain(lookup_pre(in.opcode)) \o Get(LOC(in.src))
    \o Plain(IF in.opcode \in MulOps THEN "mul" ELSE lookup_post(in.opcode))
    \o Set(LOC(in.dst))

(* A product takes its operands in the other order.                        *)
CompileMem(in) ==
    LET mixed == Get(LOC(in.dst)) \o Imm64(in) \o Plain(lookup_pre(in.opcode))
    IN  (IF in.opcode \in MulOps
         THEN emit_mem_src(in.src) \o mixed \o Plain("mul")
         ELSE mixed \o emit_mem_src(in.src) \o Plain(lookup_post(in.opcode)))
        \o Set(LOC(in.dst))

CompileInstr(in, arithmetic) ==
    IF in.opcode = RMCG THEN CompileRmcg(in)
    ELSE IF in.opcode = BRANCH THEN code_branch
    ELSE IF in.opcode = HALT THEN <<>> ELSE arithmetic

compile_program_reg(program) ==
    LET Compile(k) == CompileInstr(program[k], CompileReg(program[k]))
    IN  code_reg_prologue \o Each(10, Compile) \o code_reg_epilogue

compile_program_mem(program) ==
    LET Compile(k) == CompileInstr(program[k], CompileMem(program[k]))
    IN  Loop \o Each(10, Compile) \o End

(* Mutant: the loops of the first phase count in the second.               *)
MutSections(programs, n) ==
    <<code_prologue>>
    \o [k \in 1 .. n |-> compile_program_reg(programs[k - 1])]
    \o [k \in 1 .. n |-> compile_program_mem(programs[k - 1])]
    \o <<code_epilogue>>

(* The body of hashwx_compile_wasm for n programs.                         *)
Sections(programs, n) ==
    <<code_prologue>>
    \o [k \in 1 .. n |-> compile_program_reg(programs[k - 1])]
    \o <<code_clear_bc>>
    \o [k \in 1 .. n |-> compile_program_mem(programs[k - 1])]
    \o <<code_epilogue>>

hashwx_compile_wasm(programs, n) == FlattenSeq(Sections(programs, n))

BytesEmitted(programs, n) ==
    LET sections == Sections(programs, n)
        upto[k \in 0 .. Len(sections)] ==
            IF k = 0 THEN 0 ELSE upto[k - 1] + Bytes(sections[k])
    IN  upto[Len(sections)]

-----------------------------------------------------------------------------
(* The sizes the code states, as constants.                                *)
HASHWX_CODE_SIZE == 11278
CodeSection == 11227        \* bytes after the size of the code section
FunctionBody == 11223       \* bytes after the size of its function
HeaderBytes == 51           \* up to the end of the size of the code section
LocalDecl == 3              \* the declaration of the locals
WASM_REG_PROGRAM_SIZE == 173
WASM_MEM_PROGRAM_SIZE == 179
=============================================================================
