------------------------------- MODULE X86Code -------------------------------
(***************************************************************************)
(* src/compiler_x86.c: the machine code hashwx_compile_x86 emits, byte     *)
(* address by byte address, and the processor running it.  The templates   *)
(* are records that say which registers an instruction names and how long  *)
(* it is; the encoders turn the fields of a HashWX instruction into        *)
(* register numbers as the C code turns them into ModRM and REX bits.      *)
(***************************************************************************)
EXTENDS HashwxIsa, SequencesExt

CONSTANTS
    Uninit,      \* a stack cell nobody wrote
    Ptr,         \* the argument r[] of the compiled function
    Caller       \* the caller's values of the callee-saved registers

HASHWX_CODE_SIZE == 8192

(* The register allocation drawn in compiler_x86.c, by x86 number.         *)
rax == 0
rcx == 1
rdx == 2
rbx == 3
rsp == 4
rbp == 5
rsi == 6
rdi == 7
R(k) == 8 + k      \* r8-r15 hold R0-R7

-----------------------------------------------------------------------------
(* Templates and encoders.                                                 *)
Push(n) == [op |-> "push", len |-> IF n < 8 THEN 1 ELSE 2, from |-> n]
Pop(n)  == [op |-> "pop", len |-> IF n < 8 THEN 1 ELSE 2, to |-> n]
MovReg(to, from) == [op |-> "mov", len |-> 3, to |-> to, from |-> from]
Load(n, k)  == [op |-> "load", len |-> IF k = 0 THEN 3 ELSE 4, to |-> n, cell |-> k]
StoreTo(n, k) == [op |-> "store", len |-> IF k = 0 THEN 3 ELSE 4, from |-> n, cell |-> k]
ClearBc == [op |-> "clear", len |-> 2, to |-> rbx]             \* xor ebx, ebx
NextBc  == [op |-> "lea", len |-> 3, to |-> rbp, from |-> rbx] \* lea ebp, [rbx+1]

SavedRegs(abi) ==
    (IF abi = "win" THEN <<rsi, rdi>> ELSE <<>>) \o <<rbx, rbp, R(4), R(5), R(6), R(7)>>

(* R0-R7 in r8-r15, then R8 in rsi and R9 in rdi.                          *)
HomeOf(k) == IF k < 8 THEN R(k) ELSE k - 2

code_prologue(abi) ==
    LET saved == SavedRegs(abi)
    IN  (IF abi = "win" THEN <<>> ELSE <<MovReg(rcx, rdi)>>)
        \o [k \in 1 .. Len(saved) |-> Push(saved[k])]
        \o [k \in 1 .. 10 |-> Load(HomeOf(k - 1), k - 1)]
        \o <<ClearBc, NextBc>>

(* Mutants: the registers are popped in the order they were pushed in; R7  *)
(* is not written back.                                                    *)
MutEpilogueOrder(abi) ==
    LET saved == SavedRegs(abi)
    IN  <<[op |-> "unwind", len |-> 7]>>
        \o [k \in 1 .. 8 |-> StoreTo(R(k - 1), k - 1)]
        \o [k \in 1 .. Len(saved) |-> Pop(saved[k])]
        \o <<[op |-> "ret", len |-> 1]>>
MutEpilogueStores(abi) ==
    LET saved == Reverse(SavedRegs(abi))
    IN  <<[op |-> "unwind", len |-> 7]>>
        \o [k \in 1 .. 7 |-> StoreTo(R(k - 1), k - 1)]
        \o [k \in 1 .. Len(saved) |-> Pop(saved[k])]
        \o <<[op |-> "ret", len |-> 1]>>

code_epilogue(abi) ==
    LET saved == Reverse(SavedRegs(abi))
    IN  <<[op |-> "unwind", len |-> 7]>>          \* add rsp, 2048
        \o [k \in 1 .. 8 |-> StoreTo(R(k - 1), k - 1)]
        \o [k \in 1 .. Len(saved) |-> Pop(saved[k])]
        \o <<[op |-> "ret", len |-> 1]>>

code_target == <<[op |-> "test_bc", len |-> 2, from |-> rbp],
                 [op |-> "cmovz", len |-> 3, to |-> rbx, from |-> rbp]>>

code_branch == <<[op |-> "or_bc", len |-> 2, to |-> rdx, from |-> rbx],
                 NextBc,
                 [op |-> "test_flag", len |-> 3, from |-> rdx]>>
code_store == [k \in 1 .. 8 |-> Push(R(k - 1))]

(* Mutant: the address takes instructions with longer encodings.           *)
MutCodeAddress == <<[op |-> "address", len |-> 9, to |-> rax]>>

code_address == <<[op |-> "address", len |-> 5, to |-> rax]>>

(* or/xor/add/ror/sar/shr r64, imm8: the eight REX.B registers.            *)
emit_op_imm(name, dst, imm) ==
    <<[op |-> name, len |-> 4, to |-> R(dst), imm |-> imm]>>
tpl_mul(opcode) == <<"or_imm", "xor_imm", "add_imm">>[opcode + 1]
tpl_pre_xas(k)  == <<"ror_imm", "sar_imm", "shr_imm">>[k + 1]
tpl_xas_reg(k)  == <<"xor", "add", "sub">>[k + 1]
tpl_xas_mem(k)  == <<"xor_mem", "add_mem", "sub_mem">>[k + 1]

(* REX.W+R, src an old register; REX.W+R+B, src one of r8-r15.             *)
emit_imul_reg_4c(dst, src) == <<[op |-> "imul", len |-> 4, to |-> R(dst), from |-> src]>>
emit_imul_reg_4d(dst, src) == <<[op |-> "imul", len |-> 4, to |-> R(dst), from |-> R(src)]>>
emit_imul_mem(dst) == <<[op |-> "imul_mem", len |-> 5, to |-> R(dst)]>>
emit_op_reg_4d(name, dst, src) == <<[op |-> name, len |-> 3, to |-> R(dst), from |-> R(src)]>>
emit_mov_4c(dst, src) == <<MovReg(dst, R(src))>>
emit_op_mem(name, dst) == <<[op |-> name, len |-> 4, to |-> R(dst)]>>

(* Mutants: the displacement is one too long; it only reaches the test.    *)
MutEmitJz(distance) == <<[op |-> "jz", len |-> 2, back |-> distance + 1]>>
MutEmitJzNear(distance) == <<[op |-> "jz", len |-> 2, back |-> 5]>>

(* The displacement counts from the end of the jump, of two or six bytes:  *)
(* both land two bytes after the target, behind its test instruction.      *)
emit_jz(distance) ==
    IF distance <= 128
    THEN <<[op |-> "jz", len |-> 2, back |-> distance]>>
    ELSE <<[op |-> "jz", len |-> 6, back |-> distance + 4]>>

Bytes(isns) ==
    LET upto[k \in 0 .. Len(isns)] == IF k = 0 THEN 0 ELSE upto[k - 1] + isns[k].len
    IN  upto[Len(isns)]

-----------------------------------------------------------------------------
(* compile_program_reg and compile_program_mem: what is emitted for one    *)
(* program.  RMCG is its first instruction, so that the jump's target is   *)
(* the beginning of the program's code.                                    *)
CompileRmcg(in) ==
    code_target \o emit_imul_reg_4c(in.dst, in.src - 2)
    \o emit_op_imm("ror_imm", in.dst, in.imm) \o emit_mov_4c(rdx, in.dst)

CompileMul(phase, in) ==
    IF phase = "reg"
    THEN emit_op_imm(tpl_mul(in.opcode), in.dst, in.imm) \o emit_imul_reg_4d(in.dst, in.src)
    ELSE emit_mov_4c(rax, in.src) \o emit_op_imm(tpl_mul(in.opcode), in.dst, in.imm)
         \o code_address \o emit_imul_mem(in.dst)

CompileXas(phase, in) ==
    LET opcode == in.opcode - 4
        shift == emit_op_imm(tpl_pre_xas(opcode \div 3), in.dst, in.imm)
    IN  IF phase = "reg"
        THEN shift \o emit_op_reg_4d(tpl_xas_reg(opcode % 3), in.dst, in.src)
        ELSE emit_mov_4c(rax, in.src) \o shift \o code_address
             \o emit_op_mem(tpl_xas_mem(opcode % 3), in.dst)

CompileInstr(phase, before, in) ==
    IF in.opcode = RMCG THEN CompileRmcg(in)
    ELSE IF in.opcode = BRANCH THEN code_branch \o emit_jz(Bytes(before \o code_branch))
    ELSE IF in.opcode = HALT THEN <<>>
    ELSE IF in.opcode \in MulOps THEN CompileMul(phase, in) ELSE CompileXas(phase, in)

compile_program(phase, program) ==
    LET emitted[k \in 0 .. 10] ==
            IF k = 0 THEN <<>>
            ELSE LET before == emitted[k - 1]
                 IN  before \o CompileInstr(phase, before, program[k - 1])
    IN  emitted[10]

(* Mutant: the second phase goes on with the loops the first one left.     *)
MutSections(abi, programs) ==
    LET n == Cardinality(DOMAIN programs)
    IN  <<code_prologue(abi)>>
        \o [k \in 1 .. n |-> compile_program("reg", programs[k - 1]) \o code_store]
        \o [k \in 1 .. n |-> compile_program("mem", programs[k - 1])]
        \o <<code_epilogue(abi)>>

(* hashwx_compile_x86: the sections of the code buffer, one after another. *)
Sections(abi, programs) ==
    LET n == Cardinality(DOMAIN programs)
    IN  <<code_prologue(abi)>>
        \o [k \in 1 .. n |-> compile_program("reg", programs[k - 1]) \o code_store]
        \o <<<<ClearBc>>>>
        \o [k \in 1 .. n |-> compile_program("mem", programs[k - 1])]
        \o <<code_epilogue(abi)>>

BytesEmitted(abi, programs) ==
    LET sections == Sections(abi, programs)
        upto[k \in 0 .. Len(sections)] ==
            IF k = 0 THEN 0 ELSE upto[k - 1] + Bytes(sections[k])
    IN  upto[Len(sections)]

hashwx_compile_x86(abi, programs) ==
    LET isns == FlattenSeq(Sections(abi, programs))
        offset[k \in 1 .. Len(isns) + 1] ==
            IF k = 1 THEN 0 ELSE offset[k - 1] + isns[k - 1].len
    IN  [pos |-> offset[Len(isns) + 1],
         code |-> [a \in {offset[k] : k \in 1 .. Len(isns)} |->
                      isns[CHOOSE k \in 1 .. Len(isns) : offset[k] = a]]]

Abi == {"sysv", "win"}
=============================================================================
