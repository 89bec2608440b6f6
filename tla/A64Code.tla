------------------------------- MODULE A64Code --------------------------------
(***************************************************************************)
(* src/compiler_a64.c: the schedule hashwx_compile_a64 writes.  RMCG is    *)
(* rotated after two other instructions, operands are loaded and shifted   *)
(* ahead of their use, and the flag is tested before the last product is   *)
(* taken.  Every machine instruction is four bytes; a record says what it  *)
(* does and which registers it names.                                      *)
(***************************************************************************)
EXTENDS HashwxIsa, SequencesExt

(* What the compiler takes for granted of a generated program (theorems    *)
(* ProductsFit and ImmediatesFit of GeneratorProofs).                      *)
ASSUME ScheduleAssumption ==
    \A list \in ProgramLists : \A k \in 0 .. NumPrograms - 1 :
        /\ Settled(list[k])
        /\ \A j \in {2, 4, 6} : list[k][j].imm \in {1, 9, 33}

(* x0-x7 hold R0-R7; x8 points to r[]; x9 counts the loops; x10 is 9 and   *)
(* x11 is 33; x12 and x13 hold R8 and R9; x14-x17 are temporary.           *)
HomeOf(k) == IF k < 8 THEN k ELSE k + 4

X(n) == <<"reg", n>>
N(value) == <<"imm", value>>
Alu(name, to, a, b) == [op |-> name, to |-> to, a |-> X(a), b |-> b]
Mov(to, b) == [op |-> "mov", to |-> to, b |-> b]
Sp(bytes) == [op |-> "sp", bytes |-> bytes]
Ldp(a, b, base, cell) == [op |-> "ldp", to |-> <<a, b>>, base |-> base, cell |-> cell]
Stp(a, b, cell) == [op |-> "stp", from |-> <<a, b>>, cell |-> cell]      \* to r[]
Push(a, b, cell) == [op |-> "push", from |-> <<a, b>>, cell |-> cell]    \* to the stack

code_prologue ==
    <<Ldp(12, 13, 0, 8), Mov(8, X(0)),
      Ldp(6, 7, 0, 6), Ldp(4, 5, 0, 4), Ldp(2, 3, 0, 2), Ldp(0, 1, 0, 0),
      Mov(9, N(0)), Mov(10, N(9)), Mov(11, N(33))>>

(* Mutant: the stack pointer is left where the programs put it.            *)
MutEpilogueSp ==
    <<Stp(6, 7, 6), Stp(4, 5, 4), Stp(2, 3, 2), Stp(0, 1, 0), [op |-> "ret"]>>

code_epilogue ==
    <<Stp(6, 7, 6), Sp(8 * MemSize),
      Stp(4, 5, 4), Stp(2, 3, 2), Stp(0, 1, 0), [op |-> "ret"]>>

(* The two instructions of code_branch: tst x14, 32; cinc x9, x9, eq       *)
tst_flag == [op |-> "tst"]
cinc_loops == [op |-> "cinc", to |-> 9]
code_clear_bc == <<Mov(9, N(0))>>

emit_mul(dst, src) == Alu("mul", dst, dst, X(src))

emit_orr(dst, src1, src2) == Alu("orr", dst, src1, X(src2))
emit_ror(dst, count) == Alu("ror", dst, dst, N(count))

(* 1, 9 and 33 divided by 8 select the operand: an immediate, or a register*)
(* that holds it where the instruction cannot.                             *)
mul_imm_inv(k) == <<0, 1, 2, 2, 2>>[k + 1]
premul_tpls(opcode, k) ==
    IF opcode = MULADD THEN N(<<1, 9, 33>>[k + 1]) ELSE <<N(1), X(10), X(11)>>[k + 1]
emit_premul(in) ==
    Alu(<<"orr", "eor", "add">>[in.opcode + 1], in.dst, in.dst,
        premul_tpls(in.opcode, mul_imm_inv(in.imm \div 8)))
emit_pre_xas(in) ==
    Alu(<<"ror", "asr", "lsr">>[((in.opcode - 4) \div 3) + 1], in.dst, in.dst, N(in.imm))
emit_xas(in, src) ==
    Alu(<<"eor", "add", "sub">>[((in.opcode - 4) % 3) + 1], in.dst, in.dst, X(src))

(* ldr dst, [sp, dst]                                                      *)
emit_ldr_sp(dst) == [op |-> "ldr", to |-> dst]
emit_and_2040(dst, src) == Alu("and", dst, src, N(2040))

emit_beq(pos, target) == [op |-> "beq", back |-> pos - target]

(* Four pairs, each above the one before it in the order of the registers; *)
(* the pair with the destination of instruction 8 comes last.              *)
store_pair(k) ==
    <<Push(3, 2, 4), Push(5, 4, 2), Push(7, 6, 0), Push(1, 0, 6),
      Push(3, 2, 4), Push(5, 4, 2), Push(7, 6, 0)>>[k + 1]

(* Mutant: the pairs begin with the one instruction 8 is about to change.  *)
MutPairIndex(program) == ((program[8].dst \div 2) + 3) % 4

pair_idx(program) == program[8].dst \div 2

(* compile_program_reg: what is behind the branch target, up to the branch *)
(* and after it.                                                           *)
reg_pass(p) ==
    <<emit_mul(p[0].dst, p[0].src + 4),
      emit_pre_xas(p[1]), Mov(14, X(p[1].src)), emit_premul(p[2]),
      emit_xas(p[1], 14), emit_mul(p[2].dst, p[2].src),
      emit_pre_xas(p[3]), emit_ror(p[0].dst, p[0].imm), emit_xas(p[3], p[3].src),
      emit_premul(p[4]), emit_mul(p[4].dst, p[4].src),
      emit_pre_xas(p[5]), emit_orr(14, p[0].dst, 9), emit_xas(p[5], p[5].src),
      emit_premul(p[6]), tst_flag, cinc_loops, emit_mul(p[6].dst, p[6].src)>>
reg_end(p) ==
    <<store_pair(pair_idx(p)), emit_pre_xas(p[8]),
      store_pair(pair_idx(p) + 1), emit_xas(p[8], p[8].src),
      store_pair(pair_idx(p) + 2), store_pair(pair_idx(p) + 3)>>
compile_program_reg(p) ==
    <<Sp(-64)>> \o reg_pass(p)
    \o <<emit_beq(1 + Len(reg_pass(p)), 1)>> \o reg_end(p)

(* compile_program_mem, the same.                                          *)
mem_pass(p) ==
    <<emit_and_2040(15, p[1].src), emit_ldr_sp(15), emit_pre_xas(p[1]),
      emit_mul(p[0].dst, p[0].src + 4), emit_xas(p[1], 15),
      emit_and_2040(16, p[2].src), emit_ldr_sp(16),
      emit_and_2040(17, p[3].src), emit_ldr_sp(17),
      emit_premul(p[2]), emit_pre_xas(p[3]), emit_ror(p[0].dst, p[0].imm),
      emit_mul(p[2].dst, 16), emit_xas(p[3], 17),
      emit_and_2040(16, p[4].src), emit_ldr_sp(16),
      emit_and_2040(17, p[5].src), emit_ldr_sp(17),
      emit_premul(p[4]), emit_pre_xas(p[5]), emit_orr(14, p[0].dst, 9),
      emit_mul(p[4].dst, 16), emit_xas(p[5], 17),
      emit_and_2040(16, p[6].src), emit_ldr_sp(16),
      emit_and_2040(17, p[8].src), emit_ldr_sp(17),
      emit_premul(p[6]), tst_flag, cinc_loops, emit_mul(p[6].dst, 16)>>
mem_end(p) == <<emit_pre_xas(p[8]), emit_xas(p[8], 17)>>
compile_program_mem(p) ==
    mem_pass(p) \o <<emit_beq(Len(mem_pass(p)), 0)>> \o mem_end(p)

(* Mutant: the prologue is written in front of every program.              *)
MutCompile(programs, n) ==
    FlattenSeq([k \in 1 .. n |-> code_prologue \o compile_program_reg(programs[k - 1])])
    \o code_clear_bc
    \o FlattenSeq([k \in 1 .. n |-> compile_program_mem(programs[k - 1])])
    \o code_epilogue

hashwx_compile_a64(programs, n) ==
    code_prologue
    \o FlattenSeq([k \in 1 .. n |-> compile_program_reg(programs[k - 1])])
    \o code_clear_bc
    \o FlattenSeq([k \in 1 .. n |-> compile_program_mem(programs[k - 1])])
    \o code_epilogue
=============================================================================
