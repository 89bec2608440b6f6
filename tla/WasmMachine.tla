------------------------------ MODULE WasmMachine ------------------------------
(***************************************************************************)
(* The WebAssembly engine running the side module's function exec once,    *)
(* between hashwx_exec_begin and hashwx_exec_final of src/hashwx.c.  One   *)
(* step is one instruction.  The linear memory is that of the context: the *)
(* arrays reg and mem, which lie behind one another in hashwx_ctx.         *)
(***************************************************************************)
EXTENDS WasmCode, Integers, FiniteSets

CONSTANT Uninit      \* a cell of ctx->mem this call has not written

ASSUME MachineAssumption == Uninit \notin Word

VARIABLES
    program_list,
    code,            \* the instructions of the function
    pc,
    labels,          \* the enclosing blocks: where each begins
    loc,             \* parameters and locals
    stack,           \* the operand stack: pairs of a type and a value
    heap             \* cells of eight bytes

input == <<program_list, code>>
vars == <<input, pc, labels, loc, stack, heap>>

MemCell == 10        \* mem begins behind the ten words of reg
Cells == 0 .. MemCell + MemSize - 1

(* hashwx_exec_begin has filled ctx->reg.                                  *)
Init ==
    /\ program_list \in ProgramLists
    /\ code = hashwx_compile_wasm(program_list, NumPrograms)
    /\ pc = 1
    /\ labels = <<>>
    /\ loc = [n \in RP .. MM |-> IF n = MP THEN 8 * MemCell ELSE 0]
    /\ stack = <<>>
    /\ \E draw \in Draws :
          heap = [a \in Cells |-> IF a < MemCell THEN FirstRegisters(draw)[a] ELSE Uninit]

isn == code[pc]
Running == pc <= Len(code)
Op(name) == Running /\ isn.op = name
Advance == pc' = pc + 1

TypeOf(n) == IF n \in {RP, MP} THEN "i32" ELSE "i64"
V(k) == stack[Len(stack) + 1 - k][2]        \* the k-th value from the top
Below(k) == SubSeq(stack, 1, Len(stack) - k)
Gives(k, type, value) == stack' = Append(Below(k), <<type, value>>)

-----------------------------------------------------------------------------
Numeric ==
    /\ \/ Op("const32") /\ Gives(0, "i32", isn.arg)
       \/ Op("const64") /\ Gives(0, "i64", isn.arg)
       \/ Op("or")   /\ Gives(2, "i64", Or(V(2), V(1)))
       \/ Op("xor")  /\ Gives(2, "i64", Xor(V(2), V(1)))
       \/ Op("and")  /\ Gives(2, "i64", And(V(2), V(1)))
       \/ Op("add")  /\ Gives(2, "i64", Add(V(2), V(1)))
       \/ Op("sub")  /\ Gives(2, "i64", Sub(V(2), V(1)))
       \/ Op("mul")  /\ Gives(2, "i64", Mul(V(2), V(1)))
       \/ Op("ror")  /\ Gives(2, "i64", Ror(V(2), V(1)))
       \/ Op("shrs") /\ Gives(2, "i64", Asr(V(2), V(1)))
       \/ Op("shru") /\ Gives(2, "i64", Lsr(V(2), V(1)))
       \/ Op("eqz")  /\ Gives(1, "i32", IF V(1) = 0 THEN 1 ELSE 0)
       \/ Op("wrap") /\ Gives(1, "i32", V(1))
       \/ Op("add32") /\ Gives(2, "i32", V(2) + V(1))
       \/ Op("sub32") /\ Gives(2, "i32", V(2) - V(1))
    /\ Advance
    /\ UNCHANGED <<input, labels, loc, heap>>

Local ==
    /\ \/ Op("get") /\ Gives(0, TypeOf(isn.arg), loc[isn.arg]) /\ UNCHANGED loc
       \/ Op("set") /\ loc' = [loc EXCEPT ![isn.arg] = V(1)] /\ stack' = Below(1)
       \/ Op("tee") /\ loc' = [loc EXCEPT ![isn.arg] = V(1)] /\ UNCHANGED stack
    /\ Advance
    /\ UNCHANGED <<input, labels, heap>>

Address(k) == V(k) + isn.arg
Cell(k) == Address(k) \div 8

Memory ==
    /\ \/ Op("load") /\ Gives(1, "i64", heap[Cell(1)]) /\ UNCHANGED heap
       \/ Op("store") /\ heap' = [heap EXCEPT ![Cell(2)] = V(1)] /\ stack' = Below(2)
    /\ Advance
    /\ UNCHANGED <<input, labels, loc>>

(* The end that closes the block that begins at p.                         *)
Depth(p, q) ==
    Cardinality({k \in p .. q : code[k].op \in {"loop", "if"}})
    - Cardinality({k \in p .. q : code[k].op = "end"})
EndOf(p) == CHOOSE q \in p + 1 .. Len(code) : Depth(p, q) = 0 /\ Depth(p, q - 1) = 1

Enter ==
    /\ \/ Op("loop") /\ labels' = Append(labels, pc) /\ Advance /\ UNCHANGED stack
       \/ /\ Op("if")
          /\ stack' = Below(1)
          /\ \/ V(1) # 0 /\ labels' = Append(labels, pc) /\ Advance
             \/ V(1) = 0 /\ pc' = EndOf(pc) + 1 /\ UNCHANGED labels
    /\ UNCHANGED <<input, loc, heap>>

(* A branch to a loop begins it again, one to an if goes behind it.        *)
Branch ==
    LET left == Len(labels) - isn.arg
        target == labels[left]
    IN  /\ Op("br")
        /\ labels' = SubSeq(labels, 1, left - 1)
        /\ pc' = IF code[target].op = "loop" THEN target ELSE EndOf(target) + 1
        /\ UNCHANGED <<input, loc, stack, heap>>

(* The end of a block, or of the function, which returns.                  *)
Leave ==
    /\ Op("end")
    /\ labels' = IF labels = <<>> THEN <<>> ELSE SubSeq(labels, 1, Len(labels) - 1)
    /\ Advance
    /\ UNCHANGED <<input, loc, stack, heap>>

Returned == ~Running /\ UNCHANGED vars

Next == Numeric \/ Local \/ Memory \/ Enter \/ Branch \/ Leave \/ Returned

(* One thread runs the function straight through.                          *)
Spec == Init /\ [][Next]_vars /\ WF_vars(Next)

-----------------------------------------------------------------------------
(* The engine accepts the module the compiler wrote byte by byte: every    *)
(* instruction finds operands of its types, and a block begins and ends    *)
(* with nothing on the stack.                                              *)
Takes ==
    IF isn.op \in {"or", "xor", "and", "add", "sub", "mul", "ror", "shrs", "shru"}
    THEN <<"i64", "i64">>
    ELSE IF isn.op \in {"eqz", "wrap"} THEN <<"i64">>
    ELSE IF isn.op \in {"add32", "sub32"} THEN <<"i32", "i32">>
    ELSE IF isn.op \in {"set", "tee"} THEN <<TypeOf(isn.arg)>>
    ELSE IF isn.op = "store" THEN <<"i32", "i64">>
    ELSE IF isn.op \in {"load", "if"} THEN <<"i32">> ELSE <<>>

ValidModule ==
    Running =>
        /\ Len(stack) >= Len(Takes)
        /\ \A k \in 1 .. Len(Takes) :
              stack[Len(stack) - Len(Takes) + k][1] = Takes[k]
        /\ isn.op \in {"if", "loop", "br", "end"} => Len(stack) = Len(Takes)
        /\ isn.op = "br" => isn.arg < Len(labels)

(* Whatever a program makes of $mp and a masked register, it stays in mem, *)
(* and only prologue and epilogue touch reg.                               *)
InBody == pc > Len(code_prologue) /\ pc <= Len(code) - Len(code_epilogue)
AccessInBounds ==
    \A k \in {1, 2} :
        Op(IF k = 1 THEN "load" ELSE "store") =>
            /\ Address(k) % 8 = 0
            /\ Cell(k) \in IF InBody THEN Cells \ Reg ELSE Reg

(* The lengths in the module header and the size of the buffer are         *)
(* constants; for the 32 programs of a list they are what is emitted.      *)
(* That an immediate is one byte of LEB128 is part of it.                  *)
FullList == [k \in 0 .. 31 |-> program_list[k % NumPrograms]]
SizesAgree ==
    pc = 1 =>
        /\ FunctionBody = LocalDecl + BytesEmitted(FullList, 32)
        /\ CodeSection = FunctionBody + 4
        /\ HASHWX_CODE_SIZE = HeaderBytes + CodeSection
        /\ \A k \in 0 .. NumPrograms - 1 : \A in \in Operands : program_list[k][in].imm < 64

(* The assertions at the ends of compile_program_reg, compile_program_mem. *)
AssertedSizes ==
    pc = 1 =>
        \A k \in 0 .. NumPrograms - 1 :
            /\ Bytes(compile_program_reg(program_list[k])) = WASM_REG_PROGRAM_SIZE
            /\ Bytes(compile_program_mem(program_list[k])) = WASM_MEM_PROGRAM_SIZE
=============================================================================
