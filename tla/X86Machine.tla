------------------------------ MODULE X86Machine -----------------------------
(***************************************************************************)
(* The processor, running one call of the function hashwx_compile_x86      *)
(* compiled: hashwx_exec's ctx->func(r).  One step is one x86 instruction, *)
(* fetched at its byte address.                                            *)
(***************************************************************************)
EXTENDS X86Code

ASSUME MachineAssumption == Uninit \notin Word

(* The loop counter shares a word with the flag: it counts to the limit,   *)
(* and the limit is the bit the branch tests.                              *)
ASSUME CounterAssumption ==
    \A c \in 0 .. BranchLimit : \A w \in Word :
        Looping(Or(Low(w), c)) = (c # BranchLimit /\ Looping(w))

VARIABLES
    program_list,
    abi,         \* which calling convention the library was built for
    buffer,      \* the code buffer
    pc,          \* offset into it
    x,           \* the sixteen registers
    zf,          \* the zero flag; Uninit when its value is not ours to know
    stack,       \* the cells of eight bytes the function uses, deepest first
    io           \* r[], through which the registers come and go

input == <<program_list, abi, buffer>>
vars == <<input, pc, x, zf, stack, io>>

Saved == Len(SavedRegs(abi))
Depth == MemSize + Saved          \* cells of stack the function needs
CalleeSaved == {SavedRegs(abi)[k] : k \in 1 .. Saved}

(* On entry the argument is in rdi, or in rcx on Windows.                  *)
Entry(convention) ==
    LET argument == IF convention = "win" THEN rcx ELSE rdi
        saved == SavedRegs(convention)
    IN  [n \in 0 .. 15 |->
            IF n = argument THEN Ptr
            ELSE IF n = rsp THEN 8 * (MemSize + Len(saved))
            ELSE IF \E k \in 1 .. Len(saved) : saved[k] = n THEN Caller[n]
            ELSE Uninit]

Init ==
    /\ program_list \in ProgramLists
    /\ abi \in Abi
    /\ buffer = hashwx_compile_x86(abi, program_list)
    /\ pc = 0
    /\ x = Entry(abi)
    /\ zf = Uninit
    /\ stack = [a \in 0 .. Depth - 1 |-> Uninit]
    /\ \E draw \in Draws : io = FirstRegisters(draw)

isn == buffer.code[pc]
Running == pc # buffer.pos
Op(names) == Running /\ isn.op \in names
Advance == pc' = pc + isn.len
Write(value) == x' = [x EXCEPT ![isn.to] = value]

-----------------------------------------------------------------------------
PushPop ==
    /\ \/ /\ Op({"push"})
          /\ x' = [x EXCEPT ![rsp] = @ - 8]
          /\ stack' = [stack EXCEPT ![x[rsp] \div 8 - 1] = x[isn.from]]
       \/ /\ Op({"pop"})
          /\ x' = [x EXCEPT ![isn.to] = stack[x[rsp] \div 8], ![rsp] = @ + 8]
          /\ UNCHANGED stack
    /\ Advance
    /\ UNCHANGED <<input, zf, io>>

(* Moves leave the flags alone.                                            *)
Move ==
    /\ \/ Op({"mov"}) /\ Write(x[isn.from])
       \/ Op({"lea"}) /\ Write(x[isn.from] + 1)
       \/ Op({"load"}) /\ x[rcx] = Ptr /\ Write(io[isn.cell])
       \/ Op({"cmovz"}) /\ zf = TRUE /\ Write(x[isn.from])
       \/ Op({"cmovz"}) /\ zf = FALSE /\ UNCHANGED x
    /\ Advance
    /\ UNCHANGED <<input, zf, stack, io>>

StoreBack ==
    /\ Op({"store"})
    /\ x[rcx] = Ptr
    /\ io' = [io EXCEPT ![isn.cell] = x[isn.from]]
    /\ Advance
    /\ UNCHANGED <<input, x, zf, stack>>

(* Arithmetic leaves a zero flag nobody reads.                             *)
Cell == stack[(x[rsp] + x[rax]) \div 8]

Arithmetic ==
    /\ \/ Op({"or_imm"})   /\ Write(Or(x[isn.to], isn.imm))
       \/ Op({"xor_imm"})  /\ Write(Xor(x[isn.to], isn.imm))
       \/ Op({"add_imm"})  /\ Write(Add(x[isn.to], isn.imm))
       \/ Op({"ror_imm"})  /\ Write(Ror(x[isn.to], isn.imm))
       \/ Op({"sar_imm"})  /\ Write(Asr(x[isn.to], isn.imm))
       \/ Op({"shr_imm"})  /\ Write(Lsr(x[isn.to], isn.imm))
       \/ Op({"imul"})     /\ Write(Mul(x[isn.to], x[isn.from]))
       \/ Op({"xor"})      /\ Write(Xor(x[isn.to], x[isn.from]))
       \/ Op({"add"})      /\ Write(Add(x[isn.to], x[isn.from]))
       \/ Op({"sub"})      /\ Write(Sub(x[isn.to], x[isn.from]))
       \/ Op({"imul_mem"}) /\ Write(Mul(x[isn.to], Cell))
       \/ Op({"xor_mem"})  /\ Write(Xor(x[isn.to], Cell))
       \/ Op({"add_mem"})  /\ Write(Add(x[isn.to], Cell))
       \/ Op({"sub_mem"})  /\ Write(Sub(x[isn.to], Cell))
       \/ Op({"clear"})    /\ Write(0)
       \/ Op({"or_bc"})    /\ Write(Or(Low(x[isn.to]), x[isn.from]))
       \/ Op({"address"})  /\ Write(8 * Slot(x[isn.to]))
       \/ Op({"unwind"})   /\ x' = [x EXCEPT ![rsp] = @ + 8 * MemSize]
    /\ zf' = Uninit
    /\ Advance
    /\ UNCHANGED <<input, stack, io>>

Test ==
    /\ \/ Op({"test_bc"}) /\ zf' = (x[isn.from] = 0)
       \/ Op({"test_flag"}) /\ zf' = Looping(x[isn.from])
    /\ Advance
    /\ UNCHANGED <<input, x, stack, io>>

JumpTaken ==
    /\ Op({"jz"})
    /\ zf = TRUE
    /\ pc' = pc + isn.len - isn.back
    /\ UNCHANGED <<input, x, zf, stack, io>>

JumpNotTaken ==
    /\ Op({"jz"})
    /\ zf = FALSE
    /\ Advance
    /\ UNCHANGED <<input, x, zf, stack, io>>

Return ==
    /\ Op({"ret"})
    /\ Advance
    /\ UNCHANGED <<input, x, zf, stack, io>>

Returned == ~Running /\ UNCHANGED vars

Next ==
    \/ PushPop \/ Move \/ StoreBack \/ Arithmetic \/ Test
    \/ JumpTaken \/ JumpNotTaken \/ Return \/ Returned

Spec == Init /\ [][Next]_vars /\ WF_vars(Next)

-----------------------------------------------------------------------------
(* The type invariant: the processor only fetches at the first byte of an  *)
(* instruction, and the stack pointer stays in the cells of this call.     *)
TypeOK ==
    /\ program_list \in ProgramLists
    /\ abi \in Abi
    /\ pc \in DOMAIN buffer.code \cup {buffer.pos}
    /\ DOMAIN x = 0 .. 15
    /\ x[rsp] \in {8 * a : a \in 0 .. Depth}
    /\ zf \in BOOLEAN \cup {Uninit}
    /\ DOMAIN stack = 0 .. Depth - 1
    /\ io \in Registers

(* The 32 programs of a list and what surrounds them fit the code buffer,  *)
(* which hashwx_compile_x86 fills without looking at its size.             *)
FullList == [k \in 0 .. 31 |-> program_list[k % NumPrograms]]
CodeFits == pc = 0 => BytesEmitted(abi, FullList) <= HASHWX_CODE_SIZE

(* When the function returns, it has respected the calling convention: the *)
(* stack pointer and the callee-saved registers are the caller's.          *)
ConventionKept ==
    ~Running =>
        /\ x[rsp] = 8 * Depth
        /\ \A n \in CalleeSaved : x[n] = Caller[n]

(* The compiled function returns.                                          *)
Termination == <>(~Running)
=============================================================================
