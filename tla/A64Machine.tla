------------------------------ MODULE A64Machine ------------------------------
(***************************************************************************)
(* The processor running one call of the function hashwx_compile_a64       *)
(* wrote, one instruction a step, and the mapping that shows it implements *)
(* HashwxVM.  The loop counter has counted a taken branch before it is     *)
(* taken, so that it is the budget whenever a pass begins.                 *)
(***************************************************************************)
EXTENDS A64Code

CONSTANTS
    Uninit,      \* a stack cell or a register nobody wrote
    Ptr          \* the argument r[]

HASHWX_CODE_SIZE == 8192

ASSUME MachineAssumption == Uninit \notin Word

(* The counter shares a word with the flag: it counts to the limit, and    *)
(* the limit is the bit the branch tests.                                  *)
ASSUME CounterAssumption ==
    \A c \in 0 .. BranchLimit :
        /\ c \in Word
        /\ c # BranchLimit => Add(c, 1) = c + 1
        /\ \A w \in Word : Looping(Or(w, c)) = (c # BranchLimit /\ Looping(w))

VARIABLES
    program_list, code,
    pc,
    x, sp,
    z,           \* the zero flag
    stack,       \* the MemSize cells below the caller's
    io,          \* r[]
    start, budget, entered   \* history: registers, loops left, pieces of code entered

input == <<program_list, code>>
machine == <<x, sp, z, stack, io>>
vars == <<input, pc, machine, start, budget, entered>>

Init ==
    /\ program_list \in ProgramLists
    /\ code = hashwx_compile_a64(program_list, NumPrograms)
    /\ pc = 1
    /\ x = [n \in 0 .. 17 |-> IF n = 0 THEN Ptr ELSE Uninit]
    /\ sp = 8 * MemSize
    /\ z = FALSE
    /\ stack = [a \in 0 .. MemSize - 1 |-> Uninit]
    /\ \E draw \in Draws : io = FirstRegisters(draw)
    /\ start = io
    /\ budget = BranchLimit
    /\ entered = 0

isn == code[pc]
Running == pc <= Len(code)
Op(name) == Running /\ isn.op = name
Value(operand) == IF operand[1] = "reg" THEN x[operand[2]] ELSE operand[2]
A == Value(isn.a)
B == Value(isn.b)
Write(value) == x' = [x EXCEPT ![isn.to] = value]

-----------------------------------------------------------------------------
Arithmetic ==
    /\ \/ Op("mov") /\ Write(B)
       \/ Op("mul") /\ Write(Mul(A, B))
       \/ Op("ror") /\ Write(Ror(A, B))
       \/ Op("asr") /\ Write(Asr(A, B))
       \/ Op("lsr") /\ Write(Lsr(A, B))
       \/ Op("orr") /\ Write(Or(A, B))
       \/ Op("eor") /\ Write(Xor(A, B))
       \/ Op("add") /\ Write(Add(A, B))
       \/ Op("sub") /\ Write(Sub(A, B))
       \/ Op("and") /\ Write(8 * Slot(A))
       \/ Op("cinc") /\ Write(IF z THEN Add(x[isn.to], 1) ELSE x[isn.to])
       \/ Op("ldr") /\ Write(stack[(sp + x[isn.to]) \div 8])
       \/ /\ Op("ldp") /\ x[isn.base] = Ptr
          /\ x' = [x EXCEPT ![isn.to[1]] = io[isn.cell], ![isn.to[2]] = io[isn.cell + 1]]
    /\ pc' = pc + 1
    /\ UNCHANGED <<sp, z, stack, io>>

StorePair ==
    /\ \/ /\ Op("push")
          /\ stack' = [stack EXCEPT ![(sp \div 8) + isn.cell] = x[isn.from[1]],
                                    ![(sp \div 8) + isn.cell + 1] = x[isn.from[2]]]
          /\ UNCHANGED io
       \/ /\ Op("stp") /\ x[8] = Ptr
          /\ io' = [io EXCEPT ![isn.cell] = x[isn.from[1]], ![isn.cell + 1] = x[isn.from[2]]]
          /\ UNCHANGED stack
    /\ pc' = pc + 1
    /\ UNCHANGED <<x, sp, z>>

MoveSp == Op("sp") /\ sp' = sp + isn.bytes /\ pc' = pc + 1 /\ UNCHANGED <<x, z, stack, io>>
Test == Op("tst") /\ z' = Looping(x[14]) /\ pc' = pc + 1 /\ UNCHANGED <<x, sp, stack, io>>
Branch ==
    /\ Op("beq")
    /\ pc' = IF z THEN pc - isn.back ELSE pc + 1
    /\ UNCHANGED machine
Return == Op("ret") /\ pc' = pc + 1 /\ UNCHANGED machine
Returned == ~Running /\ UNCHANGED <<pc, machine>>

-----------------------------------------------------------------------------
(* Two passes meet at the target of a branch, come to for the first time   *)
(* or again, and at the epilogue.                                          *)
Epilogue == Len(code) - Len(code_epilogue) + 1
Targets == {p - code[p].back : p \in {q \in DOMAIN code : code[q].op = "beq"}}
Meets(p) == p = Epilogue \/ p \in Targets

NewPass ==
    \/ /\ pc' # pc /\ Meets(pc')
       /\ start' = [k \in Reg |-> x'[HomeOf(k)]]
       /\ budget' = BranchLimit - x'[9]
       /\ entered' = IF Op("beq") THEN entered ELSE entered + 1
    \/ /\ pc' = pc \/ ~Meets(pc')
       /\ UNCHANGED <<start, budget, entered>>

Next ==
    /\ Arithmetic \/ StorePair \/ MoveSp \/ Test \/ Branch \/ Return \/ Returned
    /\ NewPass
    /\ UNCHANGED input

Spec == Init /\ [][Next]_vars /\ WF_vars(Next)

-----------------------------------------------------------------------------
(* The 32 programs of a list and what surrounds them fit the code buffer,  *)
(* which hashwx_compile_a64 fills without looking at its size.             *)
FullList == [k \in 0 .. 31 |-> program_list[k % NumPrograms]]
CodeFits == pc = 1 => 4 * Len(hashwx_compile_a64(FullList, 32)) <= HASHWX_CODE_SIZE

(* The function gives the stack back and returns in r[] the registers the  *)
(* last pass left, with R8 and R9 as hashwx_exec made them.                *)
ResultReturned ==
    ~Running => sp = 8 * MemSize /\ \A k \in Reg : io[k] = start[k]

Reached == IF entered = 0 THEN 0 ELSE entered - 1
Phase ==
    IF Reached = 2 * NumPrograms THEN "done"
    ELSE IF Reached < NumPrograms THEN "reg" ELSE "mem"
Prog == IF Phase = "reg" THEN Reached ELSE Reached - NumPrograms

(* What the finished programs of the first phase have stored.              *)
Filled ==
    [a \in 0 .. MemSize - 1 |->
        IF Phase = "reg" /\ a < MemSize - 8 * Prog THEN Uninit ELSE stack[a]]

VM == INSTANCE HashwxVM
    WITH phase <- Phase, prog <- Prog, bc <- budget, regs <- start, mem <- Filled

(* However the compiler interleaves the instructions of a program, the     *)
(* function runs the passes HashwxVM runs: that no instruction reads what  *)
(* another one, moved ahead of it or behind it, writes rests on the rows   *)
(* of src_lookup.                                                          *)
Implements == VM!Spec
=============================================================================
