------------------------------ MODULE Generator ------------------------------
(***************************************************************************)
(* src/program.c: the generator of program lists.  One action is one call  *)
(* of hashwx_rng_next and what is done with the word it returned, or one   *)
(* turn of the Fisher-Yates loop, which draws nothing.  The words come     *)
(* from the environment: module HashwxVectors feeds them from the Siphash  *)
(* stream, the runs of this module from sets that cover the residues the   *)
(* code looks at.                                                          *)
(***************************************************************************)
EXTENDS HashwxIsa

CONSTANTS
    LowMod(_, _),    \* (uint32_t)select % n
    HighMod(_, _),   \* (uint32_t)(select >> 32) % n
    Mod(_, _),       \* select % n
    Num(_),          \* a small constant as a word
    OpcodeWords,     \* what the generator draws for an opcode and a swap,
    SourceWords,     \* for the sources,
    ImmWords,        \* and for an immediate value
    SrcPerms,        \* src_lookup, a function of the row
    Stale,           \* an instruction as it was before the list was generated
    Uninit           \* an uninitialised element of a local array

NUM_SRC_PERM == 625

mul_imms == <<1, 9, 33>>
xas_lookup == <<XORROR, ADDROR, SUBROR, XORASR, ADDASR, SUBASR, XORLSR, ADDLSR, SUBLSR>>

ASSUME DrawAssumption ==
    /\ \A w \in OpcodeWords :
          /\ \A n \in 2 .. 8 : HighMod(w, n) \in 0 .. n - 1
          /\ \A n \in {3, 9} : LowMod(w, n) \in 0 .. n - 1
    /\ \A w \in SourceWords \cup ImmWords :
          \A n \in {2, 3, 63, NUM_SRC_PERM} : Mod(w, n) \in 0 .. n - 1
ASSUME ConstantAssumption ==
    /\ \A n \in 1 .. 63 : Num(n) \in Imm
    /\ Stale \in Instr

(* A row is a permutation of the slots 0 to 7 of a program that gives no   *)
(* slot but 0 itself, nor the product of one of the four slots before it.  *)
ASSUME SrcAssumption ==
    \A row \in 0 .. NUM_SRC_PERM - 1 :
        /\ SrcPerms[row] \in [0 .. 7 -> 0 .. 7]
        /\ \A j, k \in 0 .. 7 : SrcPerms[row][j] = SrcPerms[row][k] => j = k
        /\ \A k \in 1 .. 7 : SrcPerms[row][k] # k
        /\ \A j \in {0, 2, 4, 6} : \A k \in j + 1 .. j + 4 : k <= 7 => SrcPerms[row][k] # j

VARIABLES
    program_list,
    prog,          \* the program being generated
    stage, i,      \* the place in program_generate, and the loop index there
    dst_select, dst, src     \* its local arrays

vars == <<program_list, prog, stage, i, dst_select, dst, src>>

NewFrame ==
    [dst_select |-> [k \in 0 .. 6 |-> Uninit], dst |-> [k \in 0 .. 7 |-> Uninit],
     src |-> [k \in 0 .. 7 |-> Uninit]]

Init ==
    /\ program_list = [p \in 0 .. NumPrograms - 1 |-> [k \in Line |-> Stale]]
    /\ prog = 0
    /\ stage = "opcodes"
    /\ i = 1
    /\ dst_select = NewFrame.dst_select
    /\ dst = NewFrame.dst
    /\ src = NewFrame.src

gen_mul_opcode(w) == LowMod(w, 3)
gen_xas_opcode(w) == xas_lookup[LowMod(w, 9) + 1]

(* Opcode i and the word for swap i; RMCG needs no choice.                 *)
WithOpcode(code, w) ==
    [code EXCEPT
        ![0].opcode = RMCG,
        ![i].opcode = IF i % 2 = 1 THEN gen_xas_opcode(w) ELSE gen_mul_opcode(w)]

DrawOpcode(w) ==
    /\ stage = "opcodes"
    /\ program_list' = [program_list EXCEPT ![prog] = WithOpcode(@, w)]
    /\ dst_select' = [dst_select EXCEPT ![i - 1] = w]
    /\ \/ i < 7 /\ i' = i + 1 /\ UNCHANGED <<stage, dst>>
       \/ i = 7 /\ i' = 1 /\ stage' = "shuffle" /\ dst' = [dst EXCEPT ![0] = 0]
    /\ UNCHANGED <<prog, src>>

(* Mutant: every swap is drawn from the whole array.                       *)
MutShuffle ==
    LET j == HighMod(dst_select[i - 1], 8)
    IN  /\ stage = "shuffle"
        /\ dst' = [dst EXCEPT ![i] = IF j = i THEN i ELSE dst[j], ![j] = i]
        /\ \/ i < 7 /\ i' = i + 1 /\ UNCHANGED stage
           \/ i = 7 /\ i' = 0 /\ stage' = "sources"
        /\ UNCHANGED <<program_list, prog, dst_select, src>>

(* One turn of gen_destinations.                                           *)
Shuffle ==
    LET j == HighMod(dst_select[i - 1], i + 1)
    IN  /\ stage = "shuffle"
        /\ dst' = [dst EXCEPT ![i] = IF j = i THEN i ELSE dst[j], ![j] = i]
        /\ \/ i < 7 /\ i' = i + 1 /\ UNCHANGED stage
           \/ i = 7 /\ i' = 0 /\ stage' = "sources"
        /\ UNCHANGED <<program_list, prog, dst_select, src>>

(* Mutant: the unused column of the table is counted in.                   *)
MutDrawSources(w) ==
    /\ stage = "sources"
    /\ LET src_perm == SrcPerms[Mod(w, NUM_SRC_PERM)]
       IN  src' = [k \in 0 .. 7 |-> IF k = 0 THEN 8 + Mod(w, 2) ELSE dst[src_perm[k - 1]]]
    /\ stage' = "imms"
    /\ UNCHANGED <<program_list, prog, i, dst_select, dst>>

(* gen_sources: the same word selects the row and RMCG's source.           *)
DrawSources(w) ==
    /\ stage = "sources"
    /\ LET src_perm == SrcPerms[Mod(w, NUM_SRC_PERM)]
       IN  src' = [k \in 0 .. 7 |-> IF k = 0 THEN 8 + Mod(w, 2) ELSE dst[src_perm[k]]]
    /\ stage' = "imms"
    /\ UNCHANGED <<program_list, prog, i, dst_select, dst>>

(* Mutants: a rotation by 64 can be drawn; a rotation by 0.                *)
MutGenImmZero(opcode, w) ==
    IF opcode <= MULADD THEN Num(mul_imms[Mod(w, 3) + 1])
    ELSE IF opcode <= SUBROR THEN Num(Mod(w, 63))
    ELSE Num(1 + Mod(w, 3))
MutGenImm(opcode, w) ==
    IF opcode <= MULADD THEN Num(mul_imms[Mod(w, 3) + 1])
    ELSE IF opcode <= SUBROR THEN Num(1 + Mod(w, 64))
    ELSE Num(1 + Mod(w, 3))

gen_imm(opcode, w) ==
    IF opcode <= MULADD THEN Num(mul_imms[Mod(w, 3) + 1])
    ELSE IF opcode <= SUBROR THEN Num(1 + Mod(w, 63))
    ELSE Num(1 + Mod(w, 3))

WithOperands(instr, w) ==
    [instr EXCEPT !.dst = dst[i], !.src = src[i], !.imm = gen_imm(instr.opcode, w)]

(* Mutants: the branch is written before the instruction has moved; the    *)
(* wrong instruction is copied.                                            *)
MutFinished(code) ==
    [code EXCEPT ![7].opcode = BRANCH, ![8] = [code[7] EXCEPT !.opcode = BRANCH],
                 ![9].opcode = HALT]
MutCopied(code) == [code EXCEPT ![7].opcode = BRANCH, ![8] = code[6], ![9].opcode = HALT]

(* The instruction in front of the branch moves behind it.                 *)
Finished(code) ==
    [code EXCEPT ![7].opcode = BRANCH, ![8] = code[7], ![9].opcode = HALT]

DrawImm(w) ==
    LET code == [program_list[prog] EXCEPT ![i] = WithOperands(@, w)]
    IN  /\ stage = "imms"
        /\ \/ /\ i < 7
              /\ program_list' = [program_list EXCEPT ![prog] = code]
              /\ i' = i + 1
              /\ UNCHANGED <<prog, stage, dst_select, dst, src>>
           \/ /\ i = 7
              /\ program_list' = [program_list EXCEPT ![prog] = Finished(code)]
              /\ prog' = prog + 1
              /\ stage' = IF prog = NumPrograms - 1 THEN "done" ELSE "opcodes"
              /\ i' = 1
              /\ dst_select' = NewFrame.dst_select
              /\ dst' = NewFrame.dst
              /\ src' = NewFrame.src

(* hashwx_program_list_generate has returned.                              *)
Returned == stage = "done" /\ UNCHANGED vars

Next ==
    \/ \E w \in OpcodeWords : DrawOpcode(w)
    \/ Shuffle
    \/ \E w \in SourceWords : DrawSources(w)
    \/ \E w \in ImmWords : DrawImm(w)
    \/ Returned

Spec == Init /\ [][Next]_vars

-----------------------------------------------------------------------------
(* The type invariant.                                                     *)
TypeOK ==
    /\ program_list \in [0 .. NumPrograms - 1 -> [Line -> Instr]]
    /\ prog \in 0 .. NumPrograms
    /\ stage \in {"opcodes", "shuffle", "sources", "imms", "done"}
    /\ prog = NumPrograms <=> stage = "done"
    /\ i \in 0 .. 7
    /\ stage \in {"opcodes", "shuffle"} => i # 0
    /\ stage = "sources" => i = 0
    /\ dst_select \in [0 .. 6 -> OpcodeWords \cup {Uninit}]
    /\ dst \in [0 .. 7 -> Dst \cup {Uninit}]
    /\ src \in [0 .. 7 -> Reg \cup {Uninit}]

(* A generated program has the layout the interpreter and the compilers    *)
(* take for granted: an opcode of its class at every position, so that     *)
(* there is one branch target and one halt, destinations that are a        *)
(* permutation of R0-R7 whatever the shuffle drew, and no instruction but  *)
(* RMCG reading the register it writes.                                    *)
ProgramsLaidOut == \A p \in 0 .. prog - 1 : program_list[p] \in Program

(* The swaps of gen_destinations so far have permuted the first elements.  *)
ShuffleUpTo == IF stage = "shuffle" THEN i - 1 ELSE 7
PartlyShuffled ==
    stage \in {"shuffle", "sources", "imms"} =>
        /\ \A k \in 0 .. ShuffleUpTo : dst[k] \in 0 .. ShuffleUpTo
        /\ \A j, k \in 0 .. ShuffleUpTo : dst[j] = dst[k] => j = k

(* rotr64 shifts by b and by 64 - b, so that only a rotation by 1 to 63 is *)
(* defined, and the shifts keep their word: no immediate of a finished     *)
(* program is out of its instruction's range.                              *)
ImmsOf(opcode) ==
    {Num(n) : n \in IF opcode \in MulOps THEN {1, 9, 33}
                    ELSE IF opcode \in RMCG .. SUBROR THEN 1 .. 63 ELSE 1 .. 3}
ImmsFit(code) == \A k \in Operands : code[k].imm \in ImmsOf(code[k].opcode)
ImmsInRange == \A p \in 0 .. prog - 1 : ImmsFit(program_list[p])

(* What doc/design.md:21-23 says of the products, "`1,5,17,65`" in the     *)
(* column of their immediates, and src/program.c:422, "For INSTR_MUL, the  *)
(* imm value is chosen from the set  { 1, 5, 17, 65 }".  gen_imm chooses   *)
(* from mul_imms, as the table of doc/specification.md:77-79 has it.       *)
DocumentedImms ==
    \A p \in 0 .. prog - 1 : \A k \in Operands :
        program_list[p][k].opcode \in MulOps =>
            program_list[p][k].imm \in {Num(n) : n \in {1, 5, 17, 65}}

(* The seven sources are seven of the eight destinations: no register is   *)
(* read twice in a pass, also after the last instruction moved behind the  *)
(* branch.                                                                 *)
OneReader(code) == \A j, k \in Operands \ {0} : code[j].src = code[k].src => j = k
SourcesDiffer == \A p \in 0 .. prog - 1 : OneReader(program_list[p])

(* What the permitted rows of src_lookup are for: every product settles,   *)
(* and compiler_a64.c may write its schedule.                              *)
ProductsSettle == \A p \in 0 .. prog - 1 : Settled(program_list[p])
=============================================================================
