--------------------------- MODULE GeneratorProofs ---------------------------
(***************************************************************************)
(* What the generator makes of any stream of words: theorems about module  *)
(* Generator for every word size, number of programs and table of          *)
(* permutations that meets SrcAssumption.                                  *)
(***************************************************************************)
EXTENDS Generator, TLAPS

(* The opcodes drawn so far are of the class their position asks for, and  *)
(* each came with the word for one swap.                                   *)
OpcodesAt(k) == IF k % 2 = 1 THEN XasOps ELSE MulOps
OpcodesUpTo == IF stage = "opcodes" THEN i - 1 ELSE 7
OpcodesDrawn ==
    stage # "done" =>
        /\ OpcodesUpTo > 0 => program_list[prog][0].opcode = RMCG
        /\ \A k \in 1 .. OpcodesUpTo :
              /\ program_list[prog][k].opcode \in OpcodesAt(k)
              /\ dst_select[k - 1] \in OpcodeWords

(* The sources are the destinations in the order of one row.               *)
SourcesChosen ==
    stage = "imms" =>
        /\ src[0] \in {8, 9}
        /\ \E row \in 0 .. NUM_SRC_PERM - 1 :
              \A k \in 1 .. 7 : src[k] = dst[SrcPerms[row][k]]

(* The instructions before i have their operands.                          *)
OperandsWritten ==
    stage = "imms" =>
        \A k \in 0 .. i - 1 :
            /\ program_list[prog][k].dst = dst[k]
            /\ program_list[prog][k].src = src[k]
            /\ program_list[prog][k].imm \in ImmsOf(program_list[prog][k].opcode)

Good(code) == code \in Program /\ ImmsFit(code) /\ OneReader(code) /\ Settled(code)

IInv ==
    /\ TypeOK
    /\ OpcodesDrawn
    /\ PartlyShuffled
    /\ SourcesChosen
    /\ OperandsWritten
    /\ \A p \in 0 .. prog - 1 : Good(program_list[p])

-----------------------------------------------------------------------------
(* The opcode generators stay in their class.                              *)
LEMMA OpcodeInClass ==
    ASSUME NEW w \in OpcodeWords
    PROVE  gen_mul_opcode(w) \in MulOps /\ gen_xas_opcode(w) \in XasOps
<1>1. LowMod(w, 3) \in 0 .. 2 /\ LowMod(w, 9) \in 0 .. 8
    BY DrawAssumption
<1>2. gen_mul_opcode(w) \in MulOps
    BY <1>1 DEF gen_mul_opcode, MulOps, MULOR, MULADD
<1>3. \A n \in 0 .. 8 : xas_lookup[n + 1] \in XasOps
    BY DEF xas_lookup, XasOps, XORROR, ADDROR, SUBROR, XORASR, ADDASR, SUBASR,
           XORLSR, ADDLSR, SUBLSR
<1>4. QED
    BY <1>1, <1>2, <1>3 DEF gen_xas_opcode

(* Writing opcode i (and RMCG's) touches no other opcode.                  *)
LEMMA OpcodeWritten ==
    ASSUME NEW code \in [Line -> Instr], NEW w \in OpcodeWords, i \in 1 .. 7
    PROVE  /\ WithOpcode(code, w) \in [Line -> Instr]
           /\ WithOpcode(code, w)[0].opcode = RMCG
           /\ WithOpcode(code, w)[i].opcode \in OpcodesAt(i)
           /\ \A k \in 1 .. 7 : k # i => WithOpcode(code, w)[k] = code[k]
<1> DEFINE op == IF i % 2 = 1 THEN gen_xas_opcode(w) ELSE gen_mul_opcode(w)
<1> DEFINE zero == [code EXCEPT ![0].opcode = RMCG]
<1>1. op \in OpcodesAt(i) /\ op \in MULOR .. HALT /\ RMCG \in MULOR .. HALT
    BY OpcodeInClass DEF OpcodesAt, MulOps, XasOps, MULOR, MULADD, RMCG, XORROR, SUBLSR, HALT
<1> HIDE DEF op
<1>2. zero \in [Line -> Instr] /\ zero[0].opcode = RMCG /\ \A k \in 1 .. 7 : zero[k] = code[k]
    BY <1>1 DEF Line, Instr
<1> HIDE DEF zero
<1>3. WithOpcode(code, w) = [zero EXCEPT ![i].opcode = op]
    BY <1>1 DEF WithOpcode, zero, op
<1>4. QED
    BY <1>1, <1>2, <1>3 DEF Line, Instr

(* The immediates gen_imm chooses are those of the opcode.                 *)
LEMMA ImmOfOpcode ==
    ASSUME NEW opcode \in MULOR .. HALT, NEW w \in ImmWords
    PROVE  gen_imm(opcode, w) \in ImmsOf(opcode) /\ gen_imm(opcode, w) \in Imm
<1>1. Mod(w, 3) \in 0 .. 2 /\ Mod(w, 63) \in 0 .. 62
    BY DrawAssumption
<1>2. mul_imms[Mod(w, 3) + 1] \in {1, 9, 33}
    BY <1>1 DEF mul_imms
<1>3. 1 + Mod(w, 63) \in 1 .. 63 /\ 1 + Mod(w, 3) \in 1 .. 3
    BY <1>1
<1>4. CASE opcode <= MULADD
    <2>1. opcode \in MulOps
        BY <1>4 DEF MulOps, MULOR, MULADD
    <2>2. gen_imm(opcode, w) = Num(mul_imms[Mod(w, 3) + 1])
        BY <1>4 DEF gen_imm
    <2>3. QED
        BY <1>2, <2>1, <2>2, ConstantAssumption DEF ImmsOf
<1>5. CASE opcode > MULADD /\ opcode <= SUBROR
    <2>1. opcode \notin MulOps /\ opcode \in RMCG .. SUBROR
        BY <1>5 DEF MulOps, MULOR, MULADD, RMCG, SUBROR
    <2>2. gen_imm(opcode, w) = Num(1 + Mod(w, 63))
        BY <1>5 DEF gen_imm, MULADD, SUBROR, MULOR, HALT
    <2>3. QED
        BY <1>3, <2>1, <2>2, ConstantAssumption DEF ImmsOf
<1>6. CASE opcode > SUBROR
    <2>1. opcode \notin MulOps /\ opcode \notin RMCG .. SUBROR
        BY <1>6 DEF MulOps, MULOR, MULADD, RMCG, SUBROR
    <2>2. gen_imm(opcode, w) = Num(1 + Mod(w, 3))
        BY <1>6 DEF gen_imm, MULADD, SUBROR, MULOR, HALT
    <2>3. QED
        BY <1>3, <2>1, <2>2, ConstantAssumption DEF ImmsOf
<1>7. QED
    BY <1>4, <1>5, <1>6 DEF MULOR, HALT, MULADD, SUBROR

(* One turn of the Fisher-Yates loop extends a permutation of the first n  *)
(* elements to one of the first n + 1, whatever index is drawn.            *)
Swapped(f, n, j) == [f EXCEPT ![n] = IF j = n THEN n ELSE f[j], ![j] = n]

LEMMA SwapPermutes ==
    ASSUME NEW f \in [0 .. 7 -> Dst \cup {Uninit}], NEW n \in 1 .. 7, NEW j \in 0 .. n,
           \A k \in 0 .. n - 1 : f[k] \in 0 .. n - 1,
           \A k, l \in 0 .. n - 1 : f[k] = f[l] => k = l
    PROVE  /\ Swapped(f, n, j) \in [0 .. 7 -> Dst \cup {Uninit}]
           /\ \A k \in 0 .. n : Swapped(f, n, j)[k] \in 0 .. n
           /\ \A k, l \in 0 .. n : Swapped(f, n, j)[k] = Swapped(f, n, j)[l] => k = l
<1> DEFINE g == Swapped(f, n, j)
<1>1. g[j] = n
    BY DEF Swapped
<1>2. j # n => g[n] = f[j] /\ f[j] \in 0 .. n - 1
    BY DEF Swapped
<1>3. \A k \in 0 .. 7 : k # n /\ k # j => g[k] = f[k]
    BY DEF Swapped
<1>4. g \in [0 .. 7 -> Dst \cup {Uninit}]
    BY DEF Swapped, Dst
<1> HIDE DEF g
<1>5. \A k \in 0 .. n : g[k] \in 0 .. n
    BY <1>1, <1>2, <1>3
<1>6. \A k, l \in 0 .. n : g[k] = g[l] => k = l
    BY <1>1, <1>2, <1>3
<1>7. QED
    BY <1>4, <1>5, <1>6 DEF g

(* A row of the table deals the registers out without handing one back.     *)
LEMMA Deal ==
    ASSUME NEW row \in 0 .. NUM_SRC_PERM - 1
    PROVE  /\ \A k \in 1 .. 7 : SrcPerms[row][k] \in 0 .. 7 /\ SrcPerms[row][k] # k
           /\ \A j, k \in 1 .. 7 : SrcPerms[row][j] = SrcPerms[row][k] => j = k
           /\ \A j \in Products : \A k \in j + 1 .. j + 4 : k <= 7 => SrcPerms[row][k] # j
<1>1. SrcPerms[row] \in [0 .. 7 -> 0 .. 7]
    BY SrcAssumption
<1>2. \A j, k \in 0 .. 7 : SrcPerms[row][j] = SrcPerms[row][k] => j = k
    BY SrcAssumption
<1>3. \A k \in 1 .. 7 : SrcPerms[row][k] # k
    BY SrcAssumption
<1>4. \A j \in Products : \A k \in j + 1 .. j + 4 : k <= 7 => SrcPerms[row][k] # j
    BY SrcAssumption DEF Products
<1> QED
    BY <1>1, <1>2, <1>3, <1>4

(* Destinations that are all different, read in the order of a permitted   *)
(* row, give every finished program its layout and its distances.          *)
LEMMA FinishedIsGood ==
    ASSUME NEW code \in [Line -> Instr], NEW d \in [0 .. 7 -> Dst], NEW s,
           NEW row \in 0 .. NUM_SRC_PERM - 1,
           \A k, l \in 0 .. 7 : d[k] = d[l] => k = l,
           s[0] \in {8, 9},
           \A k \in 1 .. 7 : s[k] = d[SrcPerms[row][k]],
           code[0].opcode = RMCG,
           \A k \in 1 .. 7 : code[k].opcode \in OpcodesAt(k),
           \A k \in 0 .. 7 : /\ code[k].dst = d[k]
                             /\ code[k].src = s[k]
                             /\ code[k].imm \in ImmsOf(code[k].opcode)
    PROVE  Good(Finished(code))
<1> DEFINE c == Finished(code)
<1>1. /\ c \in [Line -> Instr]
      /\ c[7].opcode = BRANCH
      /\ c[8] = code[7]
      /\ c[9].opcode = HALT
      /\ \A k \in 0 .. 6 : c[k] = code[k]
    <2> DEFINE seven == [code EXCEPT ![7].opcode = BRANCH]
    <2> DEFINE eight == [seven EXCEPT ![8] = code[7]]
    <2>1. seven \in [Line -> Instr] /\ seven[7].opcode = BRANCH
          /\ \A k \in Line : k # 7 => seven[k] = code[k]
        BY DEF Line, Instr, BRANCH, MULOR, HALT
    <2> HIDE DEF seven
    <2>2. /\ eight \in [Line -> Instr]
          /\ eight[8] = code[7]
          /\ \A k \in Line : k # 8 => eight[k] = seven[k]
        BY <2>1 DEF Line
    <2> HIDE DEF eight
    <2>3. c = [eight EXCEPT ![9].opcode = HALT]
        BY DEF Finished, eight, seven
    <2>4. /\ c \in [Line -> Instr]
          /\ c[9].opcode = HALT
          /\ \A k \in Line : k # 9 => c[k] = eight[k]
        BY <2>2, <2>3 DEF Line, Instr, MULOR, HALT
    <2>5. QED
        BY <2>1, <2>2, <2>4 DEF Line
<1> HIDE DEF c
<1>2. \A k \in 0 .. 7 : c[Slots[k]] = code[k] /\ Slots[k] \in Operands
    BY <1>1 DEF Slots, Operands
<1>3. \A k \in Operands : \E l \in 0 .. 7 : k = Slots[l]
    <2> SUFFICES ASSUME NEW k \in Operands PROVE \E l \in 0 .. 7 : k = Slots[l]
        OBVIOUS
    <2>1. CASE k = 8
        <3>1. Slots[7] = 8
            BY DEF Slots
        <3>2. QED
            BY <2>1, <3>1
    <2>2. CASE k # 8
        <3>1. k \in 0 .. 6 /\ Slots[k] = k
            BY <2>2 DEF Slots, Operands
        <3>2. QED
            BY <3>1
    <2>3. QED
        BY <2>1, <2>2
<1>4. \A k \in 1 .. 7 : SrcPerms[row][k] \in 0 .. 7 /\ SrcPerms[row][k] # k
    BY Deal
<1>5. Layout(c)
    <2>1. c[0].opcode = RMCG /\ c[0].src \in {8, 9}
        BY <1>1
    <2>2. \A k \in {1, 3, 5, 8} : c[k].opcode \in XasOps
        BY <1>1 DEF OpcodesAt
    <2>3. \A k \in {2, 4, 6} : c[k].opcode \in MulOps
        BY <1>1 DEF OpcodesAt
    <2>4. \A k \in Operands \ {0} : c[k].src \in Dst \ {c[k].dst}
        <3> SUFFICES ASSUME NEW k \in 1 .. 7
                     PROVE  code[k].src \in Dst \ {code[k].dst}
            BY <1>2, <1>3 DEF Slots
        <3>1. code[k].src = d[SrcPerms[row][k]] /\ code[k].dst = d[k]
            OBVIOUS
        <3>2. d[SrcPerms[row][k]] \in Dst /\ d[SrcPerms[row][k]] # d[k]
            BY <1>4
        <3>3. QED
            BY <3>1, <3>2
    <2>5. \A j, k \in Operands : j # k => c[j].dst # c[k].dst
        <3> SUFFICES ASSUME NEW j \in Operands, NEW k \in Operands, j # k
                     PROVE  c[j].dst # c[k].dst
            OBVIOUS
        <3>1. PICK l \in 0 .. 7, m \in 0 .. 7 : j = Slots[l] /\ k = Slots[m]
            BY <1>3
        <3>2. c[j].dst = d[l] /\ c[k].dst = d[m] /\ l # m
            BY <1>2, <3>1
        <3>3. QED
            BY <3>2
    <2>6. QED
        BY <1>1, <2>1, <2>2, <2>3, <2>4, <2>5 DEF Layout
<1>6. ImmsFit(c)
    BY <1>2, <1>3 DEF ImmsFit
<1>7. OneReader(c)
    <2> SUFFICES ASSUME NEW j \in 1 .. 7, NEW k \in 1 .. 7, code[j].src = code[k].src
                 PROVE  j = k
        BY <1>2, <1>3 DEF OneReader, Slots
    <2>1. d[SrcPerms[row][j]] = d[SrcPerms[row][k]]
        <3>1. code[j].src = s[j] /\ code[k].src = s[k]
            OBVIOUS
        <3>2. s[j] = d[SrcPerms[row][j]] /\ s[k] = d[SrcPerms[row][k]]
            OBVIOUS
        <3>3. QED
            BY <3>1, <3>2
    <2>2. SrcPerms[row][j] = SrcPerms[row][k]
        BY <1>4, <2>1
    <2>3. QED
        BY <2>2, Deal
<1>8. Settled(c)
    <2> SUFFICES ASSUME NEW j \in Products, NEW k \in j + 1 .. j + 4, k <= 7
                 PROVE  c[Slots[k]].src # c[j].dst
        BY DEF Settled
    <2>1. j \in 0 .. 6 /\ k \in 1 .. 7 /\ c[j] = code[j] /\ c[Slots[k]] = code[k]
        BY <1>1, <1>2 DEF Products
    <2>2. SrcPerms[row][k] # j
        BY <2>1, Deal
    <2>3. code[k].src = d[SrcPerms[row][k]] /\ code[j].dst = d[j]
        BY <2>1
    <2>4. QED
        BY <1>4, <2>1, <2>2, <2>3
<1>9. QED
    BY <1>1, <1>5, <1>6, <1>7, <1>8 DEF Good, Program, c

-----------------------------------------------------------------------------
LEMMA InitIInv == Init => IInv
<1> SUFFICES ASSUME Init PROVE IInv
    OBVIOUS
<1>1. TypeOK
    BY SizesAssumption, ConstantAssumption DEF Init, TypeOK, NewFrame
<1>2. OpcodesDrawn /\ PartlyShuffled /\ SourcesChosen /\ OperandsWritten
    BY DEF Init, OpcodesDrawn, OpcodesUpTo, PartlyShuffled, SourcesChosen, OperandsWritten
<1>3. 0 .. prog - 1 = {}
    BY DEF Init
<1>4. QED
    BY <1>1, <1>2, <1>3 DEF IInv

(* The finished programs stay as they are while another one is written.    *)
LEMMA KeepsGood ==
    ASSUME IInv, stage # "done", NEW code, prog' = prog,
           program_list' = [program_list EXCEPT ![prog] = code]
    PROVE  \A p \in 0 .. prog' - 1 : Good(program_list'[p])
<1>1. \A p \in 0 .. prog - 1 : program_list'[p] = program_list[p]
    BY DEF IInv, TypeOK
<1>2. QED
    BY <1>1 DEF IInv

(* The program being written is one of the list.                           *)
LEMMA CurrentCode ==
    ASSUME TypeOK, stage # "done"
    PROVE  prog \in 0 .. NumPrograms - 1 /\ program_list[prog] \in [Line -> Instr]
BY SizesAssumption DEF TypeOK

LEMMA DrawOpcodeIInv ==
    ASSUME IInv, NEW w \in OpcodeWords, DrawOpcode(w)
    PROVE  IInv'
<1> DEFINE code == WithOpcode(program_list[prog], w)
<1>1. prog \in 0 .. NumPrograms - 1 /\ program_list[prog] \in [Line -> Instr] /\ i \in 1 .. 7
    BY CurrentCode DEF IInv, TypeOK, DrawOpcode
<1>2. /\ code \in [Line -> Instr]
      /\ code[0].opcode = RMCG
      /\ code[i].opcode \in OpcodesAt(i)
      /\ \A k \in 1 .. 7 : k # i => code[k] = program_list[prog][k]
    BY <1>1, OpcodeWritten
<1> HIDE DEF code
<1>3. program_list' = [program_list EXCEPT ![prog] = code]
    BY DEF DrawOpcode, code
<1>4. program_list'[prog'] = code /\ prog' = prog
    BY <1>1, <1>3 DEF IInv, TypeOK, DrawOpcode
<1>5. TypeOK'
    <2>1. program_list' \in [0 .. NumPrograms - 1 -> [Line -> Instr]]
        BY <1>1, <1>2, <1>3 DEF IInv, TypeOK
    <2>2. dst_select' \in [0 .. 6 -> OpcodeWords \cup {Uninit}]
        BY <1>1 DEF IInv, TypeOK, DrawOpcode
    <2>3. dst' \in [0 .. 7 -> Dst \cup {Uninit}]
        BY DEF IInv, TypeOK, DrawOpcode, Dst
    <2>4. QED
        BY <1>1, <2>1, <2>2, <2>3 DEF IInv, TypeOK, DrawOpcode
<1>6. OpcodesDrawn'
    <2>1. OpcodesUpTo' = i /\ OpcodesUpTo = i - 1
        BY <1>1 DEF OpcodesUpTo, DrawOpcode
    <2>2. \A k \in 1 .. i : code[k].opcode \in OpcodesAt(k)
        BY <1>1, <1>2, <2>1 DEF IInv, OpcodesDrawn, DrawOpcode
    <2>3. \A k \in 1 .. i : dst_select'[k - 1] \in OpcodeWords
        BY <1>1, <2>1 DEF IInv, TypeOK, OpcodesDrawn, DrawOpcode
    <2>4. QED
        BY <1>2, <1>4, <2>1, <2>2, <2>3 DEF OpcodesDrawn, OpcodesAt
<1>7. PartlyShuffled'
    BY <1>1 DEF IInv, TypeOK, PartlyShuffled, ShuffleUpTo, DrawOpcode
<1>8. SourcesChosen' /\ OperandsWritten'
    BY DEF SourcesChosen, OperandsWritten, DrawOpcode
<1>9. \A p \in 0 .. prog' - 1 : Good(program_list'[p])
    BY <1>3, <1>4, KeepsGood DEF DrawOpcode
<1>10. QED
    BY <1>5, <1>6, <1>7, <1>8, <1>9 DEF IInv, Good

LEMMA ShuffleIInv == IInv /\ Shuffle => IInv'
<1> SUFFICES ASSUME IInv, Shuffle PROVE IInv'
    OBVIOUS
<1> DEFINE j == HighMod(dst_select[i - 1], i + 1)
<1>1. i \in 1 .. 7 /\ stage = "shuffle"
    BY DEF IInv, TypeOK, Shuffle
<1>2. j \in 0 .. i
    <2>1. dst_select[i - 1] \in OpcodeWords
        BY <1>1 DEF IInv, OpcodesDrawn, OpcodesUpTo
    <2>2. i + 1 \in 2 .. 8
        BY <1>1
    <2>3. HighMod(dst_select[i - 1], i + 1) \in 0 .. (i + 1) - 1
        BY <2>1, <2>2, DrawAssumption
    <2>4. QED
        BY <1>1, <2>3
<1> HIDE DEF j
<1>3. dst' = Swapped(dst, i, j)
    BY DEF Shuffle, Swapped, j
<1>4. /\ \A k \in 0 .. i - 1 : dst[k] \in 0 .. i - 1
      /\ \A k, l \in 0 .. i - 1 : dst[k] = dst[l] => k = l
    BY <1>1 DEF IInv, PartlyShuffled, ShuffleUpTo
<1>5. dst \in [0 .. 7 -> Dst \cup {Uninit}]
    BY DEF IInv, TypeOK
<1>6. /\ dst' \in [0 .. 7 -> Dst \cup {Uninit}]
      /\ \A k \in 0 .. i : dst'[k] \in 0 .. i
      /\ \A k, l \in 0 .. i : dst'[k] = dst'[l] => k = l
    <2>1. i \in 1 .. 7
        BY <1>1
    <2>2. /\ Swapped(dst, i, j) \in [0 .. 7 -> Dst \cup {Uninit}]
          /\ \A k \in 0 .. i : Swapped(dst, i, j)[k] \in 0 .. i
          /\ \A k, l \in 0 .. i : Swapped(dst, i, j)[k] = Swapped(dst, i, j)[l] => k = l
        BY <1>2, <1>4, <1>5, <2>1, SwapPermutes, Zenon
    <2>3. QED
        BY <1>3, <2>2, Zenon
<1>7. TypeOK'
    <2>1. i' \in 0 .. 7 /\ stage' \in {"shuffle", "sources"}
          /\ (stage' = "shuffle" => i' # 0) /\ (stage' = "sources" => i' = 0)
        BY <1>1 DEF Shuffle
    <2>2. QED
        BY <1>1, <1>6, <2>1 DEF IInv, TypeOK, Shuffle
<1>8. OpcodesDrawn'
    BY <1>1 DEF IInv, OpcodesDrawn, OpcodesUpTo, Shuffle
<1>9. PartlyShuffled'
    <2>1. ShuffleUpTo' = i
        BY <1>1 DEF Shuffle, ShuffleUpTo
    <2>2. QED
        BY <1>6, <2>1 DEF PartlyShuffled
<1>10. SourcesChosen' /\ OperandsWritten'
    BY <1>1 DEF SourcesChosen, OperandsWritten, Shuffle
<1>11. QED
    BY <1>7, <1>8, <1>9, <1>10 DEF IInv, Good, Shuffle

LEMMA DrawSourcesIInv ==
    ASSUME IInv, NEW w \in SourceWords, DrawSources(w)
    PROVE  IInv'
<1> DEFINE row == Mod(w, NUM_SRC_PERM)
<1>1. row \in 0 .. NUM_SRC_PERM - 1 /\ Mod(w, 2) \in 0 .. 1
    BY DrawAssumption
<1>2. \A k \in 0 .. 7 : dst[k] \in Dst
    BY DEF IInv, PartlyShuffled, ShuffleUpTo, DrawSources, Dst
<1>3. SrcPerms[row] \in [0 .. 7 -> 0 .. 7]
    BY <1>1, SrcAssumption
<1> HIDE DEF row
<1>4. src' = [k \in 0 .. 7 |-> IF k = 0 THEN 8 + Mod(w, 2) ELSE dst[SrcPerms[row][k]]]
    BY DEF DrawSources, row
<1>5. src'[0] \in {8, 9}
    BY <1>1, <1>4
<1>6. \A k \in 1 .. 7 : src'[k] = dst[SrcPerms[row][k]] /\ src'[k] \in Dst
    BY <1>2, <1>3, <1>4
<1>7. src' \in [0 .. 7 -> Reg \cup {Uninit}]
    <2>1. \A k \in 0 .. 7 : src'[k] \in Reg
        BY <1>5, <1>6 DEF Reg, Dst
    <2>2. QED
        BY <1>4, <2>1
<1>8. TypeOK'
    BY <1>7 DEF IInv, TypeOK, DrawSources
<1>9. OpcodesDrawn' /\ PartlyShuffled'
    BY DEF IInv, OpcodesDrawn, OpcodesUpTo, PartlyShuffled, ShuffleUpTo, DrawSources
<1>10. SourcesChosen'
    BY <1>1, <1>5, <1>6 DEF SourcesChosen, DrawSources
<1>11. i = 0
    BY DEF IInv, TypeOK, DrawSources
<1>12. QED
    BY <1>8, <1>9, <1>10, <1>11 DEF IInv, Good, OperandsWritten, DrawSources

LEMMA DrawImmIInv ==
    ASSUME IInv, NEW w \in ImmWords, DrawImm(w)
    PROVE  IInv'
<1> DEFINE instr == program_list[prog][i]
<1> DEFINE filled == WithOperands(instr, w)
<1> DEFINE code == [program_list[prog] EXCEPT ![i] = WithOperands(@, w)]
<1>1. /\ prog \in 0 .. NumPrograms - 1
      /\ program_list[prog] \in [Line -> Instr]
      /\ i \in 0 .. 7
      /\ stage = "imms"
    BY CurrentCode DEF IInv, TypeOK, DrawImm
<1>2. /\ dst \in [0 .. 7 -> Dst]
      /\ \A k, l \in 0 .. 7 : dst[k] = dst[l] => k = l
    BY <1>1 DEF IInv, TypeOK, PartlyShuffled, ShuffleUpTo, Dst
<1>3. PICK row \in 0 .. NUM_SRC_PERM - 1 : \A k \in 1 .. 7 : src[k] = dst[SrcPerms[row][k]]
    BY <1>1 DEF IInv, SourcesChosen
<1>4. src[0] \in {8, 9} /\ \A k \in 0 .. 7 : src[k] \in Reg
    <2>1. src[0] \in {8, 9}
        BY <1>1 DEF IInv, SourcesChosen
    <2>2. \A k \in 1 .. 7 : SrcPerms[row][k] \in 0 .. 7
        BY SrcAssumption
    <2>3. \A k \in 1 .. 7 : src[k] \in Dst
        BY <1>2, <1>3, <2>2
    <2>4. \A k \in 0 .. 7 : k = 0 \/ k \in 1 .. 7
        OBVIOUS
    <2>5. QED
        BY <2>1, <2>3, <2>4 DEF Reg, Dst
<1>5. instr \in Instr /\ instr.opcode \in MULOR .. HALT
    BY <1>1 DEF Line, Instr
<1>6. /\ filled \in Instr
      /\ filled.opcode = instr.opcode
      /\ filled.dst = dst[i]
      /\ filled.src = src[i]
      /\ filled.imm \in ImmsOf(instr.opcode)
    <2> DEFINE imm == gen_imm(instr.opcode, w)
    <2>1. imm \in Imm /\ imm \in ImmsOf(instr.opcode)
        BY <1>5, ImmOfOpcode
    <2>2. dst[i] \in Dst /\ src[i] \in Reg
        BY <1>1, <1>2, <1>4
    <2>3. filled = [instr EXCEPT !.dst = dst[i], !.src = src[i], !.imm = imm]
        BY DEF WithOperands
    <2> HIDE DEF instr, filled, imm
    <2>4. QED
        BY <1>5, <2>1, <2>2, <2>3 DEF Instr
<1> HIDE DEF filled
<1>7. /\ code \in [Line -> Instr]
      /\ code[i] = filled
      /\ \A k \in Line : k # i => code[k] = program_list[prog][k]
    BY <1>1, <1>6 DEF Line, filled
<1>8. /\ code[0].opcode = RMCG
      /\ \A k \in 1 .. 7 : code[k].opcode \in OpcodesAt(k)
    <2>1. /\ program_list[prog][0].opcode = RMCG
          /\ \A k \in 1 .. 7 : program_list[prog][k].opcode \in OpcodesAt(k)
        BY <1>1 DEF IInv, OpcodesDrawn, OpcodesUpTo
    <2>2. \A k \in 0 .. 7 : code[k].opcode = program_list[prog][k].opcode
        BY <1>6, <1>7 DEF Line
    <2>3. QED
        BY <2>1, <2>2
<1>9. \A k \in 0 .. i : /\ code[k].dst = dst[k]
                        /\ code[k].src = src[k]
                        /\ code[k].imm \in ImmsOf(code[k].opcode)
    <2>1. \A k \in 0 .. i - 1 : /\ program_list[prog][k].dst = dst[k]
                                /\ program_list[prog][k].src = src[k]
                                /\ program_list[prog][k].imm
                                       \in ImmsOf(program_list[prog][k].opcode)
        BY <1>1 DEF IInv, OperandsWritten
    <2>2. \A k \in 0 .. i - 1 : code[k] = program_list[prog][k]
        BY <1>1, <1>7 DEF Line
    <2>3. QED
        BY <1>1, <1>6, <1>7, <2>1, <2>2
<1> HIDE DEF code
<1>10. CASE i < 7
    <2>1. /\ program_list' = [program_list EXCEPT ![prog] = code]
          /\ i' = i + 1
          /\ UNCHANGED <<prog, stage, dst_select, dst, src>>
        BY <1>10 DEF DrawImm, code
    <2>2. program_list'[prog'] = code
        BY <1>1, <2>1 DEF IInv, TypeOK
    <2>3. program_list' \in [0 .. NumPrograms - 1 -> [Line -> Instr]]
        BY <1>1, <1>7, <2>1 DEF IInv, TypeOK
    <2>4. TypeOK'
        BY <1>1, <1>10, <2>1, <2>3 DEF IInv, TypeOK
    <2>5. OpcodesDrawn'
        <3>1. \A k \in 1 .. 7 : dst_select[k - 1] \in OpcodeWords
            BY <1>1 DEF IInv, OpcodesDrawn, OpcodesUpTo
        <3>2. QED
            BY <1>1, <1>8, <2>1, <2>2, <3>1 DEF OpcodesDrawn, OpcodesUpTo, OpcodesAt
    <2>6. PartlyShuffled' /\ SourcesChosen'
        BY <1>1, <2>1 DEF IInv, PartlyShuffled, ShuffleUpTo, SourcesChosen
    <2>7. OperandsWritten'
        BY <1>1, <1>9, <2>1, <2>2 DEF OperandsWritten, ImmsOf
    <2>8. \A p \in 0 .. prog' - 1 : Good(program_list'[p])
        BY <1>1, <2>1, KeepsGood
    <2>9. QED
        BY <2>4, <2>5, <2>6, <2>7, <2>8 DEF IInv, Good
<1>11. CASE i = 7
    <2>1. /\ program_list' = [program_list EXCEPT ![prog] = Finished(code)]
          /\ prog' = prog + 1
          /\ stage' = IF prog = NumPrograms - 1 THEN "done" ELSE "opcodes"
          /\ i' = 1
          /\ dst_select' = NewFrame.dst_select
          /\ dst' = NewFrame.dst
          /\ src' = NewFrame.src
        BY <1>11 DEF DrawImm, code
    <2>2. Good(Finished(code))
        BY <1>2, <1>3, <1>4, <1>7, <1>8, <1>9, <1>11, FinishedIsGood
    <2>3. /\ program_list' \in [0 .. NumPrograms - 1 -> [Line -> Instr]]
          /\ program_list'[prog] = Finished(code)
          /\ \A p \in 0 .. prog - 1 : program_list'[p] = program_list[p]
        <3>1. Finished(code) \in [Line -> Instr]
            BY <2>2 DEF Good, Program
        <3>2. QED
            BY <1>1, <2>1, <3>1 DEF IInv, TypeOK
    <2>4. TypeOK'
        <3>1. /\ dst_select' = [k \in 0 .. 6 |-> Uninit]
              /\ dst' = [k \in 0 .. 7 |-> Uninit]
              /\ src' = [k \in 0 .. 7 |-> Uninit]
            BY <2>1 DEF NewFrame
        <3>2. /\ prog' \in 0 .. NumPrograms
              /\ prog' = NumPrograms <=> stage' = "done"
            BY <1>1, <2>1, SizesAssumption
        <3>3. QED
            BY <2>1, <2>3, <3>1, <3>2 DEF TypeOK
    <2>5. OpcodesDrawn' /\ PartlyShuffled' /\ SourcesChosen' /\ OperandsWritten'
        BY <2>1 DEF OpcodesDrawn, OpcodesUpTo, PartlyShuffled, SourcesChosen, OperandsWritten
    <2>6. \A p \in 0 .. prog' - 1 : Good(program_list'[p])
        <3>1. \A p \in 0 .. prog' - 1 : p = prog \/ p \in 0 .. prog - 1
            BY <1>1, <2>1
        <3>2. QED
            BY <2>2, <2>3, <3>1 DEF IInv
    <2>7. QED
        BY <2>4, <2>5, <2>6 DEF IInv, Good
<1>12. QED
    BY <1>1, <1>10, <1>11

LEMMA NextIInv == IInv /\ [Next]_vars => IInv'
<1> SUFFICES ASSUME IInv, [Next]_vars PROVE IInv'
    OBVIOUS
<1>1. ASSUME NEW w \in OpcodeWords, DrawOpcode(w) PROVE IInv'
    BY <1>1, DrawOpcodeIInv
<1>2. CASE Shuffle
    BY <1>2, ShuffleIInv
<1>3. ASSUME NEW w \in SourceWords, DrawSources(w) PROVE IInv'
    BY <1>3, DrawSourcesIInv
<1>4. ASSUME NEW w \in ImmWords, DrawImm(w) PROVE IInv'
    BY <1>4, DrawImmIInv
<1>5. CASE UNCHANGED vars
    BY <1>5 DEF IInv, TypeOK, OpcodesDrawn, OpcodesUpTo, PartlyShuffled, ShuffleUpTo,
                SourcesChosen, OperandsWritten, Good, vars
<1>6. QED
    BY <1>1, <1>2, <1>3, <1>4, <1>5 DEF Next, Returned

(* The inductive invariant of the generator: the class of the opcodes, the *)
(* permutation of the destinations and the row of the sources, as far as   *)
(* they have been drawn, and the finished programs.                        *)
THEOREM Invariance == Spec => []IInv
<1>1. QED
    BY InitIInv, NextIInv, PTL DEF Spec

(* Every variable of program_generate keeps its type.                      *)
THEOREM TypeCorrect == Spec => []TypeOK
<1>1. IInv => TypeOK
    BY DEF IInv
<1>2. QED
    BY <1>1, Invariance, PTL

(* program_generate's shuffle has permuted the elements it has visited.    *)
THEOREM ShufflePermutes == Spec => []PartlyShuffled
<1>1. IInv => PartlyShuffled
    BY DEF IInv
<1>2. QED
    BY <1>1, Invariance, PTL

(* hashwx_program_list_generate makes programs of the layout the executors *)
(* assume, whatever the random words are.                                  *)
THEOREM LaidOut == Spec => []ProgramsLaidOut
<1>1. IInv => ProgramsLaidOut
    BY DEF IInv, Good, ProgramsLaidOut
<1>2. QED
    BY <1>1, Invariance, PTL

(* gen_imm's values are in the range of the opcode that uses them.         *)
THEOREM ImmediatesFit == Spec => []ImmsInRange
<1>1. IInv => ImmsInRange
    BY DEF IInv, Good, ImmsInRange
<1>2. QED
    BY <1>1, Invariance, PTL

(* gen_sources gives no register to two readers, also when the last        *)
(* instruction has moved behind the branch.                                *)
THEOREM SourcesFit == Spec => []SourcesDiffer
<1>1. IInv => SourcesDiffer
    BY DEF IInv, Good, SourcesDiffer
<1>2. QED
    BY <1>1, Invariance, PTL

(* gen_sources gives no product to an instruction close behind it, as the  *)
(* schedule of compiler_a64.c requires.                                    *)
THEOREM ProductsFit == Spec => []ProductsSettle
<1>1. IInv => ProductsSettle
    BY DEF IInv, Good, ProductsSettle
<1>2. QED
    BY <1>1, Invariance, PTL
=============================================================================
