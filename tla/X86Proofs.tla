------------------------------ MODULE X86Proofs -------------------------------
(***************************************************************************)
(* Proofs about the code of compiler_x86.c and the processor running it,   *)
(* for any word, any primitives, either calling convention and any number  *)
(* of programs: which instructions the function has and where, what each   *)
(* of them does, that a pass of them computes what HashwxVM computes, and  *)
(* so the inductive invariant IInv, which says how far a run of the        *)
(* segment entered last has come.                                          *)
(***************************************************************************)
EXTENDS X86Refinement, LibraryProofs

-----------------------------------------------------------------------------
(* The code of one program.                                                *)

(* The code of one program: what line k of it becomes, how many            *)
(* instructions that is and where they start.                              *)
Phases == {"reg", "mem"}
Back(ph) == IF ph = "reg" THEN 69 ELSE 123
Branching(ph) == code_branch \o <<[op |-> "jz", len |-> 2, back |-> Back(ph)]>>
Piece(ph, p, k) == IF k = 7 THEN Branching(ph) ELSE CompileInstr(ph, <<>>, p[k])
Size(ph, k) ==
    IF k = 0 THEN 5 ELSE IF k = 7 THEN 4 ELSE IF k = 9 THEN 0 ELSE IF ph = "reg" THEN 2 ELSE 4
Begin(ph, k) ==
    IF k = 0 THEN 0 ELSE IF k < 8 THEN 5 + (k - 1) * (IF ph = "reg" THEN 2 ELSE 4)
    ELSE IF k = 8 THEN IF ph = "reg" THEN 21 ELSE 33
    ELSE IF ph = "reg" THEN 23 ELSE 37

(* The layout of a program, opcode by opcode.                              *)
LaidOut(p) ==
    /\ p[0].opcode = RMCG /\ p[7].opcode = BRANCH /\ p[9].opcode = HALT
    /\ \A k \in {1, 3, 5, 8} : p[k].opcode \in 4 .. 12
    /\ \A k \in {2, 4, 6} : p[k].opcode \in 0 .. 2

(* The rows of Layout fix the kind of opcode of every line.                *)
LEMMA ProgramLaidOut ==
    ASSUME NEW p \in Program
    PROVE  LaidOut(p)
BY DEF Program, Layout, LaidOut, XasOps, MulOps, XORROR, SUBLSR, MULOR, MULADD

(* A line begins where the one before it ends.                             *)
LEMMA BeginNext ==
    ASSUME NEW ph \in Phases, NEW k \in 0 .. 9
    PROVE  /\ Begin(ph, k) \in Nat /\ Begin(ph, k + 1) = Begin(ph, k) + Size(ph, k)
           /\ Size(ph, k) \in Nat /\ Begin(ph, k + 1) \in Nat
BY DEF Begin, Size, Phases

(* What each line becomes.                                                 *)
RmcgIs(in) ==
    LET s == CompileRmcg(in)
    IN  /\ Listing(s, 5)
        /\ s[1] = [op |-> "test_bc", len |-> 2, from |-> rbp]
        /\ s[2] = [op |-> "cmovz", len |-> 3, to |-> rbx, from |-> rbp]
        /\ s[3] = [op |-> "imul", len |-> 4, to |-> R(in.dst), from |-> in.src - 2]
        /\ s[4] = [op |-> "ror_imm", len |-> 4, to |-> R(in.dst), imm |-> in.imm]
        /\ s[5] = MovReg(rdx, R(in.dst))
RegMulIs(in) ==
    LET s == CompileMul("reg", in)
    IN  /\ Listing(s, 2)
        /\ s[1] = [op |-> tpl_mul(in.opcode), len |-> 4, to |-> R(in.dst), imm |-> in.imm]
        /\ s[2] = [op |-> "imul", len |-> 4, to |-> R(in.dst), from |-> R(in.src)]
MemMulIs(in) ==
    LET s == CompileMul("mem", in)
    IN  /\ Listing(s, 4)
        /\ s[1] = MovReg(rax, R(in.src))
        /\ s[2] = [op |-> tpl_mul(in.opcode), len |-> 4, to |-> R(in.dst), imm |-> in.imm]
        /\ s[3] = [op |-> "address", len |-> 5, to |-> rax]
        /\ s[4] = [op |-> "imul_mem", len |-> 5, to |-> R(in.dst)]
PreXas(in) == tpl_pre_xas((in.opcode - 4) \div 3)
RegXasIs(in) ==
    LET s == CompileXas("reg", in)
    IN  /\ Listing(s, 2)
        /\ s[1] = [op |-> PreXas(in), len |-> 4, to |-> R(in.dst), imm |-> in.imm]
        /\ s[2] = [op |-> tpl_xas_reg((in.opcode - 4) % 3), len |-> 3,
                   to |-> R(in.dst), from |-> R(in.src)]
MemXasIs(in) ==
    LET s == CompileXas("mem", in)
    IN  /\ Listing(s, 4)
        /\ s[1] = MovReg(rax, R(in.src))
        /\ s[2] = [op |-> PreXas(in), len |-> 4, to |-> R(in.dst), imm |-> in.imm]
        /\ s[3] = [op |-> "address", len |-> 5, to |-> rax]
        /\ s[4] = [op |-> tpl_xas_mem((in.opcode - 4) % 3), len |-> 4, to |-> R(in.dst)]
BranchingIs(ph) ==
    LET s == Branching(ph)
    IN  /\ Listing(s, 4)
        /\ s[1] = [op |-> "or_bc", len |-> 2, to |-> rdx, from |-> rbx]
        /\ s[2] = NextBc
        /\ s[3] = [op |-> "test_flag", len |-> 3, from |-> rdx]
        /\ s[4] = [op |-> "jz", len |-> 2, back |-> Back(ph)]

(* The emitters of the four kinds of arithmetic and of the target,         *)
(* instruction by instruction.                                             *)
LEMMA PiecesAre ==
    ASSUME NEW in
    PROVE  RmcgIs(in) /\ RegMulIs(in) /\ MemMulIs(in) /\ RegXasIs(in) /\ MemXasIs(in)
<1>1. RmcgIs(in)
    BY DEF RmcgIs, CompileRmcg, code_target, emit_imul_reg_4c, emit_op_imm, emit_mov_4c, Listing
<1>2. RegMulIs(in)
    BY DEF RegMulIs, CompileMul, emit_op_imm, emit_imul_reg_4d, Listing
<1>3. MemMulIs(in)
    BY DEF MemMulIs, CompileMul, emit_op_imm, emit_mov_4c, code_address, emit_imul_mem, Listing
<1>4. RegXasIs(in)
    BY DEF RegXasIs, CompileXas, emit_op_imm, emit_op_reg_4d, PreXas, Listing
<1>5. MemXasIs(in)
    BY DEF MemXasIs, CompileXas, emit_op_imm, emit_mov_4c, code_address, emit_op_mem, PreXas, Listing
<1> QED
    BY <1>1, <1>2, <1>3, <1>4, <1>5

(* The four instructions of the branch.                                    *)
LEMMA BranchIs ==
    ASSUME NEW ph
    PROVE  BranchingIs(ph)
BY DEF BranchingIs, Branching, code_branch, Listing

(* Which shape a piece of a program has.                                   *)
LEMMA PieceIs ==
    ASSUME NEW p \in Program, NEW ph \in Phases
    PROVE  /\ Piece(ph, p, 0) = CompileRmcg(p[0])
           /\ \A k \in {1, 3, 5, 8} : Piece(ph, p, k) = CompileXas(ph, p[k])
           /\ \A k \in {2, 4, 6} : Piece(ph, p, k) = CompileMul(ph, p[k])
           /\ Piece(ph, p, 7) = Branching(ph)
           /\ Piece(ph, p, 9) = <<>>
<1>1. LaidOut(p)
    BY ProgramLaidOut
<1>2. RMCG = 3 /\ BRANCH = 13 /\ HALT = 14 /\ MulOps = 0 .. 2
    BY DEF RMCG, BRANCH, HALT, MulOps, MULOR, MULADD
<1>3. Piece(ph, p, 0) = CompileRmcg(p[0])
    BY <1>1 DEF LaidOut, Piece, CompileInstr
<1>4. ASSUME NEW k \in {1, 3, 5, 8} PROVE Piece(ph, p, k) = CompileXas(ph, p[k])
    <2>1. p[k].opcode \in 4 .. 12 /\ k # 7
        BY <1>1 DEF LaidOut
    <2>2. /\ p[k].opcode # RMCG /\ p[k].opcode # BRANCH /\ p[k].opcode # HALT
          /\ p[k].opcode \notin MulOps
        BY <1>2, <2>1
    <2> QED
        BY <2>1, <2>2 DEF Piece, CompileInstr
<1>5. ASSUME NEW k \in {2, 4, 6} PROVE Piece(ph, p, k) = CompileMul(ph, p[k])
    <2>1. p[k].opcode \in 0 .. 2 /\ k # 7
        BY <1>1 DEF LaidOut
    <2>2. /\ p[k].opcode # RMCG /\ p[k].opcode # BRANCH /\ p[k].opcode # HALT
          /\ p[k].opcode \in MulOps
        BY <1>2, <2>1
    <2> QED
        BY <2>1, <2>2 DEF Piece, CompileInstr
<1>6. Piece(ph, p, 7) = Branching(ph)
    BY DEF Piece
<1>7. Piece(ph, p, 9) = <<>>
    <2>1. p[9].opcode # RMCG /\ p[9].opcode # BRANCH /\ p[9].opcode = HALT
        BY <1>1, <1>2 DEF LaidOut
    <2> QED
        BY <2>1 DEF Piece, CompileInstr
<1> QED
    BY <1>3, <1>4, <1>5, <1>6, <1>7

(* The number of instructions of a line.                                   *)
LEMMA PieceListed ==
    ASSUME NEW p \in Program, NEW ph \in Phases, NEW k \in 0 .. 9
    PROVE  Listing(Piece(ph, p, k), Size(ph, k))
<1>1. CASE k = 0
    <2>1. RmcgIs(p[0])
        BY PiecesAre
    <2> QED
        BY <1>1, <2>1, PieceIs DEF RmcgIs, Size
<1>2. CASE k \in {1, 3, 5, 8}
    <2>1. RegXasIs(p[k]) /\ MemXasIs(p[k])
        BY PiecesAre
    <2> QED
        BY <1>2, <2>1, PieceIs DEF RegXasIs, MemXasIs, Size, Phases
<1>3. CASE k \in {2, 4, 6}
    <2>1. RegMulIs(p[k]) /\ MemMulIs(p[k])
        BY PiecesAre
    <2> QED
        BY <1>3, <2>1, PieceIs DEF RegMulIs, MemMulIs, Size, Phases
<1>4. CASE k = 7
    <2>1. BranchingIs(ph)
        BY BranchIs
    <2>2. Listing(Branching(ph), 4)
        BY <2>1 DEF BranchingIs
    <2>3. Size(ph, 7) = 4 /\ Piece(ph, p, 7) = Branching(ph)
        BY PieceIs DEF Size
    <2> QED
        BY <1>4, <2>2, <2>3
<1>5. CASE k = 9
    BY <1>5, PieceIs DEF Listing, Size
<1> QED
    BY <1>1, <1>2, <1>3, <1>4, <1>5

(* The bytes of a line, and where its first byte is.                       *)
Weight(ph, k) ==
    IF k = 0 THEN 16 ELSE IF k = 7 THEN 10 ELSE IF k = 9 THEN 0
    ELSE IF k \in {2, 4, 6} THEN IF ph = "reg" THEN 8 ELSE 17
    ELSE IF ph = "reg" THEN 7 ELSE 16

(* What a function that adds the lengths up does over line k, which starts *)
(* behind index a.                                                         *)
Adds(u, s, a, m) == \A o \in 1 .. m : u[a + o] = u[a + o - 1] + s[o].len

(* A count that adds the lengths of two to five instructions.              *)
LEMMA AddsOver ==
    ASSUME NEW u, NEW s, NEW a \in Nat, u[a] \in Nat
    PROVE  /\ Adds(u, s, a, 2) => u[a + 2] = u[a] + s[1].len + s[2].len
           /\ Adds(u, s, a, 3) => u[a + 3] = u[a] + s[1].len + s[2].len + s[3].len
           /\ Adds(u, s, a, 4) => u[a + 4] = u[a] + s[1].len + s[2].len + s[3].len + s[4].len
           /\ Adds(u, s, a, 5) =>
                 u[a + 5] = u[a] + s[1].len + s[2].len + s[3].len + s[4].len + s[5].len
<1>1. ASSUME NEW m \in {2, 3, 4, 5}, Adds(u, s, a, m)
      PROVE  /\ u[a + 1] = u[a] + s[1].len /\ u[a + 2] = u[a + 1] + s[2].len
             /\ m > 2 => u[a + 3] = u[a + 2] + s[3].len
             /\ m > 3 => u[a + 4] = u[a + 3] + s[4].len
             /\ m > 4 => u[a + 5] = u[a + 4] + s[5].len
    <2>1. 1 \in 1 .. m /\ 2 \in 1 .. m /\ (m > 2 => 3 \in 1 .. m)
          /\ (m > 3 => 4 \in 1 .. m) /\ (m > 4 => 5 \in 1 .. m)
        OBVIOUS
    <2>2. a + 1 - 1 = a /\ a + 2 - 1 = a + 1 /\ a + 3 - 1 = a + 2 /\ a + 4 - 1 = a + 3
          /\ a + 5 - 1 = a + 4
        OBVIOUS
    <2> QED
        BY <1>1, <2>1, <2>2 DEF Adds
<1>2. ASSUME Adds(u, s, a, 2) PROVE u[a + 2] = u[a] + s[1].len + s[2].len
    BY <1>1, <1>2
<1>3. ASSUME Adds(u, s, a, 3) PROVE u[a + 3] = u[a] + s[1].len + s[2].len + s[3].len
    BY <1>1, <1>3
<1>4. ASSUME Adds(u, s, a, 4) PROVE u[a + 4] = u[a] + s[1].len + s[2].len + s[3].len + s[4].len
    BY <1>1, <1>4
<1>5. ASSUME Adds(u, s, a, 5)
      PROVE  u[a + 5] = u[a] + s[1].len + s[2].len + s[3].len + s[4].len + s[5].len
    BY <1>1, <1>5
<1> QED
    BY <1>2, <1>3, <1>4, <1>5

(* The length of every instruction of a line.                              *)
Lengths(s, ph, k) ==
    IF k = 0
    THEN s[1].len = 2 /\ s[2].len = 3 /\ s[3].len = 4 /\ s[4].len = 4 /\ s[5].len = 3
    ELSE IF k = 7
    THEN s[1].len = 2 /\ s[2].len = 3 /\ s[3].len = 3 /\ s[4].len = 2
    ELSE IF k = 9 THEN TRUE
    ELSE IF ph = "reg"
    THEN s[1].len = 4 /\ s[2].len = IF k \in {2, 4, 6} THEN 4 ELSE 3
    ELSE /\ s[1].len = 3 /\ s[2].len = 4 /\ s[3].len = 5
         /\ s[4].len = IF k \in {2, 4, 6} THEN 5 ELSE 4

(* The length of every instruction of a line.                              *)
LEMMA PieceLengths ==
    ASSUME NEW p \in Program, NEW ph \in Phases, NEW k \in 0 .. 9
    PROVE  Lengths(Piece(ph, p, k), ph, k)
<1>1. CASE k = 0
    <2>1. RmcgIs(p[0])
        BY PiecesAre
    <2> QED
        BY <1>1, <2>1, PieceIs DEF RmcgIs, Lengths, MovReg
<1>2. CASE k \in {1, 3, 5, 8}
    <2>1. RegXasIs(p[k]) /\ MemXasIs(p[k])
        BY PiecesAre
    <2>2. k \notin {2, 4, 6} /\ k # 0 /\ k # 7 /\ k # 9
        BY <1>2
    <2>3. Piece(ph, p, k) = CompileXas(ph, p[k])
        BY <1>2, PieceIs
    <2>4. CASE ph = "reg"
        BY <2>1, <2>2, <2>3, <2>4 DEF RegXasIs, Lengths
    <2>5. CASE ph = "mem"
        BY <2>1, <2>2, <2>3, <2>5 DEF MemXasIs, Lengths, MovReg
    <2> QED
        BY <2>4, <2>5 DEF Phases
<1>3. CASE k \in {2, 4, 6}
    <2>1. RegMulIs(p[k]) /\ MemMulIs(p[k])
        BY PiecesAre
    <2>2. k # 0 /\ k # 7 /\ k # 9
        BY <1>3
    <2>3. Piece(ph, p, k) = CompileMul(ph, p[k])
        BY <1>3, PieceIs
    <2>4. CASE ph = "reg"
        BY <1>3, <2>1, <2>2, <2>3, <2>4 DEF RegMulIs, Lengths
    <2>5. CASE ph = "mem"
        BY <1>3, <2>1, <2>2, <2>3, <2>5 DEF MemMulIs, Lengths, MovReg
    <2> QED
        BY <2>4, <2>5 DEF Phases
<1>4. CASE k = 7
    <2>1. BranchingIs(ph) /\ Piece(ph, p, 7) = Branching(ph)
        BY BranchIs, PieceIs
    <2> QED
        BY <1>4, <2>1 DEF BranchingIs, Lengths, NextBc
<1>5. CASE k = 9
    BY <1>5 DEF Lengths
<1> QED
    BY <1>1, <1>2, <1>3, <1>4, <1>5

(* No instruction is empty.                                                *)
LEMMA LengthsPositive ==
    ASSUME NEW s, NEW ph \in Phases, NEW k \in 0 .. 9, Lengths(s, ph, k)
    PROVE  \A o \in 1 .. Size(ph, k) : s[o].len \in Nat \ {0}
<1> SUFFICES ASSUME NEW o \in 1 .. Size(ph, k) PROVE s[o].len \in Nat \ {0}
    OBVIOUS
<1>1. CASE k = 0
    BY <1>1 DEF Lengths, Size
<1>2. CASE k = 7
    BY <1>2 DEF Lengths, Size
<1>3. CASE k = 9
    BY <1>3 DEF Size
<1>4. CASE k \notin {0, 7, 9}
    BY <1>4 DEF Lengths, Size, Phases
<1> QED
    BY <1>1, <1>2, <1>3, <1>4

(* The bytes of a line.                                                    *)
LEMMA LineBytes ==
    ASSUME NEW s, NEW ph \in Phases, NEW k \in 0 .. 9, Lengths(s, ph, k),
           NEW u, NEW a \in Nat, u[a] \in Nat, Adds(u, s, a, Size(ph, k))
    PROVE  u[a + Size(ph, k)] = u[a] + Weight(ph, k)
<1>1. CASE k = 0
    <2>1. Size(ph, k) = 5 /\ Weight(ph, k) = 16
        BY <1>1 DEF Size, Weight
    <2> QED
        BY <1>1, <2>1, AddsOver DEF Lengths
<1>2. CASE k = 7
    <2>1. Size(ph, k) = 4 /\ Weight(ph, k) = 10
        BY <1>2 DEF Size, Weight
    <2> QED
        BY <1>2, <2>1, AddsOver DEF Lengths
<1>3. CASE k = 9
    <2>1. Size(ph, k) = 0 /\ Weight(ph, k) = 0
        BY <1>3 DEF Size, Weight
    <2>2. a + Size(ph, k) = a /\ u[a] + Weight(ph, k) = u[a]
        BY <2>1
    <2> QED
        BY <2>2
<1>4. CASE k \notin {0, 7, 9} /\ ph = "reg"
    <2>1. Size(ph, k) = 2 /\ Weight(ph, k) = IF k \in {2, 4, 6} THEN 8 ELSE 7
        BY <1>4 DEF Size, Weight
    <2> QED
        BY <1>4, <2>1, AddsOver DEF Lengths
<1>5. CASE k \notin {0, 7, 9} /\ ph = "mem"
    <2>1. Size(ph, k) = 4 /\ Weight(ph, k) = IF k \in {2, 4, 6} THEN 17 ELSE 16
        BY <1>5 DEF Size, Weight
    <2> QED
        BY <1>5, <2>1, AddsOver DEF Lengths
<1> QED
    BY <1>1, <1>2, <1>3, <1>4, <1>5 DEF Phases

-----------------------------------------------------------------------------
(* Bytes adds up the lengths.                                              *)
LEMMA BytesAre ==
    ASSUME NEW s, NEW m, Listing(s, m), NEW t, t[0] = 0, Adds(t, s, 0, m)
    PROVE  Bytes(s) = t[m]
<1>1. Len(s) = m /\ m \in Nat
    <2>1. \A i \in 1 .. m : s[i] \in {s[k] : k \in 1 .. m}
        OBVIOUS
    <2> QED
        BY <2>1, ListingIsSeq DEF Listing
<1> DEFINE w == [k \in 1 .. m |-> s[k].len]
           Up(f) == f = [k \in 0 .. m |-> IF k = 0 THEN 0 ELSE f[k - 1] + s[k].len]
<1>2. Totals(t, w, m)
    <2>1. \A k \in 1 .. m : 0 + k = k /\ 0 + k - 1 = k - 1
        BY <1>1
    <2> QED
        BY <2>1 DEF Totals, Adds
<1>3. \E f : Up(f)
    <2> DEFINE g == [k \in 0 .. m |-> t[k]]
    <2>1. ASSUME NEW k \in 0 .. m PROVE g[k] = IF k = 0 THEN 0 ELSE g[k - 1] + s[k].len
        <3>1. k # 0 => k \in 1 .. m /\ k - 1 \in 0 .. m /\ 0 + k = k /\ 0 + k - 1 = k - 1
            BY <1>1
        <3> QED
            BY <3>1 DEF Adds
    <2>2. g = [k \in 0 .. m |-> IF k = 0 THEN 0 ELSE g[k - 1] + s[k].len]
        <3> HIDE DEF g
        <3>1. g = [k \in 0 .. m |-> g[k]]
            BY DEF g
        <3> QED
            BY <2>1, <3>1
    <2> HIDE DEF g
    <2> QED
        BY <2>2
<1>4. Bytes(s) = (CHOOSE f : Up(f))[m]
    BY <1>1 DEF Bytes
<1>5. PICK f : f = CHOOSE h : Up(h)
    OBVIOUS
<1>6. Up(f)
    BY <1>3, <1>5
<1>7. Sums(f, w, m)
    <2>1. ASSUME NEW k \in 0 .. m PROVE f[k] = IF k = 0 THEN 0 ELSE f[k - 1] + w[k]
        <3>1. k # 0 => k \in 1 .. m
            BY <1>1
        <3> QED
            BY <1>6, <3>1
    <2> QED
        BY <1>6, <2>1 DEF Sums
<1> HIDE DEF w, Up
<1>8. m \in 0 .. m
    BY <1>1
<1> QED
    BY <1>1, <1>2, <1>4, <1>5, <1>7, <1>8, SumsAre

(* What compile_program emits: line k at its place.                        *)
Emission(f, ph, p, m) ==
    /\ Listing(f, Begin(ph, m))
    /\ \A k \in 0 .. m - 1 : \A o \in 1 .. Size(ph, k) : f[Begin(ph, k) + o] = Piece(ph, p, k)[o]

Lines(ph, p) == [k \in 1 .. 10 |-> Piece(ph, p, k - 1)]
Places(ph) == [k \in 1 .. 11 |-> Begin(ph, k - 1)]

(* The lines of a program follow one another.                              *)
LEMMA LinesPlaced ==
    ASSUME NEW p \in Program, NEW ph \in Phases
    PROVE  Pieces(Lines(ph, p), 10, Places(ph))
<1>1. Listing(Lines(ph, p), 10)
    BY DEF Listing, Lines
<1>2. Places(ph)[1] = 0
    BY DEF Places, Begin
<1>3. ASSUME NEW k \in 1 .. 10
      PROVE  /\ Places(ph)[k] \in Nat /\ Places(ph)[k + 1] \in Nat
             /\ Places(ph)[k] <= Places(ph)[k + 1]
             /\ Listing(Lines(ph, p)[k], Places(ph)[k + 1] - Places(ph)[k])
    <2>1. k - 1 \in 0 .. 9 /\ (k - 1) + 1 = k /\ k + 1 - 1 = k /\ k \in 1 .. 11 /\ k + 1 \in 1 .. 11
        OBVIOUS
    <2>2. /\ Begin(ph, k - 1) \in Nat /\ Begin(ph, k) = Begin(ph, k - 1) + Size(ph, k - 1)
          /\ Size(ph, k - 1) \in Nat /\ Begin(ph, k) \in Nat
        BY <2>1, BeginNext
    <2>3. Places(ph)[k] = Begin(ph, k - 1) /\ Places(ph)[k + 1] = Begin(ph, k)
        BY <2>1 DEF Places
    <2>4. Listing(Piece(ph, p, k - 1), Size(ph, k - 1)) /\ Lines(ph, p)[k] = Piece(ph, p, k - 1)
        BY <2>1, PieceListed DEF Lines
    <2>5. Begin(ph, k) - Begin(ph, k - 1) = Size(ph, k - 1) /\ Begin(ph, k - 1) <= Begin(ph, k)
        BY <2>2
    <2> QED
        BY <2>2, <2>3, <2>4, <2>5
<1> QED
    BY <1>1, <1>2, <1>3 DEF Pieces

(* Chaining the lines makes the code of the program.                       *)
LEMMA ChainIsEmission ==
    ASSUME NEW p \in Program, NEW ph \in Phases, NEW m \in 0 .. 10, NEW f,
           Chained(f, Lines(ph, p), Places(ph), m)
    PROVE  Emission(f, ph, p, m)
<1>1. m + 1 \in 1 .. 11 /\ m + 1 - 1 = m
    OBVIOUS
<1>2. Listing(f, Begin(ph, m))
    BY <1>1 DEF Chained, Places
<1>3. ASSUME NEW k \in 0 .. m - 1, NEW o \in 1 .. Size(ph, k)
      PROVE  f[Begin(ph, k) + o] = Piece(ph, p, k)[o]
    <2>1. PICK q : q = k + 1
        OBVIOUS
    <2>2. q \in 1 .. m /\ q \in 1 .. 10 /\ q \in 1 .. 11 /\ q + 1 \in 1 .. 11 /\ q - 1 = k
          /\ q + 1 - 1 = k + 1 /\ k \in 0 .. 9
        BY <2>1
    <2>3. Places(ph)[q] = Begin(ph, k) /\ Places(ph)[q + 1] = Begin(ph, k + 1)
          /\ Lines(ph, p)[q] = Piece(ph, p, k)
        BY <2>2 DEF Places, Lines
    <2>4. Begin(ph, k + 1) - Begin(ph, k) = Size(ph, k)
        BY <2>2, BeginNext
    <2> QED
        BY <2>2, <2>3, <2>4 DEF Chained
<1> QED
    BY <1>2, <1>3 DEF Emission

(* The bytes up to line m, by any function that adds the lengths up.       *)
ByteAt(ph, k) ==
    IF ph = "reg" THEN <<0, 16, 23, 31, 38, 46, 53, 61, 71, 78, 78>>[k + 1]
    ELSE <<0, 16, 32, 49, 65, 82, 98, 115, 125, 141, 141>>[k + 1]

(* The first byte of a line comes after the bytes of the one before it.    *)
LEMMA ByteAtNext ==
    ASSUME NEW ph \in Phases, NEW k \in 0 .. 9
    PROVE  ByteAt(ph, k) \in Nat /\ ByteAt(ph, k + 1) = ByteAt(ph, k) + Weight(ph, k)
BY DEF ByteAt, Weight, Phases

(* The bytes of a program up to any of its lines.                          *)
LEMMA BytesUpTo ==
    ASSUME NEW p \in Program, NEW ph \in Phases, NEW f, NEW m \in 0 .. 10, Emission(f, ph, p, m),
           NEW u, NEW a \in Nat, u[a] \in Nat,
           \A i \in 1 .. Begin(ph, m) : u[a + i] = u[a + i - 1] + f[i].len
    PROVE  \A k \in 0 .. m : u[a + Begin(ph, k)] = u[a] + ByteAt(ph, k)
<1> DEFINE S == {k \in 0 .. m : u[a + Begin(ph, k)] # u[a] + ByteAt(ph, k)}
<1> SUFFICES ASSUME S # {} PROVE FALSE
    OBVIOUS
<1>1. PICK k \in S : \A y \in S : k <= y
    <2>1. S \subseteq Nat
        OBVIOUS
    <2> HIDE DEF S
    <2> QED
        BY <2>1, LeastExists
<1>2. k # 0
    <2>1. Begin(ph, 0) = 0 /\ ByteAt(ph, 0) = 0 /\ a + 0 = a /\ u[a] + 0 = u[a]
        BY DEF Begin, ByteAt
    <2>2. u[a + Begin(ph, 0)] = u[a] + ByteAt(ph, 0)
        BY <2>1
    <2> QED
        BY <2>2
<1>3. PICK q : q = k - 1
    OBVIOUS
<1>4. q \in 0 .. m - 1 /\ q \in 0 .. 9 /\ q + 1 = k /\ q \in 0 .. m /\ ~(k <= q) /\ k \in 0 .. m
    BY <1>2, <1>3
<1>5. u[a + Begin(ph, q)] = u[a] + ByteAt(ph, q)
    BY <1>1, <1>4
<1>6. /\ Begin(ph, q) \in Nat /\ Begin(ph, k) = Begin(ph, q) + Size(ph, q) /\ Size(ph, q) \in Nat
      /\ ByteAt(ph, q) \in Nat /\ ByteAt(ph, k) = ByteAt(ph, q) + Weight(ph, q)
    BY <1>4, BeginNext, ByteAtNext
<1>7. Begin(ph, k) <= Begin(ph, m)
    <2>1. \A y \in 0 .. 10 : Begin(ph, y) =
              IF y = 0 THEN 0 ELSE IF y < 8 THEN 5 + (y - 1) * (IF ph = "reg" THEN 2 ELSE 4)
              ELSE IF y = 8 THEN IF ph = "reg" THEN 21 ELSE 33
              ELSE IF ph = "reg" THEN 23 ELSE 37
        BY DEF Begin
    <2>2. k <= m /\ k \in 0 .. 10
        BY <1>4
    <2> QED
        BY <2>1, <2>2
<1>8. PICK b : b = a + Begin(ph, q)
    OBVIOUS
<1>9. b \in Nat /\ u[b] \in Nat
    BY <1>5, <1>6, <1>8
<1>10. Adds(u, Piece(ph, p, q), b, Size(ph, q))
    <2> SUFFICES ASSUME NEW o \in 1 .. Size(ph, q)
                 PROVE  u[b + o] = u[b + o - 1] + Piece(ph, p, q)[o].len
        BY DEF Adds
    <2>1. PICK i : i = Begin(ph, q) + o
        OBVIOUS
    <2>2. Begin(ph, m) \in Nat
        BY DEF Begin, Phases
    <2>3. i \in 1 .. Begin(ph, m) /\ a + i = b + o /\ a + i - 1 = b + o - 1
        BY <1>6, <1>7, <1>8, <2>1, <2>2
    <2>4. f[i] = Piece(ph, p, q)[o]
        BY <1>4, <2>1 DEF Emission
    <2> QED
        BY <2>3, <2>4
<1>11. u[b + Size(ph, q)] = u[b] + Weight(ph, q)
    BY <1>4, <1>9, <1>10, LineBytes, PieceLengths
<1>12. Weight(ph, q) \in Nat
    BY DEF Weight
<1>13. b + Size(ph, q) = a + Begin(ph, k) /\ u[b] + Weight(ph, q) = u[a] + ByteAt(ph, k)
    BY <1>5, <1>6, <1>8, <1>12
<1>14. u[a + Begin(ph, k)] = u[a] + ByteAt(ph, k)
    BY <1>11, <1>13
<1> QED
    BY <1>14

(* compile_program by its recursion, which counts the bytes emitted so far *)
(* where the branch comes.                                                 *)
Emits(g, ph, p) ==
    g = [k \in 0 .. 10 |->
            IF k = 0 THEN <<>> ELSE g[k - 1] \o CompileInstr(ph, g[k - 1], p[k - 1])]

(* The recursion of compile_program defines one function.                  *)
LEMMA EmitsOnce ==
    ASSUME NEW ph, NEW p, NEW g, Emits(g, ph, p), NEW h, Emits(h, ph, p)
    PROVE  g = h
<1> DEFINE S == {i \in 0 .. 10 : g[i] # h[i]}
<1>1. S = {}
    <2> SUFFICES ASSUME S # {} PROVE FALSE
        OBVIOUS
    <2>1. PICK m \in S : \A y \in S : m <= y
        <3>1. S \subseteq Nat
            OBVIOUS
        <3> HIDE DEF S
        <3> QED
            BY <3>1, LeastExists
    <2>2. m \in 0 .. 10 /\ (m # 0 => m - 1 \in 0 .. 10 /\ m - 1 \notin S)
        BY <2>1
    <2>3. m # 0 => g[m - 1] = h[m - 1]
        BY <2>2
    <2>4. /\ g[m] = IF m = 0 THEN <<>> ELSE g[m - 1] \o CompileInstr(ph, g[m - 1], p[m - 1])
          /\ h[m] = IF m = 0 THEN <<>> ELSE h[m - 1] \o CompileInstr(ph, h[m - 1], p[m - 1])
        BY <2>2 DEF Emits
    <2> QED
        BY <2>1, <2>3, <2>4
<1>2. \A i \in 0 .. 10 : g[i] = h[i]
    BY <1>1
<1> QED
    BY <1>2 DEF Emits

(* The branch finds Back(ph) bytes before its jump.                        *)
LEMMA BytesBefore ==
    ASSUME NEW p \in Program, NEW ph \in Phases, NEW f, Emission(f, ph, p, 7)
    PROVE  Bytes(f \o code_branch) = Back(ph)
<1> DEFINE s == f \o code_branch
           b == Begin(ph, 7)
           m == b + 3
<1>1. b \in Nat /\ Listing(f, b)
    <2>1. Begin(ph, 7) \in Nat
        BY DEF Begin, Phases
    <2> QED
        BY <2>1 DEF Emission
<1>2. /\ Listing(code_branch, 3) /\ code_branch[1].len = 2
      /\ code_branch[2].len = 3 /\ code_branch[3].len = 3
    BY DEF code_branch, Listing, NextBc
<1> HIDE DEF b
<1>3. Appended(f, b, code_branch, 3)
    BY <1>1, <1>2, Concat
<1>4. /\ Listing(s, m) /\ \A i \in 1 .. b : s[i] = f[i]
      /\ \A i \in 1 .. 3 : s[b + i] = code_branch[i]
    BY <1>3 DEF Appended
<1> HIDE DEF s
<1>5. \A i \in 1 .. b : f[i].len \in Nat
    <2> SUFFICES ASSUME NEW i \in 1 .. b PROVE f[i].len \in Nat
        OBVIOUS
    <2>1. PICK k \in 0 .. 6 : i \in Begin(ph, k) + 1 .. Begin(ph, k) + Size(ph, k)
        <3>1. CASE ph = "reg"
            <4>1. b = 17
                BY <3>1 DEF b, Begin
            <4>2. \A k \in 0 .. 6 : Begin(ph, k) = (IF k = 0 THEN 0 ELSE 3 + 2 * k)
                                    /\ Size(ph, k) = IF k = 0 THEN 5 ELSE 2
                BY <3>1 DEF Begin, Size
            <4>3. i <= 5 \/ i \in 6 .. 7 \/ i \in 8 .. 9 \/ i \in 10 .. 11 \/ i \in 12 .. 13
                  \/ i \in 14 .. 15 \/ i \in 16 .. 17
                BY <4>1
            <4> QED
                BY <4>2, <4>3
        <3>2. CASE ph = "mem"
            <4>1. b = 29
                BY <3>2 DEF b, Begin
            <4>2. \A k \in 0 .. 6 : Begin(ph, k) = (IF k = 0 THEN 0 ELSE 1 + 4 * k)
                                    /\ Size(ph, k) = IF k = 0 THEN 5 ELSE 4
                BY <3>2 DEF Begin, Size
            <4>3. i <= 5 \/ i \in 6 .. 9 \/ i \in 10 .. 13 \/ i \in 14 .. 17 \/ i \in 18 .. 21
                  \/ i \in 22 .. 25 \/ i \in 26 .. 29
                BY <4>1
            <4> QED
                BY <4>2, <4>3
        <3> QED
            BY <3>1, <3>2 DEF Phases
    <2>2. PICK o : o = i - Begin(ph, k)
        OBVIOUS
    <2>3. o \in 1 .. Size(ph, k) /\ i = Begin(ph, k) + o /\ k \in 0 .. 9
        BY <2>1, <2>2, BeginNext
    <2>4. f[i] = Piece(ph, p, k)[o]
        BY <2>1, <2>3 DEF Emission
    <2>5. Piece(ph, p, k)[o].len \in Nat \ {0}
        BY <2>3, LengthsPositive, PieceLengths
    <2> QED
        BY <2>4, <2>5
<1>6. m \in Nat /\ \A i \in 1 .. m : s[i].len \in Nat
    <2> SUFFICES ASSUME NEW i \in 1 .. m PROVE s[i].len \in Nat
        BY <1>1
    <2>1. CASE i <= b
        BY <1>1, <1>4, <1>5, <2>1
    <2>2. CASE i > b
        <3>1. i = b + 1 \/ i = b + 2 \/ i = b + 3
            BY <1>1, <2>2
        <3> QED
            BY <1>2, <1>4, <3>1
    <2> QED
        BY <1>1, <2>1, <2>2
<1> DEFINE w == [i \in 1 .. m |-> s[i].len]
<1>7. PICK t : Sums(t, w, m) /\ \A k \in 0 .. m : t[k] \in Nat
    <2>1. \A i \in 1 .. m : w[i] \in Nat
        BY <1>6
    <2> HIDE DEF w, m
    <2> QED
        BY <1>6, <2>1, SumsExist
<1>8. t[0] = 0 /\ \A i \in 1 .. m : t[i] = t[i - 1] + s[i].len
    <2>1. \A i \in 0 .. m : t[i] = IF i = 0 THEN 0 ELSE t[i - 1] + w[i]
        BY <1>7 DEF Sums
    <2>2. 0 \in 0 .. m /\ \A i \in 1 .. m : i \in 0 .. m /\ i # 0 /\ w[i] = s[i].len
        BY <1>6
    <2> HIDE DEF w, m
    <2> QED
        BY <2>1, <2>2
<1>9. Bytes(s) = t[m]
    <2>1. Adds(t, s, 0, m)
        <3>1. \A i \in 1 .. m : 0 + i = i /\ 0 + i - 1 = i - 1
            BY <1>6
        <3> QED
            BY <1>8, <3>1 DEF Adds
    <2> HIDE DEF m
    <2> QED
        BY <1>4, <1>8, <2>1, BytesAre
<1>10. t[b] = ByteAt(ph, 7)
    <2>1. \A i \in 1 .. Begin(ph, 7) : t[0 + i] = t[0 + i - 1] + f[i].len
        <3> SUFFICES ASSUME NEW i \in 1 .. Begin(ph, 7) PROVE t[0 + i] = t[0 + i - 1] + f[i].len
            OBVIOUS
        <3>1. i \in 1 .. b /\ i \in 1 .. m /\ 0 + i = i /\ 0 + i - 1 = i - 1
            BY <1>1 DEF b
        <3> QED
            BY <1>4, <1>8, <3>1
    <2>2. t[0] \in Nat /\ 7 \in 0 .. 10 /\ 7 \in 0 .. 7
        BY <1>8
    <2>3. \A k \in 0 .. 7 : t[0 + Begin(ph, k)] = t[0] + ByteAt(ph, k)
        BY <2>1, <2>2, BytesUpTo
    <2>4. 0 + Begin(ph, 7) = b /\ t[0] + ByteAt(ph, 7) = ByteAt(ph, 7)
        BY <1>1, <1>8 DEF b, ByteAt
    <2> QED
        BY <2>2, <2>3, <2>4
<1>11. /\ t[b + 1] = t[b] + 2 /\ t[b + 2] = t[b + 1] + 3 /\ t[b + 3] = t[b + 2] + 3
    <2>1. b + 1 \in 1 .. m /\ b + 2 \in 1 .. m /\ b + 3 \in 1 .. m
          /\ b + 1 - 1 = b /\ b + 2 - 1 = b + 1 /\ b + 3 - 1 = b + 2
        BY <1>1
    <2>2. s[b + 1] = code_branch[1] /\ s[b + 2] = code_branch[2] /\ s[b + 3] = code_branch[3]
        BY <1>4
    <2>3. ASSUME NEW i \in 1 .. m, NEW j, j = i - 1 PROVE t[i] = t[j] + s[i].len
        BY <1>8, <2>3
    <2> HIDE DEF m
    <2>4. /\ t[b + 1] = t[b] + s[b + 1].len /\ t[b + 2] = t[b + 1] + s[b + 2].len
          /\ t[b + 3] = t[b + 2] + s[b + 3].len
        BY <1>1, <2>1, <2>3
    <2> QED
        BY <1>2, <2>2, <2>4
<1>12. ByteAt(ph, 7) + 8 = Back(ph) /\ ByteAt(ph, 7) \in Nat
    BY DEF ByteAt, Back
<1> QED
    BY <1>9, <1>10, <1>11, <1>12 DEF s

(* compile_program emits the ten lines at their places, and the jump of    *)
(* its branch goes back over the bytes from the target.                    *)
LEMMA ProgramEmitted ==
    ASSUME NEW p \in Program, NEW ph \in Phases
    PROVE  Emission(compile_program(ph, p), ph, p, 10)
<1>1. PICK g : Joins(g, Lines(ph, p), 10) /\ AllChained(g, Lines(ph, p), Places(ph), 10)
    BY LinesPlaced, JoinExists
<1>2. ASSUME NEW m \in 0 .. 10 PROVE Emission(g[m], ph, p, m)
    BY <1>1, ChainIsEmission DEF AllChained
<1>3. Bytes(g[7] \o code_branch) = Back(ph)
    BY <1>2, BytesBefore
<1>4. ASSUME NEW k \in 0 .. 9 PROVE CompileInstr(ph, g[k], p[k]) = Piece(ph, p, k)
    <2>1. LaidOut(p)
        BY ProgramLaidOut
    <2>2. CASE k = 7
        <3>1. CompileInstr(ph, g[k], p[k]) = code_branch \o emit_jz(Bytes(g[7] \o code_branch))
            BY <2>1, <2>2 DEF LaidOut, CompileInstr, RMCG, BRANCH
        <3>2. emit_jz(Back(ph)) = <<[op |-> "jz", len |-> 2, back |-> Back(ph)]>>
            BY DEF emit_jz, Back
        <3> QED
            BY <1>3, <2>2, <3>1, <3>2 DEF Piece, Branching
    <2>3. CASE k # 7
        <3>1. p[k].opcode # BRANCH
            BY <2>1, <2>3 DEF LaidOut, RMCG, BRANCH, HALT
        <3> QED
            BY <2>3, <3>1 DEF Piece, CompileInstr
    <2> QED
        BY <2>2, <2>3
<1>5. Emits(g, ph, p)
    <2>1. ASSUME NEW k \in 0 .. 10
          PROVE  g[k] = IF k = 0 THEN <<>> ELSE g[k - 1] \o CompileInstr(ph, g[k - 1], p[k - 1])
        <3>1. g[k] = IF k = 0 THEN <<>> ELSE g[k - 1] \o Lines(ph, p)[k]
            BY <1>1 DEF Joins
        <3>2. k # 0 => k \in 1 .. 10 /\ k - 1 \in 0 .. 9
            OBVIOUS
        <3>3. k # 0 => Lines(ph, p)[k] = Piece(ph, p, k - 1)
            BY <3>2 DEF Lines
        <3> QED
            BY <1>4, <3>1, <3>2, <3>3
    <2>2. g = [k \in 0 .. 10 |-> IF k = 0 THEN <<>> ELSE g[k - 1] \o Lines(ph, p)[k]]
        BY <1>1 DEF Joins
    <2> QED
        BY <2>1, <2>2 DEF Emits
<1>6. (CHOOSE h : Emits(h, ph, p)) = g
    BY <1>5, EmitsOnce
<1>7. compile_program(ph, p) = (CHOOSE h : Emits(h, ph, p))[10]
    BY DEF compile_program, Emits
<1>8. Emission(g[10], ph, p, 10)
    BY <1>2
<1> QED
    BY <1>6, <1>7, <1>8

-----------------------------------------------------------------------------
(* The code of the function, from the prologue to the epilogue.            *)

(* What surrounds the programs.                                            *)
First(cv) == IF cv = "win" THEN 0 ELSE 1       \* the move of the argument
Saves(cv) == IF cv = "win" THEN 8 ELSE 6
Pre(cv) == First(cv) + Saves(cv) + 12
Post(cv) == Saves(cv) + 10
Unwind == [op |-> "unwind", len |-> 7]
Ret == [op |-> "ret", len |-> 1]

SavedIs(cv) ==
    LET s == SavedRegs(cv)
        f == Saves(cv) - 6
    IN  /\ Listing(s, Saves(cv)) /\ Len(s) = Saves(cv)
        /\ s[f + 1] = rbx /\ s[f + 2] = rbp
        /\ s[f + 3] = 12 /\ s[f + 4] = 13 /\ s[f + 5] = 14 /\ s[f + 6] = 15
        /\ cv = "win" => s[1] = rsi /\ s[2] = rdi
PrologueIs(cv) ==
    LET s == code_prologue(cv)
        f == First(cv)
        g == First(cv) + Saves(cv)
    IN  /\ Listing(s, Pre(cv))
        /\ cv # "win" => s[1] = MovReg(rcx, rdi)
        /\ \A k \in 1 .. Saves(cv) : s[f + k] = Push(SavedRegs(cv)[k])
        /\ \A k \in 1 .. 10 : s[g + k] = Load(HomeOf(k - 1), k - 1)
        /\ s[g + 11] = ClearBc
        /\ s[g + 12] = NextBc
EpilogueIs(cv) ==
    LET s == code_epilogue(cv)
    IN  /\ Listing(s, Post(cv))
        /\ s[1] = Unwind
        /\ \A k \in 1 .. 8 : s[1 + k] = StoreTo(R(k - 1), k - 1)
        /\ \A k \in 1 .. Saves(cv) : s[9 + k] = Pop(SavedRegs(cv)[Saves(cv) + 1 - k])
        /\ s[10 + Saves(cv)] = Ret

(* The callee-saved registers of both calling conventions.                 *)
LEMMA SavedRegsAre ==
    ASSUME NEW cv \in Abi
    PROVE  SavedIs(cv)
<1>1. CASE cv = "win"
    <2>1. SavedRegs(cv) = <<rsi, rdi>> \o <<rbx, rbp, 12, 13, 14, 15>>
        BY <1>1 DEF SavedRegs, R
    <2>2. Saves(cv) = 8
        BY <1>1 DEF Saves
    <2> QED
        BY <2>1, <2>2 DEF SavedIs, Listing
<1>2. CASE cv = "sysv"
    <2>1. SavedRegs(cv) = <<>> \o <<rbx, rbp, 12, 13, 14, 15>>
        BY <1>2 DEF SavedRegs, R
    <2>2. Saves(cv) = 6 /\ Saves(cv) - 6 = 0
        BY <1>2 DEF Saves
    <2>3. PICK s : s = SavedRegs(cv)
        OBVIOUS
    <2>4. Listing(s, 6) /\ Len(s) = 6
        BY <2>1, <2>3 DEF Listing
    <2>5. /\ s[1] = rbx /\ s[2] = rbp /\ s[3] = 12 /\ s[4] = 13
          /\ s[5] = 14 /\ s[6] = 15
        BY <2>1, <2>3
    <2>6. 0 + 1 = 1 /\ 0 + 2 = 2 /\ 0 + 3 = 3 /\ 0 + 4 = 4 /\ 0 + 5 = 5 /\ 0 + 6 = 6
        OBVIOUS
    <2> QED
        BY <1>2, <2>2, <2>3, <2>4, <2>5, <2>6 DEF SavedIs
<1> QED
    BY <1>1, <1>2 DEF Abi

(* code_prologue, instruction by instruction.                              *)
LEMMA ThePrologue ==
    ASSUME NEW cv \in Abi
    PROVE  PrologueIs(cv)
<1> DEFINE c == First(cv)
           d == Saves(cv)
           s1 == IF cv = "win" THEN <<>> ELSE <<MovReg(rcx, rdi)>>
           s2 == [k \in 1 .. d |-> Push(SavedRegs(cv)[k])]
           s3 == [k \in 1 .. 10 |-> Load(HomeOf(k - 1), k - 1)]
           s4 == <<ClearBc, NextBc>>
<1>1. c \in Nat /\ d \in Nat
    BY DEF First, Saves
<1>2. Len(SavedRegs(cv)) = d
    BY SavedRegsAre DEF SavedIs
<1>3. code_prologue(cv) = ((s1 \o s2) \o s3) \o s4
    BY <1>2 DEF code_prologue
<1>4. Listing(s1, c) /\ (cv # "win" => s1[1] = MovReg(rcx, rdi) /\ 1 \in 1 .. c)
    BY DEF Listing, First
<1>5. Listing(s2, d) /\ \A k \in 1 .. d : s2[k] = Push(SavedRegs(cv)[k])
    BY <1>1 DEF Listing
<1>6. Listing(s3, 10) /\ \A k \in 1 .. 10 : s3[k] = Load(HomeOf(k - 1), k - 1)
    BY DEF Listing
<1>7. Listing(s4, 2) /\ s4[1] = ClearBc /\ s4[2] = NextBc
    BY DEF Listing
<1> HIDE DEF c, d, s1, s2, s3, s4
<1>8. Appended(s1, c, s2, d)
    BY <1>4, <1>5, Concat
<1>9. PICK t12, n12 : t12 = s1 \o s2 /\ n12 = c + d
    OBVIOUS
<1>10. Appended(t12, n12, s3, 10)
    <2>1. Listing(t12, n12)
        BY <1>8, <1>9 DEF Appended
    <2> QED
        BY <1>6, <2>1, Concat
<1>11. PICK t13, n13 : t13 = t12 \o s3 /\ n13 = n12 + 10
    OBVIOUS
<1>12. Appended(t13, n13, s4, 2)
    <2>1. Listing(t13, n13)
        BY <1>10, <1>11 DEF Appended
    <2> QED
        BY <1>7, <2>1, Concat
<1>13. PICK t : t = code_prologue(cv) /\ t = t13 \o s4
    BY <1>3, <1>9, <1>11
<1>14. Listing(t, c + d + 12)
    <2>1. n13 + 2 = c + d + 12
        BY <1>1, <1>9, <1>11
    <2> QED
        BY <1>12, <1>13, <2>1 DEF Appended
<1>15. \A i \in 1 .. n13 : t[i] = t13[i]
    BY <1>12, <1>13 DEF Appended
<1>16. \A i \in 1 .. n12 : t13[i] = t12[i]
    BY <1>10, <1>11 DEF Appended
<1>17. cv # "win" => t[1] = MovReg(rcx, rdi)
    <2>1. ASSUME cv # "win" PROVE t[1] = MovReg(rcx, rdi)
        <3>1. 1 \in 1 .. c /\ 1 \in 1 .. n12 /\ 1 \in 1 .. n13
            BY <1>1, <1>4, <1>9, <1>11, <2>1
        <3>2. t12[1] = s1[1]
            BY <1>8, <1>9, <3>1 DEF Appended
        <3> QED
            BY <1>4, <1>15, <1>16, <2>1, <3>1, <3>2
    <2> QED
        BY <2>1
<1>18. \A k \in 1 .. d : t[c + k] = Push(SavedRegs(cv)[k])
    <2> SUFFICES ASSUME NEW k \in 1 .. d PROVE t[c + k] = Push(SavedRegs(cv)[k])
        OBVIOUS
    <2>1. c + k \in 1 .. n12 /\ c + k \in 1 .. n13
        BY <1>1, <1>9, <1>11
    <2>2. t12[c + k] = s2[k]
        BY <1>8, <1>9 DEF Appended
    <2> QED
        BY <1>5, <1>15, <1>16, <2>1, <2>2
<1>19. \A k \in 1 .. 10 : t[c + d + k] = Load(HomeOf(k - 1), k - 1)
    <2> SUFFICES ASSUME NEW k \in 1 .. 10 PROVE t[c + d + k] = Load(HomeOf(k - 1), k - 1)
        OBVIOUS
    <2>1. c + d + k \in 1 .. n13 /\ c + d + k = n12 + k
        BY <1>1, <1>9, <1>11
    <2>2. t13[n12 + k] = s3[k]
        BY <1>10, <1>11 DEF Appended
    <2> QED
        BY <1>6, <1>15, <2>1, <2>2
<1>20. t[c + d + 11] = ClearBc /\ t[c + d + 12] = NextBc
    <2>1. c + d + 11 = n13 + 1 /\ c + d + 12 = n13 + 2
        BY <1>1, <1>9, <1>11
    <2>2. \A i \in 1 .. 2 : t[n13 + i] = s4[i]
        BY <1>12, <1>13 DEF Appended
    <2> QED
        BY <1>7, <2>1, <2>2
<1> QED
    BY <1>13, <1>14, <1>17, <1>18, <1>19, <1>20 DEF PrologueIs, c, d, Pre

(* code_epilogue, instruction by instruction.                              *)
LEMMA TheEpilogue ==
    ASSUME NEW cv \in Abi
    PROVE  EpilogueIs(cv)
<1> DEFINE d == Saves(cv)
           saved == Reverse(SavedRegs(cv))
           s1 == <<Unwind>>
           s2 == [k \in 1 .. 8 |-> StoreTo(R(k - 1), k - 1)]
           s3 == [k \in 1 .. d |-> Pop(saved[k])]
           s4 == <<Ret>>
<1>1. d \in Nat
    BY DEF Saves
<1>2. Len(SavedRegs(cv)) = d
    BY SavedRegsAre DEF SavedIs
<1>3. Len(saved) = d /\ \A k \in 1 .. d : saved[k] = SavedRegs(cv)[d + 1 - k]
    <2>1. saved = [i \in 1 .. d |-> SavedRegs(cv)[(d - i) + 1]]
        BY <1>2 DEF Reverse
    <2>2. \A k \in 1 .. d : (d - k) + 1 = d + 1 - k
        BY <1>1
    <2>3. saved \in Seq({saved[k] : k \in 1 .. d}) /\ Len(saved) = d
        <3>1. Listing(saved, d)
            BY <1>1, <2>1 DEF Listing
        <3>2. \A k \in 1 .. d : saved[k] \in {saved[i] : i \in 1 .. d}
            OBVIOUS
        <3> HIDE DEF saved
        <3> QED
            BY <3>1, <3>2, ListingIsSeq
    <2> QED
        BY <2>1, <2>2, <2>3
<1>4. code_epilogue(cv) = ((s1 \o s2) \o s3) \o s4
    BY <1>3 DEF code_epilogue, Unwind, Ret
<1>5. Listing(s1, 1) /\ s1[1] = Unwind
    BY DEF Listing
<1>6. Listing(s2, 8) /\ \A k \in 1 .. 8 : s2[k] = StoreTo(R(k - 1), k - 1)
    BY DEF Listing
<1>7. Listing(s3, d) /\ \A k \in 1 .. d : s3[k] = Pop(SavedRegs(cv)[d + 1 - k])
    BY <1>1, <1>3 DEF Listing
<1>8. Listing(s4, 1) /\ s4[1] = Ret
    BY DEF Listing
<1> HIDE DEF d, saved, s1, s2, s3, s4
<1>9. Appended(s1, 1, s2, 8)
    BY <1>5, <1>6, Concat
<1>10. PICK t12 : t12 = s1 \o s2
    OBVIOUS
<1>11. /\ Listing(t12, 9) /\ t12[1] = Unwind
       /\ \A k \in 1 .. 8 : t12[1 + k] = StoreTo(R(k - 1), k - 1)
    <2>1. Listing(t12, 9)
        BY <1>9, <1>10 DEF Appended
    <2>2. \A i \in 1 .. 1 : t12[i] = s1[i]
        BY <1>9, <1>10 DEF Appended
    <2>3. \A i \in 1 .. 8 : t12[1 + i] = s2[i]
        BY <1>9, <1>10 DEF Appended
    <2> QED
        BY <1>5, <1>6, <2>1, <2>2, <2>3
<1>12. Appended(t12, 9, s3, d)
    BY <1>7, <1>11, Concat
<1>13. PICK t13, n13 : t13 = t12 \o s3 /\ n13 = 9 + d
    OBVIOUS
<1>14. Appended(t13, n13, s4, 1)
    <2>1. Listing(t13, n13)
        BY <1>12, <1>13 DEF Appended
    <2> QED
        BY <1>8, <2>1, Concat
<1>15. PICK t : t = code_epilogue(cv) /\ t = t13 \o s4
    BY <1>4, <1>10, <1>13
<1>16. Listing(t, d + 10)
    <2>1. n13 + 1 = d + 10
        BY <1>1, <1>13
    <2> QED
        BY <1>14, <1>15, <2>1 DEF Appended
<1>17. \A i \in 1 .. n13 : t[i] = t13[i]
    BY <1>14, <1>15 DEF Appended
<1>18. \A i \in 1 .. 9 : t[i] = t12[i]
    <2>1. \A i \in 1 .. 9 : i \in 1 .. n13
        BY <1>1, <1>13
    <2> QED
        BY <1>12, <1>13, <1>17, <2>1 DEF Appended
<1>19. \A k \in 1 .. d : t[9 + k] = Pop(SavedRegs(cv)[d + 1 - k])
    <2>1. \A k \in 1 .. d : 9 + k \in 1 .. n13
        BY <1>1, <1>13
    <2>2. \A k \in 1 .. d : t13[9 + k] = s3[k]
        BY <1>12, <1>13 DEF Appended
    <2> QED
        BY <1>7, <1>17, <2>1, <2>2
<1>20. t[10 + d] = Ret
    <2>1. t[n13 + 1] = s4[1] /\ n13 + 1 = 10 + d
        BY <1>1, <1>13, <1>14, <1>15 DEF Appended
    <2> QED
        BY <1>8, <2>1
<1>21. \A k \in 1 .. 8 : t[1 + k] = StoreTo(R(k - 1), k - 1)
    BY <1>11, <1>18
<1>22. t[1] = Unwind
    BY <1>11, <1>18
<1> QED
    BY <1>15, <1>16, <1>19, <1>20, <1>21, <1>22 DEF EpilogueIs, d, Post

(* A program of the first phase, with its pushes.                          *)
Storing(p) == compile_program("reg", p) \o code_store

(* A program of the first phase, followed by the pushes of code_store.     *)
LEMMA StoringIs ==
    ASSUME NEW p \in Program
    PROVE  /\ Listing(Storing(p), 31)
           /\ Emission(compile_program("reg", p), "reg", p, 10)
           /\ \A o \in 1 .. 23 : Storing(p)[o] = compile_program("reg", p)[o]
           /\ \A k \in 1 .. 8 : Storing(p)[23 + k] = Push(R(k - 1))
<1>1. Emission(compile_program("reg", p), "reg", p, 10)
    BY ProgramEmitted DEF Phases
<1>2. Listing(compile_program("reg", p), 23)
    <2>1. Begin("reg", 10) = 23
        BY DEF Begin
    <2> QED
        BY <1>1, <2>1 DEF Emission
<1>3. Listing(code_store, 8) /\ \A k \in 1 .. 8 : code_store[k] = Push(R(k - 1))
    BY DEF code_store, Listing
<1>4. Appended(compile_program("reg", p), 23, code_store, 8)
    BY <1>2, <1>3, Concat
<1>5. PICK s : s = Storing(p) /\ s = compile_program("reg", p) \o code_store
    BY DEF Storing
<1>6. Listing(s, 31)
    <2>1. 23 + 8 = 31
        OBVIOUS
    <2> QED
        BY <1>4, <1>5, <2>1 DEF Appended
<1>7. \A o \in 1 .. 23 : s[o] = compile_program("reg", p)[o]
    BY <1>4, <1>5 DEF Appended
<1>8. \A k \in 1 .. 8 : s[23 + k] = Push(R(k - 1))
    BY <1>3, <1>4, <1>5 DEF Appended
<1> QED
    BY <1>1, <1>5, <1>6, <1>7, <1>8

(* A program of the second phase.                                          *)
LEMMA MemIs ==
    ASSUME NEW p \in Program
    PROVE  /\ Listing(compile_program("mem", p), 37)
           /\ Emission(compile_program("mem", p), "mem", p, 10)
<1>1. Emission(compile_program("mem", p), "mem", p, 10)
    BY ProgramEmitted DEF Phases
<1>2. Begin("mem", 10) = 37
    BY DEF Begin
<1> QED
    BY <1>1, <1>2 DEF Emission

(* The sections of the code, and where each starts.                        *)
Listed(list, n) == n \in Nat \ {0} /\ list \in [0 .. n - 1 -> Program]
SectionsAre(s, cv, list, n) ==
    /\ Listing(s, 2 * n + 3)
    /\ s[1] = code_prologue(cv)
    /\ \A k \in 1 .. n : s[1 + k] = Storing(list[k - 1])
    /\ s[n + 2] = <<ClearBc>>
    /\ \A k \in 1 .. n : s[n + 2 + k] = compile_program("mem", list[k - 1])
    /\ s[2 * n + 3] = code_epilogue(cv)

(* The sections of the code in their order.                                *)
LEMMA TheSections ==
    ASSUME NEW cv \in Abi, NEW list, NEW n, Listed(list, n)
    PROVE  SectionsAre(Sections(cv, list), cv, list, n)
<1> DEFINE s1 == <<code_prologue(cv)>>
           s2 == [k \in 1 .. n |-> Storing(list[k - 1])]
           s3 == <<<<ClearBc>>>>
           s4 == [k \in 1 .. n |-> compile_program("mem", list[k - 1])]
           s5 == <<code_epilogue(cv)>>
<1>0. n \in Nat /\ Cardinality(DOMAIN list) = n
    BY FS_Interval DEF Listed
<1>1. Sections(cv, list) = (((s1 \o s2) \o s3) \o s4) \o s5
    BY <1>0 DEF Sections, Storing
<1>2. Listing(s1, 1) /\ s1[1] = code_prologue(cv)
    BY DEF Listing
<1>3. Listing(s2, n) /\ \A k \in 1 .. n : s2[k] = Storing(list[k - 1])
    BY <1>0 DEF Listing
<1>4. Listing(s3, 1) /\ s3[1] = <<ClearBc>>
    BY DEF Listing
<1>5. Listing(s4, n) /\ \A k \in 1 .. n : s4[k] = compile_program("mem", list[k - 1])
    BY <1>0 DEF Listing
<1>6. Listing(s5, 1) /\ s5[1] = code_epilogue(cv)
    BY DEF Listing
<1> HIDE DEF s1, s2, s3, s4, s5
<1>7. PICK t2, n2 : t2 = s1 \o s2 /\ n2 = 1 + n
    OBVIOUS
<1>8. Listing(t2, n2) /\ t2[1] = code_prologue(cv) /\ \A k \in 1 .. n : t2[1 + k] = s2[k]
    <2>1. Appended(s1, 1, s2, n)
        BY <1>2, <1>3, Concat
    <2>2. \A i \in 1 .. 1 : t2[i] = s1[i]
        BY <1>7, <2>1 DEF Appended
    <2>3. Listing(t2, n2) /\ \A k \in 1 .. n : t2[1 + k] = s2[k]
        BY <1>7, <2>1 DEF Appended
    <2> QED
        BY <1>2, <2>2, <2>3
<1>9. PICK t3, n3 : t3 = t2 \o s3 /\ n3 = n2 + 1
    OBVIOUS
<1>10. Listing(t3, n3) /\ (\A i \in 1 .. n2 : t3[i] = t2[i]) /\ t3[n3] = <<ClearBc>>
    <2>1. Appended(t2, n2, s3, 1)
        BY <1>4, <1>8, Concat
    <2>2. \A i \in 1 .. 1 : t3[n2 + i] = s3[i]
        BY <1>9, <2>1 DEF Appended
    <2>3. Listing(t3, n3) /\ \A i \in 1 .. n2 : t3[i] = t2[i]
        BY <1>9, <2>1 DEF Appended
    <2>4. t3[n2 + 1] = s3[1]
        BY <2>2
    <2> QED
        BY <1>4, <1>9, <2>3, <2>4
<1>11. PICK t4, n4 : t4 = t3 \o s4 /\ n4 = n3 + n
    OBVIOUS
<1>12. Listing(t4, n4) /\ (\A i \in 1 .. n3 : t4[i] = t3[i]) /\ \A k \in 1 .. n : t4[n3 + k] = s4[k]
    <2>1. Appended(t3, n3, s4, n)
        BY <1>5, <1>10, Concat
    <2> QED
        BY <1>11, <2>1 DEF Appended
<1>13. PICK t5 : t5 = t4 \o s5 /\ t5 = Sections(cv, list)
    BY <1>1, <1>7, <1>9, <1>11
<1>14. Listing(t5, n4 + 1) /\ (\A i \in 1 .. n4 : t5[i] = t4[i]) /\ t5[n4 + 1] = code_epilogue(cv)
    <2>1. Appended(t4, n4, s5, 1)
        BY <1>6, <1>12, Concat
    <2>2. \A i \in 1 .. 1 : t5[n4 + i] = s5[i]
        BY <1>13, <2>1 DEF Appended
    <2> QED
        BY <1>6, <1>13, <2>1, <2>2 DEF Appended
<1>15. n2 = n + 1 /\ n3 = n + 2 /\ n4 = 2 * n + 2 /\ n4 + 1 = 2 * n + 3
    BY <1>0, <1>7, <1>9, <1>11
<1>16. t5[1] = code_prologue(cv)
    <2>1. 1 \in 1 .. n2 /\ 1 \in 1 .. n3 /\ 1 \in 1 .. n4
        BY <1>0, <1>15
    <2> QED
        BY <1>8, <1>10, <1>12, <1>14, <2>1
<1>17. ASSUME NEW k \in 1 .. n PROVE t5[1 + k] = Storing(list[k - 1])
    <2>1. 1 + k \in 1 .. n2 /\ 1 + k \in 1 .. n3 /\ 1 + k \in 1 .. n4
        BY <1>0, <1>15
    <2> QED
        BY <1>3, <1>8, <1>10, <1>12, <1>14, <2>1
<1>18. t5[n + 2] = <<ClearBc>>
    <2>1. n3 \in 1 .. n3 /\ n3 \in 1 .. n4
        BY <1>0, <1>15
    <2>2. t5[n3] = <<ClearBc>>
        BY <1>10, <1>12, <1>14, <2>1
    <2> QED
        BY <1>15, <2>2
<1>19. ASSUME NEW k \in 1 .. n PROVE t5[n + 2 + k] = compile_program("mem", list[k - 1])
    <2>1. n3 + k \in 1 .. n4 /\ n3 + k = n + 2 + k
        BY <1>0, <1>15
    <2>2. t5[n3 + k] = compile_program("mem", list[k - 1])
        BY <1>5, <1>12, <1>14, <2>1
    <2> QED
        BY <2>1, <2>2
<1>20. Listing(t5, 2 * n + 3) /\ t5[2 * n + 3] = code_epilogue(cv)
    BY <1>14, <1>15
<1> QED
    BY <1>13, <1>16, <1>17, <1>18, <1>19, <1>20 DEF SectionsAre

Starts(cv, n) ==
    [q \in 1 .. 2 * n + 4 |->
        IF q = 1 THEN 0
        ELSE IF q <= n + 2 THEN Pre(cv) + 31 * (q - 2)
        ELSE IF q <= 2 * n + 3 THEN Pre(cv) + 31 * n + 1 + 37 * (q - n - 3)
        ELSE Pre(cv) + 31 * n + 1 + 37 * n + Post(cv)]

StartsAt(S, a, b, n) ==
    /\ a \in Nat /\ b \in Nat
    /\ S[1] = 0 /\ S[2] = a
    /\ \A k \in 1 .. n : S[1 + k] = a + 31 * (k - 1) /\ S[2 + k] = a + 31 * (k - 1) + 31
    /\ S[n + 2] = a + 31 * n /\ S[n + 3] = a + 31 * n + 1
    /\ \A k \in 1 .. n : /\ S[n + 2 + k] = a + 31 * n + 1 + 37 * (k - 1)
                         /\ S[n + 3 + k] = a + 31 * n + 1 + 37 * (k - 1) + 37
    /\ S[2 * n + 3] = a + 31 * n + 1 + 37 * n
    /\ S[2 * n + 4] = a + 31 * n + 1 + 37 * n + b

(* Where the sections start.                                               *)
LEMMA StartsAre ==
    ASSUME NEW cv \in Abi, NEW n \in Nat \ {0}
    PROVE  StartsAt(Starts(cv, n), Pre(cv), Post(cv), n)
<1>1. Pre(cv) \in Nat /\ Post(cv) \in Nat
    BY DEF Pre, Post, First, Saves
<1>2. PICK a, b : a = Pre(cv) /\ b = Post(cv) /\ a \in Nat /\ b \in Nat
    BY <1>1
<1>3. PICK S : S = Starts(cv, n)
    OBVIOUS
<1>4. \A q \in 1 .. 2 * n + 4 : S[q] =
        IF q = 1 THEN 0
        ELSE IF q <= n + 2 THEN a + 31 * (q - 2)
        ELSE IF q <= 2 * n + 3 THEN a + 31 * n + 1 + 37 * (q - n - 3)
        ELSE a + 31 * n + 1 + 37 * n + b
    BY <1>2, <1>3 DEF Starts
<1>5. S[1] = 0 /\ S[2] = a
    <2>1. 1 \in 1 .. 2 * n + 4 /\ 2 \in 1 .. 2 * n + 4 /\ 2 <= n + 2 /\ a + 31 * (2 - 2) = a
        BY <1>2
    <2> QED
        BY <1>4, <2>1
<1>6. ASSUME NEW k \in 1 .. n
      PROVE  S[1 + k] = a + 31 * (k - 1) /\ S[2 + k] = a + 31 * (k - 1) + 31
    <2>1. /\ 1 + k \in 1 .. 2 * n + 4 /\ 2 + k \in 1 .. 2 * n + 4
          /\ 1 + k # 1 /\ 2 + k # 1 /\ 1 + k <= n + 2 /\ 2 + k <= n + 2
          /\ (1 + k) - 2 = k - 1 /\ a + 31 * ((2 + k) - 2) = a + 31 * (k - 1) + 31
        BY <1>2
    <2> QED
        BY <1>4, <2>1
<1>7. S[n + 2] = a + 31 * n
    <2>1. n + 2 \in 1 .. 2 * n + 4 /\ n + 2 # 1 /\ n + 2 <= n + 2 /\ (n + 2) - 2 = n
        OBVIOUS
    <2> QED
        BY <1>4, <2>1
<1>8. S[n + 3] = a + 31 * n + 1
    <2>1. /\ n + 3 \in 1 .. 2 * n + 4 /\ n + 3 # 1 /\ ~(n + 3 <= n + 2) /\ n + 3 <= 2 * n + 3
          /\ a + 31 * n + 1 + 37 * ((n + 3) - n - 3) = a + 31 * n + 1
        BY <1>2
    <2> QED
        BY <1>4, <2>1
<1>9. ASSUME NEW k \in 1 .. n
      PROVE  /\ S[n + 2 + k] = a + 31 * n + 1 + 37 * (k - 1)
             /\ S[n + 3 + k] = a + 31 * n + 1 + 37 * (k - 1) + 37
    <2>1. /\ n + 2 + k \in 1 .. 2 * n + 4 /\ n + 2 + k # 1 /\ ~(n + 2 + k <= n + 2)
          /\ n + 2 + k <= 2 * n + 3 /\ (n + 2 + k) - n - 3 = k - 1
        OBVIOUS
    <2>2. /\ n + 3 + k \in 1 .. 2 * n + 4 /\ n + 3 + k # 1 /\ ~(n + 3 + k <= n + 2)
          /\ n + 3 + k <= 2 * n + 3
          /\ a + 31 * n + 1 + 37 * ((n + 3 + k) - n - 3) = a + 31 * n + 1 + 37 * (k - 1) + 37
        BY <1>2
    <2> QED
        BY <1>4, <2>1, <2>2
<1>10. S[2 * n + 3] = a + 31 * n + 1 + 37 * n
    <2>1. /\ 2 * n + 3 \in 1 .. 2 * n + 4 /\ 2 * n + 3 # 1 /\ ~(2 * n + 3 <= n + 2)
          /\ 2 * n + 3 <= 2 * n + 3 /\ (2 * n + 3) - n - 3 = n
        OBVIOUS
    <2> QED
        BY <1>4, <2>1
<1>11. S[2 * n + 4] = a + 31 * n + 1 + 37 * n + b
    <2>1. /\ 2 * n + 4 \in 1 .. 2 * n + 4 /\ 2 * n + 4 # 1 /\ ~(2 * n + 4 <= n + 2)
          /\ ~(2 * n + 4 <= 2 * n + 3)
        OBVIOUS
    <2> QED
        BY <1>4, <2>1
<1> QED
    <2>1. StartsAt(S, a, b, n)
        BY <1>2, <1>5, <1>6, <1>7, <1>8, <1>9, <1>10, <1>11 DEF StartsAt
    <2> QED
        BY <1>2, <1>3, <2>1

(* The code in segments: the prologue, n programs of the first phase, the  *)
(* last with the instruction that restores the loops, n programs of the    *)
(* second phase, the epilogue.                                             *)
Span(cv, n, e) ==
    IF e = 0 THEN Pre(cv) ELSE IF e < n THEN 31 ELSE IF e = n THEN 32
    ELSE IF e <= 2 * n THEN 37 ELSE Post(cv)
Meet(cv, n, e) ==
    IF e = 0 THEN 0 ELSE IF e <= n THEN Pre(cv) + 31 * (e - 1)
    ELSE IF e <= 2 * n + 1 THEN Pre(cv) + 31 * n + 1 + 37 * (e - n - 1)
    ELSE Pre(cv) + 31 * n + 1 + 37 * n + Post(cv)
Seg(cv, list, n, e) ==
    IF e = 0 THEN code_prologue(cv)
    ELSE IF e < n THEN Storing(list[e - 1])
    ELSE IF e = n THEN Storing(list[e - 1]) \o <<ClearBc>>
    ELSE IF e <= 2 * n THEN compile_program("mem", list[e - n - 1])
    ELSE code_epilogue(cv)

(* A segment ends where the next one begins.                               *)
LEMMA MeetNext ==
    ASSUME NEW cv \in Abi, NEW n \in Nat \ {0}, NEW e \in 0 .. 2 * n + 1
    PROVE  /\ Meet(cv, n, e) \in Nat /\ Span(cv, n, e) \in Nat \ {0}
           /\ Meet(cv, n, e + 1) = Meet(cv, n, e) + Span(cv, n, e)
<1>1. PICK a, b : a = Pre(cv) /\ b = Post(cv) /\ a \in Nat \ {0} /\ b \in Nat \ {0}
    BY DEF Pre, Post, First, Saves
<1>2. CASE e = 0
    BY <1>1, <1>2 DEF Meet, Span
<1>3. CASE e \in 1 .. n - 1
    BY <1>1, <1>3 DEF Meet, Span
<1>4. CASE e = n
    BY <1>1, <1>4 DEF Meet, Span
<1>5. CASE e \in n + 1 .. 2 * n
    BY <1>1, <1>5 DEF Meet, Span
<1>6. CASE e = 2 * n + 1
    BY <1>1, <1>6 DEF Meet, Span
<1> QED
    BY <1>2, <1>3, <1>4, <1>5, <1>6

(* Segments are in order.                                                  *)
LEMMA MeetOrder ==
    ASSUME NEW cv \in Abi, NEW n \in Nat \ {0}, NEW e \in 0 .. 2 * n + 1, NEW f \in 0 .. 2 * n + 2,
           e < f
    PROVE  Meet(cv, n, e) + Span(cv, n, e) <= Meet(cv, n, f) /\ Meet(cv, n, f) \in Nat
<1>1. \A i \in 0 .. 2 * n + 2 : Meet(cv, n, i) \in Nat
    <2>1. \A i \in 0 .. 2 * n + 1 : Meet(cv, n, i) \in Nat /\ Meet(cv, n, i + 1) \in Nat
        <3> SUFFICES ASSUME NEW i \in 0 .. 2 * n + 1
                     PROVE  Meet(cv, n, i) \in Nat /\ Meet(cv, n, i + 1) \in Nat
            OBVIOUS
        <3>1. /\ Meet(cv, n, i) \in Nat /\ Span(cv, n, i) \in Nat \ {0}
              /\ Meet(cv, n, i + 1) = Meet(cv, n, i) + Span(cv, n, i)
            BY MeetNext
        <3> QED
            BY <3>1
    <2> SUFFICES ASSUME NEW i \in 0 .. 2 * n + 2 PROVE Meet(cv, n, i) \in Nat
        OBVIOUS
    <2>2. CASE i = 0
        BY <2>2 DEF Meet
    <2>3. CASE i # 0
        <3>1. PICK j : j = i - 1
            OBVIOUS
        <3>2. j \in 0 .. 2 * n + 1 /\ j + 1 = i
            BY <2>3, <3>1
        <3> QED
            BY <2>1, <3>2
    <2> QED
        BY <2>2, <2>3
<1> DEFINE S == {i \in e + 1 .. 2 * n + 2 : ~(Meet(cv, n, e) + Span(cv, n, e) <= Meet(cv, n, i))}
<1> SUFFICES S = {}
    BY <1>1
<1> SUFFICES ASSUME S # {} PROVE FALSE
    OBVIOUS
<1>2. PICK i \in S : \A y \in S : i <= y
    <2>1. S \subseteq Nat
        OBVIOUS
    <2> HIDE DEF S
    <2> QED
        BY <2>1, LeastExists
<1>3. Meet(cv, n, e + 1) = Meet(cv, n, e) + Span(cv, n, e)
    BY MeetNext
<1>4. i # e + 1
    BY <1>1, <1>3
<1>5. PICK j : j = i - 1
    OBVIOUS
<1>6. j \in e + 1 .. 2 * n + 2 /\ ~(i <= j) /\ j + 1 = i /\ j \in 0 .. 2 * n + 1 /\ i \in 0 .. 2 * n + 2
    BY <1>4, <1>5
<1>7. Meet(cv, n, e) + Span(cv, n, e) <= Meet(cv, n, j)
    BY <1>2, <1>6
<1>8. Meet(cv, n, i) = Meet(cv, n, j) + Span(cv, n, j) /\ Span(cv, n, j) \in Nat
    BY <1>6, MeetNext
<1> QED
    BY <1>1, <1>2, <1>6, <1>7, <1>8, MeetNext

(* Every instruction is in a segment.                                      *)
LEMMA Covered ==
    ASSUME NEW cv \in Abi, NEW n \in Nat \ {0}, NEW i \in 1 .. Meet(cv, n, 2 * n + 2)
    PROVE  \E e \in 0 .. 2 * n + 1 : \E o \in 1 .. Span(cv, n, e) : i = Meet(cv, n, e) + o
<1> DEFINE S == {f \in 0 .. 2 * n + 2 : i <= Meet(cv, n, f)}
<1>1. 2 * n + 2 \in S
    OBVIOUS
<1>2. PICK f \in S : \A y \in S : f <= y
    <2>1. S \subseteq Nat
        OBVIOUS
    <2> HIDE DEF S
    <2> QED
        BY <1>1, <2>1, LeastExists
<1>3. f \in 0 .. 2 * n + 2 /\ i <= Meet(cv, n, f) /\ i >= 1 /\ i \in Int
    OBVIOUS
<1>4. f # 0
    BY <1>3 DEF Meet
<1>5. PICK e : e = f - 1
    OBVIOUS
<1>6. e \in 0 .. 2 * n + 1 /\ e + 1 = f /\ ~(f <= e) /\ e \in 0 .. 2 * n + 2
    BY <1>3, <1>4, <1>5
<1>7. ~(i <= Meet(cv, n, e))
    BY <1>2, <1>6
<1>8. /\ Meet(cv, n, e) \in Nat /\ Span(cv, n, e) \in Nat
      /\ Meet(cv, n, f) = Meet(cv, n, e) + Span(cv, n, e)
    BY <1>6, MeetNext
<1>9. PICK o : o = i - Meet(cv, n, e)
    OBVIOUS
<1>10. o \in 1 .. Span(cv, n, e) /\ i = Meet(cv, n, e) + o
    BY <1>3, <1>7, <1>8, <1>9
<1> QED
    BY <1>6, <1>10

(* The code is the segments, one after another.                            *)
Code(cv, list) == FlattenSeq(Sections(cv, list))
Assembled(c, cv, list, n) ==
    /\ Listing(c, Meet(cv, n, 2 * n + 2))
    /\ \A e \in 0 .. 2 * n + 1 : \A o \in 1 .. Span(cv, n, e) :
          c[Meet(cv, n, e) + o] = Seg(cv, list, n, e)[o]

(* The sections follow one another.                                        *)
LEMMA SectionsPieces ==
    ASSUME NEW cv \in Abi, NEW list, NEW n, Listed(list, n),
           NEW s, SectionsAre(s, cv, list, n)
    PROVE  Pieces(s, 2 * n + 3, Starts(cv, n))
<1>0. n \in Nat \ {0} /\ \A k \in 1 .. n : list[k - 1] \in Program
    BY DEF Listed
<1>1. PICK S, a, b : S = Starts(cv, n) /\ a = Pre(cv) /\ b = Post(cv)
    OBVIOUS
<1>2. /\ a \in Nat /\ b \in Nat
      /\ S[1] = 0 /\ S[2] = a
      /\ \A k \in 1 .. n : S[1 + k] = a + 31 * (k - 1) /\ S[2 + k] = a + 31 * (k - 1) + 31
      /\ S[n + 2] = a + 31 * n /\ S[n + 3] = a + 31 * n + 1
      /\ \A k \in 1 .. n : /\ S[n + 2 + k] = a + 31 * n + 1 + 37 * (k - 1)
                           /\ S[n + 3 + k] = a + 31 * n + 1 + 37 * (k - 1) + 37
      /\ S[2 * n + 3] = a + 31 * n + 1 + 37 * n
      /\ S[2 * n + 4] = a + 31 * n + 1 + 37 * n + b
    <2>1. StartsAt(S, a, b, n)
        BY <1>0, <1>1, StartsAre
    <2> QED
        BY <2>1 DEF StartsAt
<1> DEFINE Good(q) == /\ S[q] \in Nat /\ S[q + 1] \in Nat /\ S[q] <= S[q + 1]
                      /\ Listing(s[q], S[q + 1] - S[q])
<1>3. Good(1)
    <2>1. Listing(code_prologue(cv), a)
        BY <1>1, ThePrologue DEF PrologueIs
    <2>2. S[1 + 1] - S[1] = a /\ 1 + 1 = 2
        BY <1>2
    <2> QED
        BY <1>2, <2>1, <2>2 DEF SectionsAre
<1>4. ASSUME NEW k \in 1 .. n PROVE Good(1 + k)
    <2>1. PICK u : u = a + 31 * (k - 1)
        OBVIOUS
    <2>2. u \in Nat /\ S[1 + k] = u /\ S[2 + k] = u + 31 /\ (u + 31) - u = 31 /\ (1 + k) + 1 = 2 + k
        BY <1>2, <2>1
    <2>3. Listing(Storing(list[k - 1]), 31) /\ s[1 + k] = Storing(list[k - 1])
        BY <1>0, StoringIs DEF SectionsAre
    <2> QED
        BY <2>2, <2>3
<1>5. Good(n + 2)
    <2>1. PICK u : u = a + 31 * n
        OBVIOUS
    <2>2. u \in Nat /\ S[n + 2] = u /\ S[n + 3] = u + 1 /\ (u + 1) - u = 1 /\ (n + 2) + 1 = n + 3
        BY <1>0, <1>2, <2>1
    <2>3. Listing(<<ClearBc>>, 1) /\ s[n + 2] = <<ClearBc>>
        BY DEF SectionsAre, Listing
    <2> QED
        BY <2>2, <2>3
<1>6. ASSUME NEW k \in 1 .. n PROVE Good(n + 2 + k)
    <2>1. PICK u : u = a + 31 * n + 1 + 37 * (k - 1)
        OBVIOUS
    <2>2. /\ u \in Nat /\ S[n + 2 + k] = u /\ S[n + 3 + k] = u + 37 /\ (u + 37) - u = 37
          /\ (n + 2 + k) + 1 = n + 3 + k
        BY <1>0, <1>2, <2>1
    <2>3. /\ Listing(compile_program("mem", list[k - 1]), 37)
          /\ s[n + 2 + k] = compile_program("mem", list[k - 1])
        BY <1>0, MemIs DEF SectionsAre
    <2> QED
        BY <2>2, <2>3
<1>7. Good(2 * n + 3)
    <2>1. PICK u : u = a + 31 * n + 1 + 37 * n
        OBVIOUS
    <2>2. /\ u \in Nat /\ S[2 * n + 3] = u /\ S[2 * n + 4] = u + b /\ (u + b) - u = b
          /\ (2 * n + 3) + 1 = 2 * n + 4
        BY <1>0, <1>2, <2>1
    <2>3. Listing(code_epilogue(cv), b) /\ s[2 * n + 3] = code_epilogue(cv)
        BY <1>1, TheEpilogue DEF EpilogueIs, SectionsAre
    <2> QED
        BY <1>2, <2>2, <2>3
<1> HIDE DEF Good
<1>8. ASSUME NEW q \in 1 .. 2 * n + 3 PROVE Good(q)
    <2>1. CASE q = 1
        BY <1>3, <2>1
    <2>2. CASE q \in 2 .. n + 1
        <3>1. PICK k : k = q - 1
            OBVIOUS
        <3>2. k \in 1 .. n /\ 1 + k = q
            BY <1>0, <2>2, <3>1
        <3> QED
            BY <1>4, <3>2
    <2>3. CASE q = n + 2
        BY <1>5, <2>3
    <2>4. CASE q \in n + 3 .. 2 * n + 2
        <3>1. PICK k : k = q - n - 2
            OBVIOUS
        <3>2. k \in 1 .. n /\ n + 2 + k = q
            BY <1>0, <2>4, <3>1
        <3> QED
            BY <1>6, <3>2
    <2>5. CASE q = 2 * n + 3
        BY <1>7, <2>5
    <2> QED
        BY <1>0, <2>1, <2>2, <2>3, <2>4, <2>5
<1>9. 2 * n + 3 \in Nat \ {0} /\ Listing(s, 2 * n + 3)
    BY <1>0 DEF SectionsAre
<1> QED
    BY <1>1, <1>2, <1>8, <1>9 DEF Pieces, Good

(* The code is the segments one after the other.                           *)
LEMMA TheCode ==
    ASSUME NEW cv \in Abi, NEW list, NEW n, Listed(list, n)
    PROVE  Assembled(Code(cv, list), cv, list, n)
<1>0. n \in Nat \ {0} /\ \A k \in 1 .. n : list[k - 1] \in Program
    BY DEF Listed
<1>1. PICK S, a, b : S = Starts(cv, n) /\ a = Pre(cv) /\ b = Post(cv)
    OBVIOUS
<1>2. /\ a \in Nat /\ b \in Nat
      /\ S[1] = 0 /\ S[2] = a
      /\ \A k \in 1 .. n : S[1 + k] = a + 31 * (k - 1) /\ S[2 + k] = a + 31 * (k - 1) + 31
      /\ S[n + 2] = a + 31 * n /\ S[n + 3] = a + 31 * n + 1
      /\ \A k \in 1 .. n : /\ S[n + 2 + k] = a + 31 * n + 1 + 37 * (k - 1)
                           /\ S[n + 3 + k] = a + 31 * n + 1 + 37 * (k - 1) + 37
      /\ S[2 * n + 3] = a + 31 * n + 1 + 37 * n
      /\ S[2 * n + 4] = a + 31 * n + 1 + 37 * n + b
    <2>1. StartsAt(S, a, b, n)
        BY <1>0, <1>1, StartsAre
    <2> QED
        BY <2>1 DEF StartsAt
<1>3. PICK s : s = Sections(cv, list) /\ SectionsAre(s, cv, list, n)
    BY TheSections
<1>4. PICK c : c = Code(cv, list) /\ Chained(c, s, S, 2 * n + 3)
    <2>1. Pieces(s, 2 * n + 3, S)
        BY <1>1, <1>3, SectionsPieces
    <2> QED
        BY <1>3, <2>1, FlattenSeqPieces DEF Code
<1>5. Listing(c, Meet(cv, n, 2 * n + 2))
    <2>1. Listing(c, S[(2 * n + 3) + 1])
        BY <1>4 DEF Chained
    <2>2. (2 * n + 3) + 1 = 2 * n + 4
        BY <1>0
    <2>3. Meet(cv, n, 2 * n + 2) = a + 31 * n + 1 + 37 * n + b
        BY <1>0, <1>1 DEF Meet
    <2> QED
        BY <1>2, <2>1, <2>2, <2>3
<1>6. ASSUME NEW q \in 1 .. 2 * n + 3, NEW u \in Nat, NEW r \in Nat, S[q] = u, S[q + 1] = u + r,
             NEW o \in 1 .. r
      PROVE  c[u + o] = s[q][o]
    <2>1. S[q + 1] - S[q] = r
        BY <1>6
    <2> QED
        BY <1>4, <1>6, <2>1 DEF Chained
<1> DEFINE Good(e) == \A o \in 1 .. Span(cv, n, e) : c[Meet(cv, n, e) + o] = Seg(cv, list, n, e)[o]
<1>7. Good(0)
    <2>1. Span(cv, n, 0) = a /\ Meet(cv, n, 0) = 0 /\ Seg(cv, list, n, 0) = s[1]
        BY <1>1, <1>3 DEF Span, Meet, Seg, SectionsAre
    <2>2. 1 \in 1 .. 2 * n + 3 /\ S[1] = 0 /\ S[1 + 1] = 0 + a /\ 0 \in Nat
        BY <1>0, <1>2
    <2>3. \A o \in 1 .. a : c[0 + o] = s[1][o]
        BY <1>2, <1>6, <2>2
    <2> QED
        BY <2>1, <2>3
<1>8. ASSUME NEW e \in 1 .. n, NEW o \in 1 .. 31
      PROVE  c[Meet(cv, n, e) + o] = Storing(list[e - 1])[o]
    <2>1. PICK u, q : u = a + 31 * (e - 1) /\ q = 1 + e
        OBVIOUS
    <2>2. u \in Nat /\ S[q] = u /\ S[q + 1] = u + 31 /\ q \in 1 .. 2 * n + 3
        <3>1. q + 1 = 2 + e
            BY <2>1
        <3> QED
            BY <1>0, <1>2, <2>1, <3>1
    <2>3. Meet(cv, n, e) = u
        BY <1>0, <1>1, <2>1 DEF Meet
    <2>4. s[q] = Storing(list[e - 1])
        BY <1>3, <2>1 DEF SectionsAre
    <2> QED
        BY <1>6, <2>2, <2>3, <2>4
<1>9. ASSUME NEW e \in 1 .. n - 1 PROVE Good(e)
    <2>1. Span(cv, n, e) = 31 /\ Seg(cv, list, n, e) = Storing(list[e - 1]) /\ e \in 1 .. n
        BY <1>0 DEF Span, Seg
    <2> QED
        BY <1>8, <2>1
<1>10. Good(n)
    <2>1. PICK t : t = Storing(list[n - 1])
        OBVIOUS
    <2>2. Span(cv, n, n) = 32 /\ Seg(cv, list, n, n) = t \o <<ClearBc>> /\ n \in 1 .. n
        BY <1>0, <2>1 DEF Span, Seg
    <2>3. Listing(t, 31) /\ Listing(<<ClearBc>>, 1) /\ <<ClearBc>>[1] = ClearBc
        <3>1. Listing(t, 31)
            BY <1>0, <2>1, <2>2, StoringIs
        <3> QED
            BY <3>1 DEF Listing
    <2>4. Appended(t, 31, <<ClearBc>>, 1)
        BY <2>3, Concat
    <2>5. (\A o \in 1 .. 31 : (t \o <<ClearBc>>)[o] = t[o]) /\ (t \o <<ClearBc>>)[32] = ClearBc
        <3>1. \A o \in 1 .. 1 : (t \o <<ClearBc>>)[31 + o] = <<ClearBc>>[o]
            BY <2>4 DEF Appended
        <3>2. 31 + 1 = 32 /\ 1 \in 1 .. 1
            OBVIOUS
        <3> QED
            BY <2>3, <2>4, <3>1, <3>2 DEF Appended
    <2>6. ASSUME NEW o \in 1 .. 32 PROVE c[Meet(cv, n, n) + o] = (t \o <<ClearBc>>)[o]
        <3>1. CASE o # 32
            <4>1. o \in 1 .. 31
                BY <3>1
            <4> QED
                BY <1>8, <2>1, <2>2, <2>5, <4>1
        <3>2. CASE o = 32
            <4>1. PICK u : u = a + 31 * n
                OBVIOUS
            <4>2. /\ u \in Nat /\ S[n + 2] = u /\ S[(n + 2) + 1] = u + 1 /\ n + 2 \in 1 .. 2 * n + 3
                  /\ Meet(cv, n, n) + 32 = u + 1
                <5>1. (n + 2) + 1 = n + 3
                    BY <1>0
                <5>2. Meet(cv, n, n) = a + 31 * (n - 1)
                    BY <1>0, <1>1 DEF Meet
                <5> QED
                    BY <1>0, <1>2, <4>1, <5>1, <5>2
            <4>3. s[n + 2] = <<ClearBc>>
                BY <1>3 DEF SectionsAre
            <4>4. 1 \in 1 .. 1 /\ 1 \in Nat
                OBVIOUS
            <4>5. c[u + 1] = s[n + 2][1]
                BY <1>6, <4>2, <4>4
            <4> QED
                BY <2>3, <2>5, <3>2, <4>2, <4>3, <4>5
        <3> QED
            BY <3>1, <3>2
    <2> QED
        BY <2>2, <2>6
<1>11. ASSUME NEW e \in n + 1 .. 2 * n PROVE Good(e)
    <2>1. PICK k : k = e - n
        OBVIOUS
    <2>2. k \in 1 .. n /\ e - n - 1 = k - 1
        BY <1>0, <2>1
    <2>3. PICK u, q : u = a + 31 * n + 1 + 37 * (k - 1) /\ q = n + 2 + k
        OBVIOUS
    <2>4. u \in Nat /\ S[q] = u /\ S[q + 1] = u + 37 /\ q \in 1 .. 2 * n + 3
        <3>1. q + 1 = n + 3 + k
            BY <1>0, <2>2, <2>3
        <3> QED
            BY <1>0, <1>2, <2>2, <2>3, <3>1
    <2>5. Span(cv, n, e) = 37 /\ Meet(cv, n, e) = u
          /\ Seg(cv, list, n, e) = compile_program("mem", list[k - 1])
        BY <1>0, <1>1, <2>2, <2>3 DEF Span, Meet, Seg
    <2>6. s[q] = compile_program("mem", list[k - 1])
        BY <1>3, <2>2, <2>3 DEF SectionsAre
    <2> QED
        BY <1>6, <2>4, <2>5, <2>6
<1>12. Good(2 * n + 1)
    <2>1. PICK u, q : u = a + 31 * n + 1 + 37 * n /\ q = 2 * n + 3
        OBVIOUS
    <2>2. u \in Nat /\ S[q] = u /\ S[q + 1] = u + b /\ q \in 1 .. 2 * n + 3
        <3>1. q + 1 = 2 * n + 4
            BY <1>0, <2>1
        <3> QED
            BY <1>0, <1>2, <2>1, <3>1
    <2>3. Span(cv, n, 2 * n + 1) = b /\ Meet(cv, n, 2 * n + 1) = u
          /\ Seg(cv, list, n, 2 * n + 1) = code_epilogue(cv)
        BY <1>0, <1>1, <2>1 DEF Span, Meet, Seg
    <2>4. s[q] = code_epilogue(cv)
        BY <1>3, <2>1 DEF SectionsAre
    <2> QED
        BY <1>2, <1>6, <2>2, <2>3, <2>4
<1> HIDE DEF Good
<1>13. ASSUME NEW e \in 0 .. 2 * n + 1 PROVE Good(e)
    <2>1. e = 0 \/ e \in 1 .. n - 1 \/ e = n \/ e \in n + 1 .. 2 * n \/ e = 2 * n + 1
        BY <1>0
    <2> QED
        BY <1>7, <1>9, <1>10, <1>11, <1>12, <2>1
<1> QED
    BY <1>4, <1>5, <1>13 DEF Assembled, Good

-----------------------------------------------------------------------------
(* The bytes of the code: where its instructions are and how many it has.  *)

(* Every instruction of a program belongs to one of its lines.             *)
LEMMA LineOf ==
    ASSUME NEW ph \in Phases, NEW m \in 0 .. 10, NEW i \in 1 .. Begin(ph, m)
    PROVE  \E k \in 0 .. m - 1 : \E o \in 1 .. Size(ph, k) : i = Begin(ph, k) + o
<1> DEFINE S == {f \in 0 .. m : i <= Begin(ph, f)}
<1>1. m \in S
    OBVIOUS
<1>2. PICK f \in S : \A y \in S : f <= y
    <2>1. S \subseteq Nat
        OBVIOUS
    <2> HIDE DEF S
    <2> QED
        BY <1>1, <2>1, LeastExists
<1>3. f \in 0 .. m /\ i <= Begin(ph, f) /\ i >= 1 /\ i \in Int
    OBVIOUS
<1>4. f # 0
    BY <1>3 DEF Begin
<1>5. PICK k : k = f - 1
    OBVIOUS
<1>6. k \in 0 .. m - 1 /\ k \in 0 .. 9 /\ k + 1 = f /\ ~(f <= k) /\ k \in 0 .. m
    BY <1>3, <1>4, <1>5
<1>7. ~(i <= Begin(ph, k))
    BY <1>2, <1>6
<1>8. /\ Begin(ph, k) \in Nat /\ Size(ph, k) \in Nat
      /\ Begin(ph, f) = Begin(ph, k) + Size(ph, k)
    BY <1>6, BeginNext
<1>9. PICK o : o = i - Begin(ph, k)
    OBVIOUS
<1>10. o \in 1 .. Size(ph, k) /\ i = Begin(ph, k) + o
    BY <1>3, <1>7, <1>8, <1>9
<1> QED
    BY <1>6, <1>10

(* No instruction of a program is empty.                                   *)
LEMMA EmissionLengths ==
    ASSUME NEW p \in Program, NEW ph \in Phases, NEW f, NEW m \in 0 .. 10, Emission(f, ph, p, m),
           NEW i \in 1 .. Begin(ph, m)
    PROVE  f[i].len \in Nat \ {0}
<1>1. PICK k \in 0 .. m - 1 : \E o \in 1 .. Size(ph, k) : i = Begin(ph, k) + o
    BY LineOf
<1>2. PICK o \in 1 .. Size(ph, k) : i = Begin(ph, k) + o
    BY <1>1
<1>3. k \in 0 .. 9
    OBVIOUS
<1>4. f[i] = Piece(ph, p, k)[o]
    BY <1>2 DEF Emission
<1>5. Piece(ph, p, k)[o].len \in Nat \ {0}
    BY <1>3, LengthsPositive, PieceLengths
<1> QED
    BY <1>4, <1>5

(* No push or pop is empty.                                                *)
LEMMA PushPopLengths ==
    ASSUME NEW n
    PROVE  Push(n).len \in Nat \ {0} /\ Pop(n).len \in Nat \ {0}
<1>1. CASE n < 8
    BY <1>1 DEF Push, Pop
<1>2. CASE ~(n < 8)
    BY <1>2 DEF Push, Pop
<1> QED
    BY <1>1, <1>2

(* No instruction is empty.                                                *)
LEMMA SegLengths ==
    ASSUME NEW cv \in Abi, NEW list, NEW n, Listed(list, n), NEW e \in 0 .. 2 * n + 1
    PROVE  \A o \in 1 .. Span(cv, n, e) : Seg(cv, list, n, e)[o].len \in Nat \ {0}
<1>0. n \in Nat \ {0} /\ \A k \in 1 .. n : list[k - 1] \in Program
    BY DEF Listed
<1> SUFFICES ASSUME NEW o \in 1 .. Span(cv, n, e) PROVE Seg(cv, list, n, e)[o].len \in Nat \ {0}
    OBVIOUS
<1>1. CASE e = 0
    <2>1. Seg(cv, list, n, e) = code_prologue(cv) /\ Span(cv, n, e) = Pre(cv)
        BY <1>1 DEF Seg, Span
    <2>2. PrologueIs(cv)
        BY ThePrologue
    <2>3. PICK f, d : f = First(cv) /\ d = Saves(cv) /\ f \in Nat /\ d \in Nat
                      /\ f \in 0 .. 1 /\ (f = 1 => cv # "win")
        BY DEF First, Saves
    <2>4. o \in 1 .. f + d + 12
        BY <2>1, <2>3 DEF Pre
    <2>5. PICK s : s = code_prologue(cv)
        OBVIOUS
    <2>6. /\ cv # "win" => s[1] = MovReg(rcx, rdi)
          /\ \A k \in 1 .. d : s[f + k] = Push(SavedRegs(cv)[k])
          /\ \A k \in 1 .. 10 : s[f + d + k] = Load(HomeOf(k - 1), k - 1)
          /\ s[f + d + 11] = ClearBc /\ s[f + d + 12] = NextBc
        BY <2>2, <2>3, <2>5 DEF PrologueIs
    <2>7. CASE o <= f
        <3>1. o = 1 /\ cv # "win"
            BY <2>3, <2>4, <2>7
        <3> QED
            BY <2>1, <2>5, <2>6, <3>1 DEF MovReg
    <2>8. CASE o \in f + 1 .. f + d
        <3>1. PICK k : k = o - f
            OBVIOUS
        <3>2. k \in 1 .. d /\ o = f + k
            BY <2>3, <2>8, <3>1
        <3> QED
            BY <2>1, <2>5, <2>6, <3>2, PushPopLengths
    <2>9. CASE o \in f + d + 1 .. f + d + 10
        <3>1. PICK k : k = o - (f + d)
            OBVIOUS
        <3>2. k \in 1 .. 10 /\ o = f + d + k
            BY <2>3, <2>9, <3>1
        <3> QED
            BY <2>1, <2>5, <2>6, <3>2 DEF Load
    <2>10. CASE o = f + d + 11
        BY <2>1, <2>5, <2>6, <2>10 DEF ClearBc
    <2>11. CASE o = f + d + 12
        BY <2>1, <2>5, <2>6, <2>11 DEF NextBc
    <2> QED
        BY <2>3, <2>4, <2>7, <2>8, <2>9, <2>10, <2>11
<1>2. ASSUME NEW i \in 1 .. n, NEW q \in 1 .. 31
      PROVE  Storing(list[i - 1])[q].len \in Nat \ {0}
    <2>1. PICK p : p = list[i - 1] /\ p \in Program
        BY <1>0
    <2>2. /\ Emission(compile_program("reg", p), "reg", p, 10)
          /\ \A j \in 1 .. 23 : Storing(p)[j] = compile_program("reg", p)[j]
          /\ \A k \in 1 .. 8 : Storing(p)[23 + k] = Push(R(k - 1))
        BY <2>1, StoringIs
    <2>3. CASE q \in 1 .. 23
        <3>1. q \in 1 .. Begin("reg", 10) /\ "reg" \in Phases /\ 10 \in 0 .. 10
            BY <2>3 DEF Begin, Phases
        <3>2. compile_program("reg", p)[q].len \in Nat \ {0}
            BY <2>1, <2>2, <3>1, EmissionLengths
        <3> QED
            BY <2>1, <2>2, <2>3, <3>2
    <2>4. CASE q \notin 1 .. 23
        <3>1. PICK k : k = q - 23
            OBVIOUS
        <3>2. k \in 1 .. 8 /\ q = 23 + k
            BY <2>4, <3>1
        <3> QED
            BY <2>1, <2>2, <3>2 DEF Push
    <2> QED
        BY <2>3, <2>4
<1>3. CASE e \in 1 .. n - 1
    <2>1. Seg(cv, list, n, e) = Storing(list[e - 1]) /\ Span(cv, n, e) = 31 /\ e \in 1 .. n
        BY <1>0, <1>3 DEF Seg, Span
    <2> QED
        BY <1>2, <2>1
<1>4. CASE e = n
    <2>1. PICK t : t = Storing(list[n - 1])
        OBVIOUS
    <2>2. Seg(cv, list, n, e) = t \o <<ClearBc>> /\ Span(cv, n, e) = 32 /\ e \in 1 .. n
        BY <1>0, <1>4, <2>1 DEF Seg, Span
    <2>3. Listing(t, 31)
        BY <1>0, <1>4, <2>1, <2>2, StoringIs
    <2>4. Listing(<<ClearBc>>, 1) /\ <<ClearBc>>[1] = ClearBc /\ ClearBc.len = 2
        BY DEF Listing, ClearBc
    <2>5. Appended(t, 31, <<ClearBc>>, 1)
        BY <2>3, <2>4, Concat
    <2>6. CASE o \in 1 .. 31
        <3>1. (t \o <<ClearBc>>)[o] = t[o]
            BY <2>5, <2>6 DEF Appended
        <3> QED
            BY <1>2, <1>4, <2>1, <2>2, <2>6, <3>1
    <2>7. CASE o = 32
        <3>1. \A j \in 1 .. 1 : (t \o <<ClearBc>>)[31 + j] = <<ClearBc>>[j]
            BY <2>5 DEF Appended
        <3>2. 31 + 1 = 32 /\ 1 \in 1 .. 1
            OBVIOUS
        <3>3. (t \o <<ClearBc>>)[32] = ClearBc
            BY <2>4, <3>1, <3>2
        <3>4. PICK s : s = t \o <<ClearBc>>
            OBVIOUS
        <3>5. s[o] = ClearBc /\ Seg(cv, list, n, e) = s
            BY <2>2, <2>7, <3>3, <3>4
        <3> QED
            BY <2>4, <3>5
    <2>8. o \in 1 .. 32
        BY <2>2
    <2> QED
        BY <2>6, <2>7, <2>8
<1>5. CASE e \in n + 1 .. 2 * n
    <2>1. PICK k : k = e - n
        OBVIOUS
    <2>2. k \in 1 .. n /\ e - n - 1 = k - 1
        BY <1>0, <1>5, <2>1
    <2>3. PICK p : p = list[k - 1] /\ p \in Program
        BY <1>0, <2>2
    <2>4. Seg(cv, list, n, e) = compile_program("mem", p) /\ Span(cv, n, e) = 37
        BY <1>0, <1>5, <2>2, <2>3 DEF Seg, Span
    <2>5. Emission(compile_program("mem", p), "mem", p, 10)
        BY <2>3, MemIs
    <2>6. o \in 1 .. Begin("mem", 10) /\ "mem" \in Phases /\ 10 \in 0 .. 10
        BY <2>4 DEF Begin, Phases
    <2> QED
        BY <2>3, <2>4, <2>5, <2>6, EmissionLengths
<1>6. CASE e = 2 * n + 1
    <2>1. Seg(cv, list, n, e) = code_epilogue(cv) /\ Span(cv, n, e) = Post(cv)
        BY <1>0, <1>6 DEF Seg, Span
    <2>2. PICK d : d = Saves(cv) /\ d \in Nat
        BY DEF Saves
    <2>3. PICK s : s = code_epilogue(cv)
        OBVIOUS
    <2>4. /\ s[1] = Unwind /\ (\A k \in 1 .. 8 : s[1 + k] = StoreTo(R(k - 1), k - 1))
          /\ \A k \in 1 .. d : s[9 + k] = Pop(SavedRegs(cv)[d + 1 - k])
          /\ s[10 + d] = Ret
        BY <2>2, <2>3, TheEpilogue DEF EpilogueIs
    <2>5. o \in 1 .. d + 10
        BY <2>1, <2>2 DEF Post
    <2>6. CASE o = 1
        BY <2>1, <2>3, <2>4, <2>6 DEF Unwind
    <2>7. CASE o \in 2 .. 9
        <3>1. PICK k : k = o - 1
            OBVIOUS
        <3>2. k \in 1 .. 8 /\ o = 1 + k
            BY <2>7, <3>1
        <3> QED
            BY <2>1, <2>3, <2>4, <3>2 DEF StoreTo
    <2>8. CASE o \in 10 .. 9 + d
        <3>1. PICK k : k = o - 9
            OBVIOUS
        <3>2. k \in 1 .. d /\ o = 9 + k
            BY <2>2, <2>8, <3>1
        <3> QED
            BY <2>1, <2>3, <2>4, <3>2, PushPopLengths
    <2>9. CASE o = 10 + d
        BY <2>1, <2>3, <2>4, <2>9 DEF Ret
    <2> QED
        BY <2>2, <2>5, <2>6, <2>7, <2>8, <2>9
<1> QED
    BY <1>0, <1>1, <1>3, <1>4, <1>5, <1>6

-----------------------------------------------------------------------------
(* The bytes of the instructions, one after another: instruction k of c    *)
(* starts at off[k].                                                       *)
Offs(f, c) == f = [k \in 1 .. Len(c) + 1 |-> IF k = 1 THEN 0 ELSE f[k - 1] + c[k - 1].len]
Offset(c) == CHOOSE f : Offs(f, c)
Spread(off, c, m) ==
    /\ m \in Nat /\ off[1] = 0 /\ (\A k \in 1 .. m + 1 : off[k] \in Nat)
    /\ \A k \in 1 .. m : off[k + 1] = off[k] + c[k].len
    /\ \A i, k \in 1 .. m + 1 : i < k => off[i] < off[k]
Laid(b, c, off, m) ==
    /\ Spread(off, c, m)
    /\ b.pos = off[m + 1]
    /\ DOMAIN b.code = {off[k] : k \in 1 .. m}
    /\ \A k \in 1 .. m : b.code[off[k]] = c[k]

(* The offsets of instructions that are not empty increase.                *)
LEMMA OffsetsSpread ==
    ASSUME NEW c, NEW m, Listing(c, m), \A k \in 1 .. m : c[k].len \in Nat \ {0}
    PROVE  Spread(Offset(c), c, m) /\ Len(c) = m
<1>1. Len(c) = m /\ m \in Nat
    <2>1. \A i \in 1 .. m : c[i] \in {c[k] : k \in 1 .. m}
        OBVIOUS
    <2> QED
        BY <2>1, ListingIsSeq DEF Listing
<1> DEFINE w == [k \in 1 .. m |-> c[k].len]
<1>2. PICK t : Sums(t, w, m) /\ \A k \in 0 .. m : t[k] \in Nat
    <2>1. \A k \in 1 .. m : w[k] \in Nat
        OBVIOUS
    <2> HIDE DEF w
    <2> QED
        BY <1>1, <2>1, SumsExist
<1> DEFINE g == [k \in 1 .. m + 1 |-> t[k - 1]]
<1>3. Offs(g, c)
    <2>1. \A k \in 0 .. m : t[k] = IF k = 0 THEN 0 ELSE t[k - 1] + w[k]
        BY <1>2 DEF Sums
    <2>2. ASSUME NEW k \in 1 .. m + 1
          PROVE  g[k] = IF k = 1 THEN 0 ELSE g[k - 1] + c[k - 1].len
        <3>1. PICK j : j = k - 1
            OBVIOUS
        <3>2. j \in 0 .. m /\ (k = 1 <=> j = 0) /\ g[k] = t[j]
            BY <1>1, <3>1
        <3>3. t[j] = IF j = 0 THEN 0 ELSE t[j - 1] + w[j]
            BY <2>1, <3>2
        <3>4. j # 0 => j \in 1 .. m /\ j \in 1 .. m + 1 /\ w[j] = c[j].len
            BY <1>1, <3>2
        <3>5. j # 0 => g[j] = t[j - 1]
            BY <3>4
        <3> HIDE DEF g, w
        <3> QED
            BY <3>1, <3>2, <3>3, <3>4, <3>5
    <2>3. g = [k \in 1 .. m + 1 |-> g[k]]
        OBVIOUS
    <2> HIDE DEF g
    <2>4. g = [k \in 1 .. m + 1 |-> IF k = 1 THEN 0 ELSE g[k - 1] + c[k - 1].len]
        BY <2>2, <2>3
    <2> QED
        BY <1>1, <2>4 DEF Offs
<1> HIDE DEF g, w
<1>4. PICK f : f = Offset(c)
    OBVIOUS
<1>5. Offs(f, c)
    BY <1>3, <1>4 DEF Offset
<1>6. \A k \in 1 .. m + 1 : f[k] = IF k = 1 THEN 0 ELSE f[k - 1] + c[k - 1].len
    <2>1. f = [k \in 1 .. m + 1 |-> IF k = 1 THEN 0 ELSE f[k - 1] + c[k - 1].len]
        BY <1>1, <1>5 DEF Offs
    <2> QED
        BY <2>1
<1>7. f[1] = 0
    BY <1>1, <1>6
<1>8. ASSUME NEW k \in 1 .. m PROVE f[k + 1] = f[k] + c[k].len
    <2>1. PICK i : i = k + 1
        OBVIOUS
    <2>2. i \in 1 .. m + 1 /\ i # 1 /\ i - 1 = k
        BY <1>1, <2>1
    <2> QED
        BY <1>6, <2>1, <2>2
<1>9. \A k \in 1 .. m + 1 : f[k] \in Nat
    <2> DEFINE S == {k \in 1 .. m + 1 : f[k] \notin Nat}
    <2> SUFFICES ASSUME S # {} PROVE FALSE
        OBVIOUS
    <2>1. PICK k \in S : \A y \in S : k <= y
        <3>1. S \subseteq Nat
            BY <1>1
        <3> HIDE DEF S
        <3> QED
            BY <3>1, LeastExists
    <2>2. k # 1
        BY <1>7
    <2>3. PICK j : j = k - 1
        OBVIOUS
    <2>4. j \in 1 .. m /\ j + 1 = k /\ ~(k <= j) /\ j \in 1 .. m + 1
        BY <1>1, <2>2, <2>3
    <2>5. f[j] \in Nat
        BY <2>1, <2>4
    <2>6. f[k] = f[j] + c[j].len
        BY <1>8, <2>4
    <2> QED
        BY <2>4, <2>5, <2>6
<1>10. \A k \in 1 .. m : f[k] \in Nat /\ f[k + 1] \in Nat /\ f[k] < f[k + 1]
    <2> SUFFICES ASSUME NEW k \in 1 .. m PROVE f[k] \in Nat /\ f[k + 1] \in Nat /\ f[k] < f[k + 1]
        OBVIOUS
    <2>1. k \in 1 .. m + 1 /\ k + 1 \in 1 .. m + 1
        BY <1>1
    <2> QED
        BY <1>8, <1>9, <2>1
<1>11. ASSUME NEW i \in 1 .. m + 1, NEW k \in 1 .. m + 1, i < k PROVE f[i] < f[k]
    BY <1>1, <1>10, <1>11, Increasing
<1> QED
    BY <1>1, <1>4, <1>7, <1>8, <1>9, <1>11 DEF Spread

(* No instruction of the code is empty.                                    *)
LEMMA CodeLengths ==
    ASSUME NEW cv \in Abi, NEW list, NEW n, Listed(list, n), NEW c, Assembled(c, cv, list, n)
    PROVE  \A i \in 1 .. Meet(cv, n, 2 * n + 2) : c[i].len \in Nat \ {0}
<1> SUFFICES ASSUME NEW i \in 1 .. Meet(cv, n, 2 * n + 2) PROVE c[i].len \in Nat \ {0}
    OBVIOUS
<1>0. n \in Nat \ {0}
    BY DEF Listed
<1>1. PICK e \in 0 .. 2 * n + 1 : \E o \in 1 .. Span(cv, n, e) : i = Meet(cv, n, e) + o
    BY <1>0, Covered
<1>2. PICK o \in 1 .. Span(cv, n, e) : i = Meet(cv, n, e) + o
    BY <1>1
<1>3. c[i] = Seg(cv, list, n, e)[o]
    BY <1>2 DEF Assembled
<1> QED
    BY <1>3, SegLengths

(* The buffer the compiler leaves.                                         *)
LEMMA BufferLaid ==
    ASSUME NEW cv \in Abi, NEW list, NEW n, Listed(list, n), NEW c, c = Code(cv, list),
           NEW off, off = Offset(c), NEW m, m = Meet(cv, n, 2 * n + 2)
    PROVE  Assembled(c, cv, list, n) /\ Laid(hashwx_compile_x86(cv, list), c, off, m)
<1>1. Assembled(c, cv, list, n) /\ Listing(c, m)
    BY TheCode DEF Assembled
<1>2. Spread(off, c, m) /\ Len(c) = m
    BY <1>1, CodeLengths, OffsetsSpread
<1>3. PICK b : b = hashwx_compile_x86(cv, list)
    OBVIOUS
<1>4. b = [pos |-> off[Len(c) + 1],
           code |-> [a \in {off[k] : k \in 1 .. Len(c)} |->
                        c[CHOOSE k \in 1 .. Len(c) : off[k] = a]]]
    BY <1>3 DEF hashwx_compile_x86, Code, Offset, Offs
<1>5. ASSUME NEW k \in 1 .. Len(c) PROVE b.code[off[k]] = c[k]
    <2>1. \A i \in 1 .. Len(c) : off[i] = off[k] => i = k
        <3> SUFFICES ASSUME NEW i \in 1 .. Len(c), off[i] = off[k], i # k PROVE FALSE
            OBVIOUS
        <3>1. m \in Nat /\ i \in 1 .. m + 1 /\ k \in 1 .. m + 1 /\ (i < k \/ k < i)
            BY <1>2 DEF Spread
        <3>2. off[i] < off[k] \/ off[k] < off[i]
            BY <1>2, <3>1 DEF Spread
        <3>3. off[i] \in Nat /\ off[k] \in Nat
            BY <1>2, <3>1 DEF Spread
        <3> QED
            BY <3>2, <3>3
    <2>2. (CHOOSE i \in 1 .. Len(c) : off[i] = off[k]) = k
        BY <2>1
    <2> QED
        BY <1>4, <2>2
<1>6. b.pos = off[Len(c) + 1] /\ DOMAIN b.code = {off[k] : k \in 1 .. Len(c)}
    BY <1>4
<1>7. /\ b.pos = off[m + 1] /\ DOMAIN b.code = {off[k] : k \in 1 .. m}
      /\ \A k \in 1 .. m : b.code[off[k]] = c[k]
    BY <1>2, <1>5, <1>6
<1> QED
    BY <1>1, <1>2, <1>3, <1>7 DEF Laid

(* A function that adds the lengths of a sequence up.                      *)
LEMMA BytesRun ==
    ASSUME NEW s, NEW m, Listing(s, m), \A i \in 1 .. m : s[i].len \in Nat
    PROVE  \E t : /\ t[0] = 0 /\ Adds(t, s, 0, m) /\ t[m] = Bytes(s)
                  /\ \A i \in 0 .. m : t[i] \in Nat
<1>1. m \in Nat
    BY DEF Listing
<1> DEFINE w == [k \in 1 .. m |-> s[k].len]
<1>2. PICK t : Sums(t, w, m) /\ \A k \in 0 .. m : t[k] \in Nat
    <2>1. \A k \in 1 .. m : w[k] \in Nat
        OBVIOUS
    <2> HIDE DEF w
    <2> QED
        BY <1>1, <2>1, SumsExist
<1>3. \A k \in 0 .. m : t[k] = IF k = 0 THEN 0 ELSE t[k - 1] + w[k]
    BY <1>2 DEF Sums
<1>4. t[0] = 0
    <2>1. 0 \in 0 .. m
        BY <1>1
    <2> QED
        BY <1>3, <2>1
<1>5. Adds(t, s, 0, m)
    <2> SUFFICES ASSUME NEW o \in 1 .. m PROVE t[0 + o] = t[0 + o - 1] + s[o].len
        BY DEF Adds
    <2>1. 0 + o = o /\ 0 + o - 1 = o - 1 /\ o \in 0 .. m /\ o # 0 /\ w[o] = s[o].len
        BY <1>1
    <2> HIDE DEF w
    <2> QED
        BY <1>3, <2>1
<1> QED
    BY <1>2, <1>4, <1>5, BytesAre

(* The bytes of each section.                                              *)
PreBytes(cv) == IF cv = "win" THEN 56 ELSE 57
PostBytes(cv) == IF cv = "win" THEN 51 ELSE 49

(* The bytes of the prologue.                                              *)
LEMMA PrologueBytes ==
    ASSUME NEW cv \in Abi
    PROVE  Bytes(code_prologue(cv)) = PreBytes(cv)
<1>1. PICK s : s = code_prologue(cv)
    OBVIOUS
<1>2. PrologueIs(cv) /\ SavedIs(cv)
    BY ThePrologue, SavedRegsAre
<1>3. \A k \in 1 .. 10 : Load(HomeOf(k - 1), k - 1).len = IF k = 1 THEN 3 ELSE 4
    BY DEF Load
<1>4. MovReg(rcx, rdi).len = 3 /\ ClearBc.len = 2 /\ NextBc.len = 3
    BY DEF MovReg, ClearBc, NextBc
<1>5. \A k \in 0 .. 15 : Push(k).len = IF k < 8 THEN 1 ELSE 2
    BY DEF Push
<1>6. CASE cv = "win"
    <2>1. Listing(s, 20)
        BY <1>1, <1>2, <1>6 DEF PrologueIs, Pre, First, Saves
    <2>2. \A k \in 1 .. 8 : s[k] = Push(SavedRegs(cv)[k])
        BY <1>1, <1>2, <1>6 DEF PrologueIs, First, Saves
    <2>3. \A k \in 1 .. 10 : s[8 + k] = Load(HomeOf(k - 1), k - 1)
        BY <1>1, <1>2, <1>6 DEF PrologueIs, First, Saves
    <2>4. s[19] = ClearBc /\ s[20] = NextBc
        BY <1>1, <1>2, <1>6 DEF PrologueIs, First, Saves
    <2>5. \A k \in 1 .. 8 : s[k].len = IF k <= 4 THEN 1 ELSE 2
        BY <1>2, <1>5, <1>6, <2>2 DEF SavedIs, Saves, rbx, rbp, rsi, rdi
    <2>6. \A k \in 9 .. 18 : s[k].len = IF k = 9 THEN 3 ELSE 4
        <3> SUFFICES ASSUME NEW k \in 9 .. 18 PROVE s[k].len = IF k = 9 THEN 3 ELSE 4
            OBVIOUS
        <3>1. PICK j : j = k - 8
            OBVIOUS
        <3>2. j \in 1 .. 10 /\ k = 8 + j /\ (j = 1 <=> k = 9)
            BY <3>1
        <3> QED
            BY <1>3, <2>3, <3>2
    <2> DEFINE t == [k \in 0 .. 20 |->
                       IF k <= 4 THEN k ELSE IF k <= 8 THEN 2 * k - 4
                       ELSE IF k <= 18 THEN 4 * k - 21 ELSE IF k = 19 THEN 53 ELSE 56]
    <2>7. t[0] = 0 /\ t[20] = 56
        OBVIOUS
    <2>8. Adds(t, s, 0, 20)
        <3> SUFFICES ASSUME NEW o \in 1 .. 20 PROVE t[0 + o] = t[0 + o - 1] + s[o].len
            BY DEF Adds
        <3>1. 0 + o = o /\ 0 + o - 1 = o - 1 /\ o \in 0 .. 20 /\ o - 1 \in 0 .. 20
            OBVIOUS
        <3>2. s[o].len = IF o <= 4 THEN 1 ELSE IF o <= 8 THEN 2 ELSE IF o = 9 THEN 3
                         ELSE IF o <= 18 THEN 4 ELSE IF o = 19 THEN 2 ELSE 3
            BY <1>4, <2>4, <2>5, <2>6
        <3> QED
            BY <3>1, <3>2
    <2> HIDE DEF t
    <2> QED
        BY <1>1, <1>6, <2>1, <2>7, <2>8, BytesAre DEF PreBytes
<1>7. CASE cv = "sysv"
    <2>1. Listing(s, 19) /\ s[1] = MovReg(rcx, rdi)
        BY <1>1, <1>2, <1>7 DEF PrologueIs, Pre, First, Saves
    <2>2. \A k \in 1 .. 6 : s[1 + k] = Push(SavedRegs(cv)[k])
        BY <1>1, <1>2, <1>7 DEF PrologueIs, First, Saves
    <2>3. \A k \in 1 .. 10 : s[7 + k] = Load(HomeOf(k - 1), k - 1)
        BY <1>1, <1>2, <1>7 DEF PrologueIs, First, Saves
    <2>4. s[18] = ClearBc /\ s[19] = NextBc
        BY <1>1, <1>2, <1>7 DEF PrologueIs, First, Saves
    <2>5. \A k \in 2 .. 7 : s[k].len = IF k <= 3 THEN 1 ELSE 2
        <3>1. \A k \in 1 .. 6 : Push(SavedRegs(cv)[k]).len = IF k <= 2 THEN 1 ELSE 2
            BY <1>2, <1>5, <1>7 DEF SavedIs, Saves, rbx, rbp
        <3> SUFFICES ASSUME NEW k \in 2 .. 7 PROVE s[k].len = IF k <= 3 THEN 1 ELSE 2
            OBVIOUS
        <3>2. PICK j : j = k - 1
            OBVIOUS
        <3>3. j \in 1 .. 6 /\ k = 1 + j /\ (j <= 2 <=> k <= 3)
            BY <3>2
        <3> QED
            BY <2>2, <3>1, <3>3
    <2>6. \A k \in 8 .. 17 : s[k].len = IF k = 8 THEN 3 ELSE 4
        <3> SUFFICES ASSUME NEW k \in 8 .. 17 PROVE s[k].len = IF k = 8 THEN 3 ELSE 4
            OBVIOUS
        <3>1. PICK j : j = k - 7
            OBVIOUS
        <3>2. j \in 1 .. 10 /\ k = 7 + j /\ (j = 1 <=> k = 8)
            BY <3>1
        <3> QED
            BY <1>3, <2>3, <3>2
    <2> DEFINE t == [k \in 0 .. 19 |->
                       IF k = 0 THEN 0 ELSE IF k <= 3 THEN k + 2 ELSE IF k <= 7 THEN 2 * k - 1
                       ELSE IF k <= 17 THEN 4 * k - 16 ELSE IF k = 18 THEN 54 ELSE 57]
    <2>7. t[0] = 0 /\ t[19] = 57
        OBVIOUS
    <2>8. Adds(t, s, 0, 19)
        <3> SUFFICES ASSUME NEW o \in 1 .. 19 PROVE t[0 + o] = t[0 + o - 1] + s[o].len
            BY DEF Adds
        <3>1. 0 + o = o /\ 0 + o - 1 = o - 1 /\ o \in 0 .. 19 /\ o - 1 \in 0 .. 19
            OBVIOUS
        <3>2. s[o].len = IF o = 1 THEN 3 ELSE IF o <= 3 THEN 1 ELSE IF o <= 7 THEN 2
                         ELSE IF o = 8 THEN 3 ELSE IF o <= 17 THEN 4 ELSE IF o = 18 THEN 2 ELSE 3
            BY <1>4, <2>1, <2>4, <2>5, <2>6
        <3> QED
            BY <3>1, <3>2
    <2> HIDE DEF t
    <2> QED
        BY <1>1, <1>7, <2>1, <2>7, <2>8, BytesAre DEF PreBytes
<1> QED
    BY <1>6, <1>7 DEF Abi

(* The bytes of the epilogue.                                              *)
LEMMA EpilogueBytes ==
    ASSUME NEW cv \in Abi
    PROVE  Bytes(code_epilogue(cv)) = PostBytes(cv)
<1>1. PICK s : s = code_epilogue(cv)
    OBVIOUS
<1>2. EpilogueIs(cv) /\ SavedIs(cv)
    BY TheEpilogue, SavedRegsAre
<1>3. \A k \in 0 .. 15 : Pop(k).len = IF k < 8 THEN 1 ELSE 2
    BY DEF Pop
<1>4. Unwind.len = 7 /\ Ret.len = 1
    BY DEF Unwind, Ret
<1>5. s[1] = Unwind /\ \A k \in 2 .. 9 : s[k].len = IF k = 2 THEN 3 ELSE 4
    <2>1. \A k \in 1 .. 8 : s[1 + k] = StoreTo(R(k - 1), k - 1)
        BY <1>1, <1>2 DEF EpilogueIs
    <2>2. \A k \in 1 .. 8 : StoreTo(R(k - 1), k - 1).len = IF k = 1 THEN 3 ELSE 4
        BY DEF StoreTo
    <2>3. ASSUME NEW k \in 2 .. 9 PROVE s[k].len = IF k = 2 THEN 3 ELSE 4
        <3>1. PICK j : j = k - 1
            OBVIOUS
        <3>2. j \in 1 .. 8 /\ k = 1 + j /\ (j = 1 <=> k = 2)
            BY <3>1
        <3> QED
            BY <2>1, <2>2, <3>2
    <2> QED
        BY <1>1, <1>2, <2>3 DEF EpilogueIs
<1>6. CASE cv = "win"
    <2>1. Listing(s, 18) /\ s[18] = Ret
        BY <1>1, <1>2, <1>6 DEF EpilogueIs, Post, Saves
    <2>2. \A k \in 1 .. 8 : s[9 + k] = Pop(SavedRegs(cv)[9 - k])
        <3>1. \A k \in 1 .. Saves(cv) : s[9 + k] = Pop(SavedRegs(cv)[Saves(cv) + 1 - k])
            BY <1>1, <1>2 DEF EpilogueIs
        <3>2. Saves(cv) = 8 /\ 8 + 1 = 9
            BY <1>6 DEF Saves
        <3> QED
            BY <3>1, <3>2
    <2>3. \A k \in 1 .. 8 : Pop(SavedRegs(cv)[k]).len = IF k <= 4 THEN 1 ELSE 2
        BY <1>2, <1>3, <1>6 DEF SavedIs, Saves, rbx, rbp, rsi, rdi
    <2>4. ASSUME NEW k \in 10 .. 17 PROVE s[k].len = IF k <= 13 THEN 2 ELSE 1
        <3>1. PICK i, j : i = k - 9 /\ j = 18 - k
            OBVIOUS
        <3>2. i \in 1 .. 8 /\ k = 9 + i /\ 9 - i = j /\ j \in 1 .. 8 /\ (j <= 4 <=> ~(k <= 13))
            BY <3>1
        <3> QED
            BY <2>2, <2>3, <3>2
    <2> DEFINE t == [k \in 0 .. 18 |->
                       IF k = 0 THEN 0 ELSE IF k = 1 THEN 7 ELSE IF k <= 9 THEN 4 * k + 2
                       ELSE IF k <= 13 THEN 2 * k + 20 ELSE IF k <= 17 THEN k + 33 ELSE 51]
    <2>5. t[0] = 0 /\ t[18] = 51
        OBVIOUS
    <2>6. Adds(t, s, 0, 18)
        <3> SUFFICES ASSUME NEW o \in 1 .. 18 PROVE t[0 + o] = t[0 + o - 1] + s[o].len
            BY DEF Adds
        <3>1. 0 + o = o /\ 0 + o - 1 = o - 1 /\ o \in 0 .. 18 /\ o - 1 \in 0 .. 18
            OBVIOUS
        <3>2. s[o].len = IF o = 1 THEN 7 ELSE IF o = 2 THEN 3 ELSE IF o <= 9 THEN 4
                         ELSE IF o <= 13 THEN 2 ELSE 1
            BY <1>4, <1>5, <2>1, <2>4
        <3> QED
            BY <3>1, <3>2
    <2> HIDE DEF t
    <2> QED
        BY <1>1, <1>6, <2>1, <2>5, <2>6, BytesAre DEF PostBytes
<1>7. CASE cv = "sysv"
    <2>1. Listing(s, 16) /\ s[16] = Ret
        BY <1>1, <1>2, <1>7 DEF EpilogueIs, Post, Saves
    <2>2. \A k \in 1 .. 6 : s[9 + k] = Pop(SavedRegs(cv)[7 - k])
        <3>1. \A k \in 1 .. Saves(cv) : s[9 + k] = Pop(SavedRegs(cv)[Saves(cv) + 1 - k])
            BY <1>1, <1>2 DEF EpilogueIs
        <3>2. Saves(cv) = 6 /\ 6 + 1 = 7
            BY <1>7 DEF Saves
        <3> QED
            BY <3>1, <3>2
    <2>3. \A k \in 1 .. 6 : Pop(SavedRegs(cv)[k]).len = IF k <= 2 THEN 1 ELSE 2
        BY <1>2, <1>3, <1>7 DEF SavedIs, Saves, rbx, rbp
    <2>4. ASSUME NEW k \in 10 .. 15 PROVE s[k].len = IF k <= 13 THEN 2 ELSE 1
        <3>1. PICK i, j : i = k - 9 /\ j = 16 - k
            OBVIOUS
        <3>2. i \in 1 .. 6 /\ k = 9 + i /\ 7 - i = j /\ j \in 1 .. 6 /\ (j <= 2 <=> ~(k <= 13))
            BY <3>1
        <3> QED
            BY <2>2, <2>3, <3>2
    <2> DEFINE t == [k \in 0 .. 16 |->
                       IF k = 0 THEN 0 ELSE IF k = 1 THEN 7 ELSE IF k <= 9 THEN 4 * k + 2
                       ELSE IF k <= 13 THEN 2 * k + 20 ELSE k + 33]
    <2>5. t[0] = 0 /\ t[16] = 49
        OBVIOUS
    <2>6. Adds(t, s, 0, 16)
        <3> SUFFICES ASSUME NEW o \in 1 .. 16 PROVE t[0 + o] = t[0 + o - 1] + s[o].len
            BY DEF Adds
        <3>1. 0 + o = o /\ 0 + o - 1 = o - 1 /\ o \in 0 .. 16 /\ o - 1 \in 0 .. 16
            OBVIOUS
        <3>2. s[o].len = IF o = 1 THEN 7 ELSE IF o = 2 THEN 3 ELSE IF o <= 9 THEN 4
                         ELSE IF o <= 13 THEN 2 ELSE 1
            BY <1>4, <1>5, <2>1, <2>4
        <3> QED
            BY <3>1, <3>2
    <2> HIDE DEF t
    <2> QED
        BY <1>1, <1>7, <2>1, <2>5, <2>6, BytesAre DEF PostBytes
<1> QED
    BY <1>6, <1>7 DEF Abi

(* The bytes of a program in each phase.                                   *)
LEMMA ProgramBytes ==
    ASSUME NEW p \in Program
    PROVE  Bytes(Storing(p)) = 94 /\ Bytes(compile_program("mem", p)) = 141
<1>1. Bytes(Storing(p)) = 94
    <2>1. PICK s : s = Storing(p)
        OBVIOUS
    <2>2. /\ Listing(s, 31)
          /\ Emission(compile_program("reg", p), "reg", p, 10)
          /\ \A o \in 1 .. 23 : s[o] = compile_program("reg", p)[o]
          /\ \A k \in 1 .. 8 : s[23 + k] = Push(R(k - 1))
        BY <2>1, StoringIs
    <2>3. PICK f : f = compile_program("reg", p) /\ Emission(f, "reg", p, 10)
        BY <2>2
    <2>4. Begin("reg", 10) = 23 /\ "reg" \in Phases /\ 10 \in 0 .. 10 /\ ByteAt("reg", 10) = 78
        BY DEF Begin, Phases, ByteAt
    <2>5. \A k \in 1 .. 8 : Push(R(k - 1)).len = 2
        BY DEF Push, R
    <2>6. \A i \in 1 .. 31 : s[i].len \in Nat
        <3> SUFFICES ASSUME NEW i \in 1 .. 31 PROVE s[i].len \in Nat
            OBVIOUS
        <3>1. CASE i \in 1 .. 23
            BY <2>2, <2>3, <2>4, <3>1, EmissionLengths
        <3>2. CASE i \notin 1 .. 23
            <4>1. PICK k : k = i - 23
                OBVIOUS
            <4>2. k \in 1 .. 8 /\ i = 23 + k
                BY <3>2, <4>1
            <4> QED
                BY <2>2, <2>5, <4>2
        <3> QED
            BY <3>1, <3>2
    <2>7. PICK t : t[0] = 0 /\ Adds(t, s, 0, 31) /\ t[31] = Bytes(s) /\ \A i \in 0 .. 31 : t[i] \in Nat
        <3>1. PICK m : m = 31
            OBVIOUS
        <3>2. Listing(s, m) /\ \A i \in 1 .. m : s[i].len \in Nat
            BY <2>2, <2>6, <3>1
        <3>3. \E t : /\ t[0] = 0 /\ Adds(t, s, 0, m) /\ t[m] = Bytes(s)
                     /\ \A i \in 0 .. m : t[i] \in Nat
            BY <3>2, BytesRun
        <3> QED
            BY <3>1, <3>3
    <2>8. \A i \in 1 .. Begin("reg", 10) : t[0 + i] = t[0 + i - 1] + f[i].len
        BY <2>2, <2>3, <2>4, <2>7 DEF Adds
    <2>9. \A k \in 0 .. 10 : t[0 + Begin("reg", k)] = t[0] + ByteAt("reg", k)
        BY <2>3, <2>4, <2>7, <2>8, BytesUpTo
    <2>10. t[23] = 78
        BY <2>4, <2>7, <2>9
    <2>11. \A k \in 24 .. 31 : t[k] = t[k - 1] + 2
        <3> SUFFICES ASSUME NEW k \in 24 .. 31 PROVE t[k] = t[k - 1] + 2
            OBVIOUS
        <3>1. PICK j : j = k - 23
            OBVIOUS
        <3>2. j \in 1 .. 8 /\ k = 23 + j /\ k \in 1 .. 31 /\ 0 + k = k /\ 0 + k - 1 = k - 1
            BY <3>1
        <3>3. s[k].len = 2
            BY <2>2, <2>5, <3>2
        <3> QED
            BY <2>7, <3>2, <3>3 DEF Adds
    <2>12. t[24] = 80 /\ t[25] = 82 /\ t[26] = 84 /\ t[27] = 86 /\ t[28] = 88 /\ t[29] = 90
           /\ t[30] = 92 /\ t[31] = 94
        BY <2>10, <2>11
    <2> QED
        BY <2>1, <2>7, <2>12
<1>2. Bytes(compile_program("mem", p)) = 141
    <2>1. PICK f : f = compile_program("mem", p) /\ Emission(f, "mem", p, 10) /\ Listing(f, 37)
        BY MemIs
    <2>2. Begin("mem", 10) = 37 /\ "mem" \in Phases /\ 10 \in 0 .. 10 /\ ByteAt("mem", 10) = 141
        BY DEF Begin, Phases, ByteAt
    <2>3. \A i \in 1 .. 37 : f[i].len \in Nat
        BY <2>1, <2>2, EmissionLengths
    <2>4. PICK t : t[0] = 0 /\ Adds(t, f, 0, 37) /\ t[37] = Bytes(f) /\ \A i \in 0 .. 37 : t[i] \in Nat
        <3>1. PICK m : m = 37
            OBVIOUS
        <3>2. Listing(f, m) /\ \A i \in 1 .. m : f[i].len \in Nat
            BY <2>1, <2>3, <3>1
        <3>3. \E t : /\ t[0] = 0 /\ Adds(t, f, 0, m) /\ t[m] = Bytes(f)
                     /\ \A i \in 0 .. m : t[i] \in Nat
            BY <3>2, BytesRun
        <3> QED
            BY <3>1, <3>3
    <2>5. \A i \in 1 .. Begin("mem", 10) : t[0 + i] = t[0 + i - 1] + f[i].len
        BY <2>2, <2>4 DEF Adds
    <2>6. \A k \in 0 .. 10 : t[0 + Begin("mem", k)] = t[0] + ByteAt("mem", k)
        BY <2>1, <2>2, <2>4, <2>5, BytesUpTo
    <2> QED
        BY <2>1, <2>2, <2>4, <2>6
<1> QED
    BY <1>1, <1>2

(* The bytes of the sections of n programs, one after another.             *)
LEMMA ListBytes ==
    ASSUME NEW cv \in Abi, NEW list, NEW n, Listed(list, n)
    PROVE  BytesEmitted(cv, list) = PreBytes(cv) + 94 * n + 2 + 141 * n + PostBytes(cv)
<1>0. n \in Nat \ {0} /\ \A k \in 1 .. n : list[k - 1] \in Program
    BY DEF Listed
<1>1. PICK s : s = Sections(cv, list) /\ SectionsAre(s, cv, list, n)
    BY TheSections
<1>2. PICK a, b : a = PreBytes(cv) /\ b = PostBytes(cv) /\ a \in Nat /\ b \in Nat
    BY DEF PreBytes, PostBytes
<1>3. PICK m : m = 2 * n + 3
    OBVIOUS
<1>4. Listing(s, m) /\ Len(s) = m /\ m \in Nat
    <2>1. Listing(s, m)
        BY <1>1, <1>3 DEF SectionsAre
    <2>2. \A i \in 1 .. m : s[i] \in {s[k] : k \in 1 .. m}
        OBVIOUS
    <2> QED
        BY <2>1, <2>2, ListingIsSeq DEF Listing
<1> DEFINE w == [k \in 1 .. m |-> Bytes(s[k])]
           T(k) == IF k = 0 THEN 0 ELSE IF k <= n + 1 THEN a + 94 * (k - 1)
                   ELSE IF k <= 2 * n + 2 THEN a + 94 * n + 2 + 141 * (k - n - 2)
                   ELSE a + 94 * n + 2 + 141 * n + b
           t == [k \in 0 .. m |-> T(k)]
<1>5. Bytes(<<ClearBc>>) = 2
    <2>1. Listing(<<ClearBc>>, 1) /\ <<ClearBc>>[1] = ClearBc /\ ClearBc.len = 2
        BY DEF Listing, ClearBc
    <2> DEFINE u == [i \in 0 .. 1 |-> 2 * i]
    <2>2. u[0] = 0 /\ u[1] = 2 /\ \A o \in 1 .. 1 : o = 1 /\ 0 + o = 1 /\ 0 + o - 1 = 0
        OBVIOUS
    <2>3. PICK z : z = <<ClearBc>>
        OBVIOUS
    <2> HIDE DEF u
    <2>4. Adds(u, z, 0, 1)
        BY <2>1, <2>2, <2>3 DEF Adds
    <2> QED
        BY <2>1, <2>2, <2>3, <2>4, BytesAre
<1>6. ASSUME NEW k \in 1 .. m PROVE t[k] = t[k - 1] + w[k] /\ w[k] = Bytes(s[k])
    <2>0. w[k] = Bytes(s[k]) /\ t[k] = T(k) /\ t[k - 1] = T(k - 1)
        <3>1. k \in 0 .. m /\ k - 1 \in 0 .. m
            BY <1>4
        <3> QED
            BY <3>1
    <2>1. CASE k = 1
        <3>1. w[k] = a
            BY <1>1, <1>2, <2>0, <2>1, PrologueBytes DEF SectionsAre
        <3>2. T(1) = a /\ T(0) = 0
            BY <1>0, <1>2
        <3> QED
            BY <1>2, <2>0, <2>1, <3>1, <3>2
    <2>2. CASE k \in 2 .. n + 1
        <3>1. PICK j : j = k - 1
            OBVIOUS
        <3>2. j \in 1 .. n /\ k = 1 + j
            BY <1>0, <2>2, <3>1
        <3>3. w[k] = 94
            BY <1>0, <1>1, <2>0, <3>2, ProgramBytes DEF SectionsAre
        <3>4. T(k) = T(k - 1) + 94
            BY <1>0, <1>2, <2>2
        <3> QED
            BY <2>0, <3>3, <3>4
    <2>3. CASE k = n + 2
        <3>1. w[k] = 2
            BY <1>1, <1>5, <2>0, <2>3 DEF SectionsAre
        <3>2. T(k) = T(k - 1) + 2
            BY <1>0, <1>2, <2>3
        <3> QED
            BY <2>0, <3>1, <3>2
    <2>4. CASE k \in n + 3 .. 2 * n + 2
        <3>1. PICK j : j = k - n - 2
            OBVIOUS
        <3>2. j \in 1 .. n /\ k = n + 2 + j
            BY <1>0, <2>4, <3>1
        <3>3. s[k] = compile_program("mem", list[j - 1])
            BY <1>1, <3>2 DEF SectionsAre
        <3>5. w[k] = 141
            BY <1>0, <2>0, <3>2, <3>3, ProgramBytes
        <3>4. T(k) = T(k - 1) + 141
            BY <1>0, <1>2, <2>4
        <3> QED
            BY <2>0, <3>4, <3>5
    <2>5. CASE k = 2 * n + 3
        <3>1. w[k] = b
            BY <1>1, <1>2, <2>0, <2>5, EpilogueBytes DEF SectionsAre
        <3>2. T(k) = T(k - 1) + b
            BY <1>0, <1>2, <2>5
        <3> QED
            BY <2>0, <3>1, <3>2
    <2> QED
        BY <1>0, <1>3, <2>1, <2>2, <2>3, <2>4, <2>5
<1>7. t[0] = 0 /\ t[m] = a + 94 * n + 2 + 141 * n + b
    <2>1. 0 \in 0 .. m /\ m \in 0 .. m /\ m # 0 /\ ~(m <= n + 1) /\ ~(m <= 2 * n + 2)
        BY <1>0, <1>3
    <2> QED
        BY <2>1
<1> DEFINE Up(f) == f = [k \in 0 .. m |-> IF k = 0 THEN 0 ELSE f[k - 1] + Bytes(s[k])]
<1>8. Up(t)
    <2>1. ASSUME NEW k \in 0 .. m PROVE t[k] = IF k = 0 THEN 0 ELSE t[k - 1] + Bytes(s[k])
        <3>1. k # 0 => k \in 1 .. m
            BY <1>4
        <3> HIDE DEF t, w
        <3> QED
            BY <1>6, <1>7, <3>1
    <2>2. t = [k \in 0 .. m |-> t[k]]
        OBVIOUS
    <2> HIDE DEF t
    <2> QED
        BY <2>1, <2>2
<1>9. Totals(t, w, m)
    <2> HIDE DEF t, w
    <2> QED
        BY <1>6, <1>7 DEF Totals
<1> HIDE DEF t
<1>10. BytesEmitted(cv, list) = (CHOOSE f : Up(f))[Len(s)]
    BY <1>1, <1>4 DEF BytesEmitted
<1>11. PICK f : f = CHOOSE h : Up(h)
    OBVIOUS
<1>12. Up(f)
    BY <1>8, <1>11
<1>13. Sums(f, w, m)
    <2>1. ASSUME NEW k \in 0 .. m PROVE f[k] = IF k = 0 THEN 0 ELSE f[k - 1] + w[k]
        <3>1. k # 0 => k \in 1 .. m
            BY <1>4
        <3>2. f[k] = IF k = 0 THEN 0 ELSE f[k - 1] + Bytes(s[k])
            BY <1>12
        <3> HIDE DEF w, Up
        <3> QED
            BY <1>6, <3>1, <3>2
    <2>2. f = [k \in 0 .. m |-> f[k]]
        BY <1>12
    <2> HIDE DEF w, Up
    <2> QED
        BY <2>1, <2>2 DEF Sums
<1> HIDE DEF w, Up
<1>14. m \in 0 .. m
    BY <1>4
<1> QED
    BY <1>2, <1>4, <1>7, <1>9, <1>10, <1>11, <1>13, <1>14, SumsAre

-----------------------------------------------------------------------------
(* The code of 32 programs fits the buffer.                                *)
THEOREM CodeAlwaysFits == Spec => []CodeFits
<1> DEFINE Inv == program_list \in ProgramLists /\ abi \in Abi
<1>1. Init => Inv
    BY DEF Init
<1>2. Inv /\ [Next]_vars => Inv'
    BY DEF Next, PushPop, Move, StoreBack, Arithmetic, Test, JumpTaken, JumpNotTaken, Return,
           Returned, vars, input
<1>3. Inv => CodeFits
    <2> SUFFICES ASSUME Inv PROVE BytesEmitted(abi, FullList) <= HASHWX_CODE_SIZE
        BY DEF CodeFits
    <2>1. program_list \in [0 .. NumPrograms - 1 -> Program] /\ NumPrograms \in Nat \ {0}
        BY InputsAssumption, SizesAssumption
    <2>2. Listed(FullList, 32)
        <3>1. ASSUME NEW k \in 0 .. 31 PROVE program_list[k % NumPrograms] \in Program
            <4>1. k % NumPrograms \in 0 .. NumPrograms - 1
                BY <2>1
            <4> QED
                BY <2>1, <4>1
        <3> QED
            BY <3>1 DEF Listed, FullList
    <2>3. BytesEmitted(abi, FullList) = PreBytes(abi) + 94 * 32 + 2 + 141 * 32 + PostBytes(abi)
        BY <2>2, ListBytes
    <2>4. PreBytes(abi) <= 57 /\ PostBytes(abi) <= 51 /\ PreBytes(abi) \in Nat /\ PostBytes(abi) \in Nat
        BY DEF PreBytes, PostBytes
    <2> QED
        BY <2>3, <2>4 DEF HASHWX_CODE_SIZE
<1> QED
    BY <1>1, <1>2, <1>3, PTL DEF Spec

-----------------------------------------------------------------------------
(* One instruction, and the step of the processor that runs it.            *)

(* What one instruction does to registers, stack and r[].  The flag is     *)
(* followed apart: two instructions set it, two read it.                   *)
Put(s, n, v) == [x |-> [s.x EXCEPT ![n] = v], stack |-> s.stack, io |-> s.io]
CellOf(s) == s.stack[(s.x[rsp] + s.x[rax]) \div 8]
Result(in, s) ==
    IF in.op = "mov" THEN s.x[in.from]
    ELSE IF in.op = "lea" THEN s.x[in.from] + 1
    ELSE IF in.op = "load" THEN s.io[in.cell]
    ELSE IF in.op = "or_imm" THEN Or(s.x[in.to], in.imm)
    ELSE IF in.op = "xor_imm" THEN Xor(s.x[in.to], in.imm)
    ELSE IF in.op = "add_imm" THEN Add(s.x[in.to], in.imm)
    ELSE IF in.op = "ror_imm" THEN Ror(s.x[in.to], in.imm)
    ELSE IF in.op = "sar_imm" THEN Asr(s.x[in.to], in.imm)
    ELSE IF in.op = "shr_imm" THEN Lsr(s.x[in.to], in.imm)
    ELSE IF in.op = "imul" THEN Mul(s.x[in.to], s.x[in.from])
    ELSE IF in.op = "xor" THEN Xor(s.x[in.to], s.x[in.from])
    ELSE IF in.op = "add" THEN Add(s.x[in.to], s.x[in.from])
    ELSE IF in.op = "sub" THEN Sub(s.x[in.to], s.x[in.from])
    ELSE IF in.op = "imul_mem" THEN Mul(s.x[in.to], CellOf(s))
    ELSE IF in.op = "xor_mem" THEN Xor(s.x[in.to], CellOf(s))
    ELSE IF in.op = "add_mem" THEN Add(s.x[in.to], CellOf(s))
    ELSE IF in.op = "sub_mem" THEN Sub(s.x[in.to], CellOf(s))
    ELSE IF in.op = "or_bc" THEN Or(Low(s.x[in.to]), s.x[in.from])
    ELSE IF in.op = "address" THEN 8 * Slot(s.x[in.to])
    ELSE 0
Effect(in, s) ==
    IF in.op = "push"
    THEN [x |-> [s.x EXCEPT ![rsp] = @ - 8],
          stack |-> [s.stack EXCEPT ![s.x[rsp] \div 8 - 1] = s.x[in.from]], io |-> s.io]
    ELSE IF in.op = "pop"
    THEN [x |-> [s.x EXCEPT ![in.to] = s.stack[s.x[rsp] \div 8], ![rsp] = @ + 8],
          stack |-> s.stack, io |-> s.io]
    ELSE IF in.op = "store"
    THEN [x |-> s.x, stack |-> s.stack, io |-> [s.io EXCEPT ![in.cell] = s.x[in.from]]]
    ELSE IF in.op = "unwind"
    THEN [x |-> [s.x EXCEPT ![rsp] = @ + 8 * MemSize], stack |-> s.stack, io |-> s.io]
    ELSE IF in.op \in {"test_bc", "test_flag", "jz", "ret"} THEN s
    ELSE Put(s, in.to, Result(in, s))

St == [x |-> x, stack |-> stack, io |-> io]

(* A step of the processor at an instruction that reads no flag goes on    *)
(* to the next byte and has the effect of the instruction.                 *)
LEMMA StraightStep ==
    ASSUME Next, Running, isn.op \notin {"jz", "cmovz"}
    PROVE  pc' = pc + isn.len /\ St' = Effect(isn, St) /\ UNCHANGED input
<1>1. CASE PushPop
    BY <1>1 DEF PushPop, Op, Advance, St, Effect
<1>2. CASE Move
    BY <1>2 DEF Move, Op, Advance, St, Effect, Put, Result, Write
<1>3. CASE StoreBack
    BY <1>3 DEF StoreBack, Op, Advance, St, Effect
<1>4. CASE Arithmetic
    <2>1. pc' = pc + isn.len /\ UNCHANGED <<input, stack, io>>
        BY <1>4 DEF Arithmetic, Advance
    <2>2. CASE isn.op = "unwind"
        BY <1>4, <2>1, <2>2 DEF Arithmetic, Op, St, Effect
    <2>3. CASE isn.op # "unwind"
        <3>1. x' = [x EXCEPT ![isn.to] = Result(isn, St)] /\
              isn.op \notin {"push", "pop", "store", "test_bc", "test_flag", "jz", "ret"}
            BY <1>4, <2>3 DEF Arithmetic, Op, St, Result, Write, Cell, CellOf
        <3> QED
            BY <2>1, <2>3, <3>1 DEF St, Effect, Put
    <2> QED
        BY <2>2, <2>3
<1>5. CASE Test
    BY <1>5 DEF Test, Op, Advance, St, Effect
<1>6. CASE JumpTaken \/ JumpNotTaken
    BY <1>6 DEF JumpTaken, JumpNotTaken, Op
<1>7. CASE Return
    BY <1>7 DEF Return, Op, Advance, St, Effect
<1>8. CASE Returned
    BY <1>8 DEF Returned
<1> QED
    BY <1>1, <1>2, <1>3, <1>4, <1>5, <1>6, <1>7, <1>8 DEF Next

(* The instructions the flag takes part in.                                *)
LEMMA FlagStep ==
    ASSUME Next, Running
    PROVE  /\ isn.op = "test_bc" => zf' = (x[isn.from] = 0)
           /\ isn.op = "test_flag" => zf' = Looping(x[isn.from])
           /\ isn.op = "cmovz" =>
                 /\ pc' = pc + isn.len /\ UNCHANGED <<input, stack, io>>
                 /\ \/ zf = TRUE /\ x' = [x EXCEPT ![isn.to] = x[isn.from]]
                    \/ zf = FALSE /\ UNCHANGED x
           /\ isn.op = "jz" =>
                 /\ UNCHANGED <<input, x, stack, io, zf>>
                 /\ \/ zf = TRUE /\ pc' = pc + isn.len - isn.back
                    \/ zf = FALSE /\ pc' = pc + isn.len
           /\ isn.op = "load" => x[rcx] = Ptr
<1>1. CASE PushPop
    BY <1>1 DEF PushPop, Op
<1>2. CASE Move
    BY <1>2 DEF Move, Op, Advance, Write
<1>3. CASE StoreBack
    BY <1>3 DEF StoreBack, Op
<1>4. CASE Arithmetic
    BY <1>4 DEF Arithmetic, Op
<1>5. CASE Test
    BY <1>5 DEF Test, Op
<1>6. CASE JumpTaken
    BY <1>6 DEF JumpTaken, Op
<1>7. CASE JumpNotTaken
    BY <1>7 DEF JumpNotTaken, Op, Advance
<1>8. CASE Return
    BY <1>8 DEF Return, Op
<1>9. CASE Returned
    BY <1>9 DEF Returned
<1> QED
    BY <1>1, <1>2, <1>3, <1>4, <1>5, <1>6, <1>7, <1>8, <1>9 DEF Next

(* Instruction i of segment e, counted from 1, and the byte address of the *)
(* place before instruction j + 1.                                         *)
N == NumPrograms
Segment == 0 .. 2 * N + 1
Width(cv, e) == Span(cv, N, e)
Isn(cv, list, e, i) == Seg(cv, list, N, e)[i]
Pos(cv, list, e, j) == Offset(Code(cv, list))[Meet(cv, N, e) + j + 1]

(* There is a program.                                                     *)
LEMMA NIsNat == N \in Nat \ {0}
BY SizesAssumption DEF N

(* The lists a run starts from are lists of N programs.                    *)
LEMMA ListsListed ==
    ASSUME NEW list \in ProgramLists
    PROVE  Listed(list, N)
BY NIsNat, InputsAssumption DEF Listed, N

(* The width of a segment by its kind.                                     *)
LEMMA Widths ==
    ASSUME NEW cv \in Abi, NEW e \in Segment
    PROVE  /\ Width(cv, e) \in Nat \ {0}
           /\ e = 0 => Width(cv, e) = Pre(cv)
           /\ e \in 1 .. N - 1 => Width(cv, e) = 31
           /\ e = N => Width(cv, e) = 32
           /\ e \in N + 1 .. 2 * N => Width(cv, e) = 37
           /\ e = 2 * N + 1 => Width(cv, e) = Post(cv)
           /\ Saves(cv) \in {6, 8} /\ First(cv) \in {0, 1}
           /\ Pre(cv) = First(cv) + Saves(cv) + 12 /\ Post(cv) = Saves(cv) + 10
<1>1. N \in Nat \ {0} /\ e \in 0 .. 2 * N + 1
    BY NIsNat DEF Segment
<1>2. Saves(cv) \in {6, 8} /\ First(cv) \in {0, 1}
      /\ Pre(cv) = First(cv) + Saves(cv) + 12 /\ Post(cv) = Saves(cv) + 10
    BY DEF Saves, First, Pre, Post
<1>3. Pre(cv) \in Nat \ {0} /\ Post(cv) \in Nat \ {0}
    BY <1>2
<1> QED
    BY <1>1, <1>2, <1>3 DEF Width, Span

(* What the processor finds at a place, and where it goes from there.      *)
LEMMA Fetch ==
    ASSUME NEW cv \in Abi, NEW list \in ProgramLists, NEW e \in Segment,
           NEW j \in 0 .. Width(cv, e) - 1,
           NEW b, b = hashwx_compile_x86(cv, list)
    PROVE  /\ Pos(cv, list, e, j) \in DOMAIN b.code /\ Pos(cv, list, e, j) # b.pos
           /\ b.code[Pos(cv, list, e, j)] = Isn(cv, list, e, j + 1)
           /\ Pos(cv, list, e, j) \in Nat /\ Isn(cv, list, e, j + 1).len \in Nat \ {0}
           /\ Pos(cv, list, e, j + 1) \in Nat
           /\ Pos(cv, list, e, j) + Isn(cv, list, e, j + 1).len = Pos(cv, list, e, j + 1)
<1> DEFINE m == Meet(cv, N, 2 * N + 2)
           a == Meet(cv, N, e)
           c == Code(cv, list)
           off == Offset(c)
<1>1. N \in Nat \ {0} /\ Listed(list, N) /\ e \in 0 .. 2 * N + 1
    BY NIsNat, ListsListed DEF Segment
<1>2. Assembled(c, cv, list, N) /\ Laid(b, c, off, m)
    BY <1>1, BufferLaid
<1>3. a \in Nat /\ Width(cv, e) \in Nat \ {0} /\ a + Width(cv, e) <= m /\ m \in Nat
    <2>1. PICK f : f = 2 * N + 2
        OBVIOUS
    <2>2. f \in 0 .. 2 * N + 2 /\ e < f
        BY <1>1, <2>1
    <2>3. Meet(cv, N, e) + Span(cv, N, e) <= Meet(cv, N, f) /\ Meet(cv, N, f) \in Nat
        BY <1>1, <2>2, MeetOrder
    <2> QED
        BY <1>1, <2>1, <2>3, MeetNext DEF Width
<1> HIDE DEF m, a, c, off
<1>4. PICK i : i = a + j + 1
    OBVIOUS
<1>5. /\ i \in 1 .. m /\ i + 1 = a + (j + 1) + 1
      /\ i \in 1 .. m + 1 /\ i + 1 \in 1 .. m + 1 /\ m + 1 \in 1 .. m + 1
    BY <1>3, <1>4
<1>6. Pos(cv, list, e, j) = off[i] /\ Pos(cv, list, e, j + 1) = off[i + 1]
    BY <1>4, <1>5 DEF Pos, a, c, off
<1>7. c[i] = Isn(cv, list, e, j + 1)
    <2>1. j + 1 \in 1 .. Width(cv, e) /\ a + (j + 1) = i
        BY <1>3, <1>4
    <2>2. c[a + (j + 1)] = Seg(cv, list, N, e)[j + 1]
        BY <1>1, <1>2, <2>1 DEF Assembled, Width, a
    <2> QED
        BY <2>1, <2>2 DEF Isn
<1>8. Spread(off, c, m) /\ b.pos = off[m + 1] /\ DOMAIN b.code = {off[k] : k \in 1 .. m}
      /\ b.code[off[i]] = c[i]
    BY <1>2, <1>5 DEF Laid
<1>9. off[i] \in Nat /\ off[i + 1] \in Nat /\ off[i + 1] = off[i] + c[i].len /\ off[i] < off[m + 1]
      /\ off[m + 1] \in Nat
    <2>1. i < m + 1
        BY <1>5
    <2> QED
        BY <1>5, <1>8, <2>1 DEF Spread
<1>10. Isn(cv, list, e, j + 1).len \in Nat \ {0}
    <2>1. j + 1 \in 1 .. Width(cv, e)
        BY <1>3
    <2> QED
        BY <1>1, <2>1, SegLengths DEF Isn, Width
<1> QED
    BY <1>5, <1>6, <1>7, <1>8, <1>9, <1>10

(* The end of a segment is the beginning of the next, and the end of the   *)
(* last is the end of the code.                                            *)
LEMMA SegmentEnds ==
    ASSUME NEW cv \in Abi, NEW list \in ProgramLists, NEW e \in Segment,
           NEW b, b = hashwx_compile_x86(cv, list)
    PROVE  /\ e # 2 * N + 1 => Pos(cv, list, e, Width(cv, e)) = Pos(cv, list, e + 1, 0)
           /\ e = 2 * N + 1 => Pos(cv, list, e, Width(cv, e)) = b.pos
<1> DEFINE m == Meet(cv, N, 2 * N + 2)
           c == Code(cv, list)
<1>1. N \in Nat \ {0} /\ Listed(list, N) /\ e \in 0 .. 2 * N + 1
    BY NIsNat, ListsListed DEF Segment
<1>2. Laid(b, c, Offset(c), m)
    BY <1>1, BufferLaid
<1>3. Meet(cv, N, e + 1) = Meet(cv, N, e) + Width(cv, e) /\ Meet(cv, N, e + 1) \in Nat
    <2>1. Meet(cv, N, e) \in Nat /\ Width(cv, e) \in Nat /\ Meet(cv, N, e + 1) = Meet(cv, N, e) + Width(cv, e)
        BY <1>1, MeetNext DEF Width
    <2> QED
        BY <2>1
<1>4. Meet(cv, N, e + 1) + 0 + 1 = Meet(cv, N, e) + Width(cv, e) + 1
    BY <1>3
<1>5. e = 2 * N + 1 => e + 1 = 2 * N + 2
    BY <1>1
<1> QED
    BY <1>2, <1>3, <1>4, <1>5 DEF Pos, Laid

(* The program of a segment, its phase, and where its jump is.             *)
PhaseOf(e) == IF e <= N THEN "reg" ELSE "mem"
ProgramOf(list, e) == IF e <= N THEN list[e - 1] ELSE list[e - N - 1]
Jump(e) == IF e <= N THEN 20 ELSE 32

(* What a segment between the prologue and the epilogue is.                *)
LEMMA ProgramHere ==
    ASSUME NEW list \in ProgramLists, NEW e \in 1 .. 2 * N
    PROVE  /\ ProgramOf(list, e) \in Program /\ PhaseOf(e) \in Phases /\ e \in Segment
           /\ PhaseOf(e) = "reg" <=> e \in 1 .. N
           /\ PhaseOf(e) = "mem" <=> e \in N + 1 .. 2 * N
           /\ Jump(e) = Begin(PhaseOf(e), 7) + 3
<1>1. N \in Nat \ {0} /\ list \in [0 .. N - 1 -> Program]
    BY NIsNat, ListsListed DEF Listed
<1>2. ProgramOf(list, e) \in Program
    <2>1. CASE e <= N
        <3>1. e - 1 \in 0 .. N - 1
            BY <1>1, <2>1
        <3> QED
            BY <1>1, <2>1, <3>1 DEF ProgramOf
    <2>2. CASE ~(e <= N)
        <3>1. e - N - 1 \in 0 .. N - 1
            BY <1>1, <2>2
        <3> QED
            BY <1>1, <2>2, <3>1 DEF ProgramOf
    <2> QED
        BY <2>1, <2>2
<1> QED
    BY <1>1, <1>2 DEF PhaseOf, Phases, Segment, Jump, Begin

(* The instructions of a program.                                          *)
LEMMA ProgramIsns ==
    ASSUME NEW cv \in Abi, NEW list \in ProgramLists, NEW e \in 1 .. 2 * N
    PROVE  LET p == ProgramOf(list, e)
               ph == PhaseOf(e)
           IN  /\ \A k \in 0 .. 9 : \A o \in 1 .. Size(ph, k) :
                     Isn(cv, list, e, Begin(ph, k) + o) = Piece(ph, p, k)[o]
               /\ e \in 1 .. N => \A k \in 1 .. 8 : Isn(cv, list, e, 23 + k) = Push(R(k - 1))
               /\ e = N => Isn(cv, list, e, 32) = ClearBc
<1> DEFINE p == ProgramOf(list, e)
           ph == PhaseOf(e)
           f == compile_program(ph, p)
<1>1. /\ p \in Program /\ ph \in Phases /\ N \in Nat \ {0}
      /\ ph = "reg" <=> e \in 1 .. N
      /\ ph = "mem" <=> e \in N + 1 .. 2 * N
    BY NIsNat, ProgramHere
<1>2. Emission(f, ph, p, 10)
    BY <1>1, ProgramEmitted
<1>3. ph = "reg" => \A i \in 1 .. 31 : Isn(cv, list, e, i) = Storing(p)[i]
    <2> SUFFICES ASSUME ph = "reg", NEW i \in 1 .. 31 PROVE Isn(cv, list, e, i) = Storing(p)[i]
        OBVIOUS
    <2>1. e \in 1 .. N /\ p = list[e - 1]
        BY <1>1 DEF ProgramOf
    <2>2. Listing(Storing(p), 31)
        BY <1>1, StoringIs
    <2>3. CASE e < N
        BY <1>1, <2>1, <2>3 DEF Isn, Seg
    <2>4. CASE e = N
        <3>1. Seg(cv, list, N, e) = Storing(p) \o <<ClearBc>>
            BY <1>1, <2>1, <2>4 DEF Seg
        <3>2. Listing(<<ClearBc>>, 1)
            BY DEF Listing
        <3>3. Appended(Storing(p), 31, <<ClearBc>>, 1)
            BY <2>2, <3>2, Concat
        <3>4. (Storing(p) \o <<ClearBc>>)[i] = Storing(p)[i]
            BY <3>3 DEF Appended
        <3> QED
            BY <3>1, <3>4 DEF Isn
    <2> QED
        BY <1>1, <2>1, <2>3, <2>4
<1>4. e = N => Isn(cv, list, e, 32) = ClearBc
    <2> SUFFICES ASSUME e = N PROVE Isn(cv, list, e, 32) = ClearBc
        OBVIOUS
    <2>1. p = list[e - 1]
        BY <1>1 DEF ProgramOf
    <2>2. Listing(Storing(p), 31)
        BY <1>1, StoringIs
    <2>3. Seg(cv, list, N, e) = Storing(p) \o <<ClearBc>>
        BY <1>1, <2>1 DEF Seg
    <2>4. Listing(<<ClearBc>>, 1) /\ <<ClearBc>>[1] = ClearBc
        BY DEF Listing
    <2>5. Appended(Storing(p), 31, <<ClearBc>>, 1)
        BY <2>2, <2>4, Concat
    <2>6. \A i \in 1 .. 1 : (Storing(p) \o <<ClearBc>>)[31 + i] = <<ClearBc>>[i]
        BY <2>5, Zenon DEF Appended
    <2>7. 31 + 1 = 32 /\ 1 \in 1 .. 1
        OBVIOUS
    <2>8. (Storing(p) \o <<ClearBc>>)[31 + 1] = <<ClearBc>>[1]
        BY <2>6, <2>7, Zenon
    <2> QED
        BY <2>3, <2>4, <2>7, <2>8 DEF Isn
<1>5. \A i \in 1 .. Begin(ph, 10) : Isn(cv, list, e, i) = f[i]
    <2>1. CASE ph = "reg"
        <3>1. Begin(ph, 10) = 23
            BY <2>1 DEF Begin
        <3>2. \A o \in 1 .. 23 : Storing(p)[o] = f[o]
            BY <1>1, <2>1, StoringIs
        <3> QED
            BY <1>3, <2>1, <3>1, <3>2
    <2>2. CASE ph = "mem"
        <3>1. Seg(cv, list, N, e) = f
            BY <1>1, <2>2 DEF Seg, ProgramOf
        <3> QED
            BY <3>1 DEF Isn
    <2> QED
        BY <1>1, <2>1, <2>2 DEF Phases
<1>6. ASSUME NEW k \in 0 .. 9, NEW o \in 1 .. Size(ph, k)
      PROVE  Isn(cv, list, e, Begin(ph, k) + o) = Piece(ph, p, k)[o]
    <2>1. Begin(ph, k) + o \in 1 .. Begin(ph, 10)
        BY <1>1 DEF Begin, Size, Phases
    <2>2. f[Begin(ph, k) + o] = Piece(ph, p, k)[o]
        BY <1>2 DEF Emission
    <2> QED
        BY <1>5, <2>1, <2>2
<1>7. ASSUME e \in 1 .. N, NEW k \in 1 .. 8 PROVE Isn(cv, list, e, 23 + k) = Push(R(k - 1))
    <2>1. 23 + k \in 1 .. 31
        OBVIOUS
    <2>2. Storing(p)[23 + k] = Push(R(k - 1))
        BY <1>1, StoringIs
    <2> QED
        BY <1>1, <1>3, <1>7, <2>1, <2>2
<1> QED
    BY <1>4, <1>6, <1>7

(* The jump back lands behind the first instruction of the program.        *)
LEMMA JumpLands ==
    ASSUME NEW cv \in Abi, NEW list \in ProgramLists, NEW e \in 1 .. 2 * N
    PROVE  LET at == Isn(cv, list, e, Jump(e) + 1)
           IN  /\ at = [op |-> "jz", len |-> 2, back |-> Back(PhaseOf(e))]
               /\ Pos(cv, list, e, Jump(e)) + 2 - at.back = Pos(cv, list, e, 1)
               /\ Pos(cv, list, e, 1) < Pos(cv, list, e, Jump(e))
<1> DEFINE p == ProgramOf(list, e)
           ph == PhaseOf(e)
           f == compile_program(ph, p)
           u == [i \in 0 .. Width(cv, e) |-> Pos(cv, list, e, i)]
<1>1. p \in Program /\ ph \in Phases /\ e \in Segment /\ Jump(e) = Begin(ph, 7) + 3
    BY ProgramHere
<1>2. Emission(f, ph, p, 10)
    BY <1>1, ProgramEmitted
<1>3. Width(cv, e) \in Nat /\ Begin(ph, 10) <= Width(cv, e) /\ Begin(ph, 10) \in Nat
    BY <1>1, Widths, NIsNat DEF Begin, PhaseOf, Segment
<1>4. \A i \in 0 .. Width(cv, e) : u[i] = Pos(cv, list, e, i)
    OBVIOUS
<1> HIDE DEF u
<1>5. \A i \in 1 .. Begin(ph, 10) : Isn(cv, list, e, i) = f[i]
    <2> SUFFICES ASSUME NEW i \in 1 .. Begin(ph, 10) PROVE Isn(cv, list, e, i) = f[i]
        OBVIOUS
    <2>1. PICK k \in 0 .. 9 : \E o \in 1 .. Size(ph, k) : i = Begin(ph, k) + o
        <3>1. \E k \in 0 .. 10 - 1 : \E o \in 1 .. Size(ph, k) : i = Begin(ph, k) + o
            BY <1>1, LineOf
        <3> QED
            BY <3>1
    <2>2. PICK o \in 1 .. Size(ph, k) : i = Begin(ph, k) + o
        BY <2>1
    <2>3. f[Begin(ph, k) + o] = Piece(ph, p, k)[o]
        BY <1>2 DEF Emission
    <2> QED
        BY <2>2, <2>3, ProgramIsns
<1>6. ASSUME NEW j \in 0 .. Width(cv, e) - 1
      PROVE  u[j] \in Nat /\ u[j + 1] \in Nat /\ u[j + 1] = u[j] + Isn(cv, list, e, j + 1).len
    <2>1. j \in 0 .. Width(cv, e) /\ j + 1 \in 0 .. Width(cv, e)
        BY <1>3
    <2>2. /\ Pos(cv, list, e, j) \in Nat /\ Pos(cv, list, e, j + 1) \in Nat
          /\ Pos(cv, list, e, j) + Isn(cv, list, e, j + 1).len = Pos(cv, list, e, j + 1)
        BY <1>1, Fetch
    <2> QED
        BY <1>4, <2>1, <2>2
<1>7. \A i \in 1 .. Begin(ph, 10) : u[0 + i] = u[0 + i - 1] + f[i].len
    <2> SUFFICES ASSUME NEW i \in 1 .. Begin(ph, 10) PROVE u[0 + i] = u[0 + i - 1] + f[i].len
        OBVIOUS
    <2>1. PICK j : j = i - 1
        OBVIOUS
    <2>2. j \in 0 .. Width(cv, e) - 1 /\ j + 1 = i /\ 0 + i = i /\ 0 + i - 1 = j
        BY <1>3, <2>1
    <2> QED
        BY <1>5, <1>6, <2>2
<1>8. 0 \in Nat /\ u[0] \in Nat
    <2>1. 0 \in 0 .. Width(cv, e) - 1
        BY <1>1, <1>3, Widths
    <2> QED
        BY <1>6, <2>1
<1>9. PICK h : h = Begin(ph, 7)
    OBVIOUS
<1>10. h \in Nat /\ h + 4 <= Begin(ph, 10) /\ h + 3 = Jump(e) /\ Size(ph, 7) = 4 /\ h >= 5
       /\ ByteAt(ph, 7) \in Nat /\ ByteAt(ph, 7) + 8 = Back(ph) /\ Back(ph) \in Nat /\ Back(ph) > 2
    BY <1>1, <1>9 DEF Begin, Phases, Size, ByteAt, Back
<1>11. u[h] = u[0] + ByteAt(ph, 7)
    <2>1. \A k \in 0 .. 10 : u[0 + Begin(ph, k)] = u[0] + ByteAt(ph, k)
        BY <1>1, <1>2, <1>7, <1>8, BytesUpTo
    <2>2. u[0 + Begin(ph, 7)] = u[0] + ByteAt(ph, 7) /\ 0 + h = h
        BY <1>10, <2>1
    <2> QED
        BY <1>9, <2>2
<1>12. BranchingIs(ph) /\ Piece(ph, p, 7) = Branching(ph)
    BY <1>1, BranchIs, PieceIs
<1>13. \A o \in 1 .. 4 : Isn(cv, list, e, h + o) = Branching(ph)[o]
    BY <1>9, <1>10, <1>12, ProgramIsns
<1>14. Isn(cv, list, e, h + 4) = [op |-> "jz", len |-> 2, back |-> Back(ph)]
    BY <1>12, <1>13 DEF BranchingIs
<1>15. Isn(cv, list, e, h + 1).len = 2 /\ Isn(cv, list, e, h + 2).len = 3
       /\ Isn(cv, list, e, h + 3).len = 3
    BY <1>12, <1>13 DEF BranchingIs, NextBc
<1>16. u[h + 3] = u[0] + Back(ph)
    <2>1. h \in 0 .. Width(cv, e) - 1 /\ h + 1 \in 0 .. Width(cv, e) - 1 /\ h + 2 \in 0 .. Width(cv, e) - 1
          /\ (h + 1) + 1 = h + 2 /\ (h + 2) + 1 = h + 3
        BY <1>3, <1>10
    <2>2. u[h + 1] = u[h] + 2 /\ u[h + 2] = u[h + 1] + 3 /\ u[h + 3] = u[h + 2] + 3
        BY <1>6, <1>15, <2>1
    <2> QED
        BY <1>8, <1>10, <1>11, <2>2
<1>17. u[1] = u[0] + 2
    <2>1. Isn(cv, list, e, 1) = [op |-> "test_bc", len |-> 2, from |-> rbp]
        <3>1. RmcgIs(p[0]) /\ Piece(ph, p, 0) = CompileRmcg(p[0])
            BY <1>1, PiecesAre, PieceIs
        <3>2. Begin(ph, 0) + 1 = 1 /\ 1 \in 1 .. Size(ph, 0) /\ 0 \in 0 .. 9
            BY DEF Begin, Size
        <3>3. Isn(cv, list, e, Begin(ph, 0) + 1) = Piece(ph, p, 0)[1]
            BY <3>2, ProgramIsns
        <3> QED
            BY <3>1, <3>2, <3>3 DEF RmcgIs
    <2>2. 0 \in 0 .. Width(cv, e) - 1 /\ 0 + 1 = 1
        BY <1>1, <1>3, Widths
    <2>3. u[0 + 1] = u[0] + Isn(cv, list, e, 0 + 1).len
        BY <1>6, <2>2
    <2> QED
        BY <2>1, <2>2, <2>3
<1>18. u[h + 3] = Pos(cv, list, e, Jump(e)) /\ u[1] = Pos(cv, list, e, 1)
    BY <1>3, <1>4, <1>10
<1>19. Jump(e) + 1 = h + 4
    BY <1>10
<1>20. u[h + 3] + 2 - Back(ph) = u[1] /\ u[1] < u[h + 3]
    BY <1>8, <1>10, <1>16, <1>17
<1> QED
    BY <1>14, <1>18, <1>19, <1>20

(* Instructions that only write a register, and not the stack pointer.     *)
Loud == {"push", "pop", "load", "store", "unwind", "test_bc", "cmovz", "test_flag", "jz", "ret"}
Quiet(in) == in.op \notin Loud /\ in.to # rsp

(* The names of the templates by opcode.                                   *)
LEMMA Names ==
    /\ tpl_mul(0) = "or_imm" /\ tpl_mul(1) = "xor_imm" /\ tpl_mul(2) = "add_imm"
    /\ \A o \in 4 .. 12 :
          /\ tpl_pre_xas((o - 4) \div 3)
                 = IF o \in 4 .. 6 THEN "ror_imm" ELSE IF o \in 7 .. 9 THEN "sar_imm" ELSE "shr_imm"
          /\ tpl_xas_reg((o - 4) % 3)
                 = IF o \in {4, 7, 10} THEN "xor" ELSE IF o \in {5, 8, 11} THEN "add" ELSE "sub"
          /\ tpl_xas_mem((o - 4) % 3)
                 = IF o \in {4, 7, 10} THEN "xor_mem"
                   ELSE IF o \in {5, 8, 11} THEN "add_mem" ELSE "sub_mem"
<1>1. tpl_mul(0) = "or_imm" /\ tpl_mul(1) = "xor_imm" /\ tpl_mul(2) = "add_imm"
    BY DEF tpl_mul
<1>2. /\ tpl_pre_xas(0) = "ror_imm" /\ tpl_pre_xas(1) = "sar_imm" /\ tpl_pre_xas(2) = "shr_imm"
      /\ tpl_xas_reg(0) = "xor" /\ tpl_xas_reg(1) = "add" /\ tpl_xas_reg(2) = "sub"
      /\ tpl_xas_mem(0) = "xor_mem" /\ tpl_xas_mem(1) = "add_mem" /\ tpl_xas_mem(2) = "sub_mem"
    BY DEF tpl_pre_xas, tpl_xas_reg, tpl_xas_mem
<1>3. ASSUME NEW o \in 4 .. 12
      PROVE  /\ (o - 4) \div 3 = IF o \in 4 .. 6 THEN 0 ELSE IF o \in 7 .. 9 THEN 1 ELSE 2
             /\ (o - 4) % 3 = IF o \in {4, 7, 10} THEN 0 ELSE IF o \in {5, 8, 11} THEN 1 ELSE 2
    OBVIOUS
<1>4. ASSUME NEW o \in 4 .. 12
      PROVE  /\ tpl_pre_xas((o - 4) \div 3)
                 = IF o \in 4 .. 6 THEN "ror_imm" ELSE IF o \in 7 .. 9 THEN "sar_imm" ELSE "shr_imm"
             /\ tpl_xas_reg((o - 4) % 3)
                 = IF o \in {4, 7, 10} THEN "xor" ELSE IF o \in {5, 8, 11} THEN "add" ELSE "sub"
             /\ tpl_xas_mem((o - 4) % 3)
                 = IF o \in {4, 7, 10} THEN "xor_mem"
                   ELSE IF o \in {5, 8, 11} THEN "add_mem" ELSE "sub_mem"
    BY <1>2, <1>3
<1> QED
    BY <1>1, <1>4

(* The arithmetic of a program is quiet.                                   *)
LEMMA LineQuiet ==
    ASSUME NEW p \in Program, NEW ph \in Phases, NEW k \in {1, 2, 3, 4, 5, 6, 8},
           NEW o \in 1 .. Size(ph, k)
    PROVE  Quiet(Piece(ph, p, k)[o])
<1>1. p[k].dst \in 0 .. 7 /\ LaidOut(p)
    <2>1. k \in Line /\ p[k] \in Instr
        BY DEF Program, Line
    <2> QED
        BY <2>1, ProgramLaidOut DEF Instr, Dst
<1>2. R(p[k].dst) # rsp /\ rax # rsp
    BY <1>1 DEF R, rsp, rax
<1>3. CASE k \in {2, 4, 6}
    <2>1. Piece(ph, p, k) = CompileMul(ph, p[k]) /\ RegMulIs(p[k]) /\ MemMulIs(p[k])
        BY <1>3, PieceIs, PiecesAre
    <2>2. p[k].opcode \in {0, 1, 2}
        BY <1>1, <1>3 DEF LaidOut
    <2>3. tpl_mul(p[k].opcode) \notin Loud
        BY <2>2, Names DEF Loud
    <2>4. CASE ph = "reg"
        <3>1. o = 1 \/ o = 2
            BY <1>3, <2>4 DEF Size
        <3> QED
            BY <1>2, <2>1, <2>3, <2>4, <3>1 DEF RegMulIs, Quiet, Loud
    <2>5. CASE ph = "mem"
        <3>1. o = 1 \/ o = 2 \/ o = 3 \/ o = 4
            BY <1>3, <2>5 DEF Size
        <3> QED
            BY <1>2, <2>1, <2>3, <2>5, <3>1 DEF MemMulIs, Quiet, Loud, MovReg
    <2> QED
        BY <2>4, <2>5 DEF Phases
<1>4. CASE k \in {1, 3, 5, 8}
    <2>1. Piece(ph, p, k) = CompileXas(ph, p[k]) /\ RegXasIs(p[k]) /\ MemXasIs(p[k])
        BY <1>4, PieceIs, PiecesAre
    <2>2. p[k].opcode \in 4 .. 12
        BY <1>1, <1>4 DEF LaidOut
    <2>3. PreXas(p[k]) \notin Loud /\ tpl_xas_reg((p[k].opcode - 4) % 3) \notin Loud
          /\ tpl_xas_mem((p[k].opcode - 4) % 3) \notin Loud
        BY <2>2, Names DEF Loud, PreXas
    <2>4. CASE ph = "reg"
        <3>1. o = 1 \/ o = 2
            BY <1>4, <2>4 DEF Size
        <3> QED
            BY <1>2, <2>1, <2>3, <2>4, <3>1 DEF RegXasIs, Quiet, Loud
    <2>5. CASE ph = "mem"
        <3>1. o = 1 \/ o = 2 \/ o = 3 \/ o = 4
            BY <1>4, <2>5 DEF Size
        <3> QED
            BY <1>2, <2>1, <2>3, <2>5, <3>1 DEF MemXasIs, Quiet, Loud, MovReg
    <2> QED
        BY <2>4, <2>5 DEF Phases
<1> QED
    BY <1>3, <1>4

(* The instructions of a program that are not arithmetic.                  *)
Target(in) == in = [op |-> "test_bc", len |-> 2, from |-> rbp]
Taking(in) == in = [op |-> "cmovz", len |-> 3, to |-> rbx, from |-> rbp]
Testing(in) == in = [op |-> "test_flag", len |-> 3, from |-> rdx]

(* Which instructions of a program touch more than a register.             *)
LEMMA ProgramKinds ==
    ASSUME NEW cv \in Abi, NEW list \in ProgramLists, NEW e \in 1 .. 2 * N,
           NEW i \in 1 .. Width(cv, e)
    PROVE  LET in == Isn(cv, list, e, i)
           IN  /\ i = 1 => Target(in)
               /\ i = 2 => Taking(in)
               /\ i = Jump(e) => Testing(in)
               /\ i = Jump(e) + 1 => in.op = "jz"
               /\ e \in 1 .. N /\ i \in 24 .. 31 => in = Push(R(i - 24))
               /\ i \notin {1, 2, Jump(e), Jump(e) + 1} /\ ~(e \in 1 .. N /\ i \in 24 .. 31)
                     => Quiet(in)
<1> DEFINE in == Isn(cv, list, e, i)
           p == ProgramOf(list, e)
           ph == PhaseOf(e)
<1>1. /\ p \in Program /\ ph \in Phases /\ N \in Nat \ {0} /\ e \in Segment
      /\ ph = "reg" <=> e \in 1 .. N
      /\ ph = "mem" <=> e \in N + 1 .. 2 * N
      /\ Jump(e) = Begin(ph, 7) + 3
    BY NIsNat, ProgramHere
<1>2. CASE i \in 1 .. Begin(ph, 10)
    <2>1. PICK k \in 0 .. 9 : \E o \in 1 .. Size(ph, k) : i = Begin(ph, k) + o
        <3>1. \E k \in 0 .. 10 - 1 : \E o \in 1 .. Size(ph, k) : i = Begin(ph, k) + o
            BY <1>1, <1>2, LineOf
        <3> QED
            BY <3>1
    <2>2. PICK o \in 1 .. Size(ph, k) : i = Begin(ph, k) + o
        BY <2>1
    <2>3. in = Piece(ph, p, k)[o]
        BY <2>2, ProgramIsns
    <2>4. ~(e \in 1 .. N /\ i \in 24 .. 31)
        BY <1>1, <1>2 DEF Begin, Phases
    <2>5. CASE k = 0
        <3>1. i = o /\ o \in 1 .. 5 /\ Jump(e) > 5 /\ Jump(e) \in Nat
            BY <1>1, <2>2, <2>5 DEF Begin, Size, Phases
        <3>2. RmcgIs(p[0]) /\ Piece(ph, p, 0) = CompileRmcg(p[0])
            BY <1>1, PiecesAre, PieceIs
        <3>3. p[0].dst \in 0 .. 7
            BY <1>1 DEF Program, Instr, Line, Dst
        <3>4. R(p[0].dst) # rsp /\ rdx # rsp
            BY <3>3 DEF R, rsp, rdx
        <3>5. /\ o = 1 => Target(in)
              /\ o = 2 => Taking(in)
              /\ o \in 3 .. 5 => Quiet(in)
            BY <2>3, <2>5, <3>1, <3>2, <3>4 DEF RmcgIs, Target, Taking, Quiet, Loud, MovReg
        <3> QED
            BY <2>4, <3>1, <3>5
    <2>6. CASE k = 7
        <3>1. o \in 1 .. 4 /\ i = Jump(e) - 3 + o /\ i > 5 /\ Jump(e) \in Nat
            BY <1>1, <2>2, <2>6 DEF Begin, Size, Phases
        <3>2. BranchingIs(ph) /\ Piece(ph, p, 7) = Branching(ph)
            BY <1>1, BranchIs, PieceIs
        <3>3. /\ o = 3 => Testing(in)
              /\ o = 4 => in.op = "jz"
              /\ o \in 1 .. 2 => Quiet(in)
            BY <2>3, <2>6, <3>1, <3>2 DEF BranchingIs, Testing, Quiet, Loud, NextBc, rdx, rbp, rsp
        <3> QED
            BY <2>4, <3>1, <3>3
    <2>7. CASE k \in {1, 2, 3, 4, 5, 6, 8}
        <3>1. i > 5 /\ (i < Jump(e) - 2 \/ i > Jump(e) + 1) /\ Jump(e) \in Nat
            BY <1>1, <2>2, <2>7 DEF Begin, Size, Phases
        <3>2. Quiet(in)
            BY <1>1, <2>3, <2>7, LineQuiet
        <3> QED
            BY <2>4, <3>1, <3>2
    <2>8. k # 9
        BY <2>2 DEF Size
    <2> QED
        BY <2>5, <2>6, <2>7, <2>8
<1>3. CASE i \notin 1 .. Begin(ph, 10)
    <2>1. e \in 1 .. N /\ Begin(ph, 10) = 23 /\ i \in 24 .. 32 /\ Jump(e) = 20
        BY <1>1, <1>3, Widths DEF Begin, Phases, PhaseOf, Jump
    <2>2. CASE i \in 24 .. 31
        <3>1. PICK k : k = i - 23
            OBVIOUS
        <3>2. k \in 1 .. 8 /\ 23 + k = i /\ k - 1 = i - 24
            BY <2>2, <3>1
        <3>3. in = Push(R(k - 1))
            BY <2>1, <3>2, ProgramIsns
        <3> QED
            BY <2>1, <2>2, <3>2, <3>3
    <2>3. CASE i = 32
        <3>1. e = N
            BY <1>1, <2>1, <2>3, Widths
        <3>2. in = ClearBc
            BY <2>3, <3>1, ProgramIsns
        <3> QED
            BY <2>1, <2>3, <3>2 DEF ClearBc, Quiet, Loud, rbx, rsp
    <2> QED
        BY <2>1, <2>2, <2>3
<1> QED
    BY <1>2, <1>3

(* The prologue and the epilogue.                                          *)
LEMMA PrologueIsns ==
    ASSUME NEW cv \in Abi, NEW list
    PROVE  LET f == First(cv)
               d == Saves(cv)
           IN  /\ f = 1 => Isn(cv, list, 0, 1) = MovReg(rcx, rdi)
               /\ \A k \in 1 .. d : Isn(cv, list, 0, f + k) = Push(SavedRegs(cv)[k])
               /\ \A k \in 1 .. 10 : Isn(cv, list, 0, f + d + k) = Load(HomeOf(k - 1), k - 1)
               /\ Isn(cv, list, 0, f + d + 11) = ClearBc
               /\ Isn(cv, list, 0, f + d + 12) = NextBc
<1>1. PrologueIs(cv) /\ Seg(cv, list, N, 0) = code_prologue(cv)
    BY ThePrologue DEF Seg
<1> QED
    BY <1>1 DEF PrologueIs, Isn, First

(* The instructions of the epilogue by their places.                       *)
LEMMA EpilogueIsns ==
    ASSUME NEW cv \in Abi, NEW list, NEW e, e = 2 * N + 1
    PROVE  LET d == Saves(cv)
           IN  /\ Isn(cv, list, e, 1) = Unwind
               /\ \A k \in 1 .. 8 : Isn(cv, list, e, 1 + k) = StoreTo(R(k - 1), k - 1)
               /\ \A k \in 1 .. d : Isn(cv, list, e, 9 + k) = Pop(SavedRegs(cv)[d + 1 - k])
               /\ Isn(cv, list, e, 10 + d) = Ret
<1>1. EpilogueIs(cv) /\ Seg(cv, list, N, e) = code_epilogue(cv)
    BY NIsNat, TheEpilogue DEF Seg
<1> QED
    BY <1>1 DEF EpilogueIs, Isn

(* What an instruction does not disturb.                                   *)
LEMMA EffectDomains ==
    ASSUME NEW in, NEW s
    PROVE  DOMAIN Effect(in, s).x = DOMAIN s.x /\ DOMAIN Effect(in, s).stack = DOMAIN s.stack
BY DEF Effect, Put

(* A quiet instruction writes its register.                                *)
LEMMA QuietEffect ==
    ASSUME NEW in, Quiet(in), NEW s
    PROVE  Effect(in, s) = Put(s, in.to, Result(in, s))
BY DEF Quiet, Loud, Effect

(* A load reads r[].                                                       *)
LEMMA LoadEffect ==
    ASSUME NEW n, NEW k, NEW s
    PROVE  Effect(Load(n, k), s) = Put(s, n, s.io[k])
BY DEF Load, Effect, Result

(* How far down the stack is before instruction j + 1 of segment e, in     *)
(* cells from the lowest.                                                  *)
Deep(cv) == MemSize + Saves(cv)
Top(e) == IF e <= N THEN MemSize - 8 * (e - 1) ELSE 0
Sp(cv, e, j) ==
    IF e = 0
    THEN IF j <= First(cv) THEN Deep(cv)
         ELSE IF j <= First(cv) + Saves(cv) THEN Deep(cv) - (j - First(cv)) ELSE MemSize
    ELSE IF e <= N THEN IF j <= 23 THEN Top(e) ELSE IF j <= 31 THEN Top(e) - (j - 23) ELSE Top(e) - 8
    ELSE IF e <= 2 * N THEN 0
    ELSE IF j = 0 THEN 0 ELSE IF j <= 9 THEN MemSize
    ELSE IF j <= 9 + Saves(cv) THEN MemSize + (j - 9) ELSE Deep(cv)

(* The stack pointer goes down by eight places with each program of the    *)
(* first phase.                                                            *)
LEMMA TopFacts ==
    ASSUME NEW e \in 1 .. N
    PROVE  /\ MemSize = 8 * N /\ MemSize \in Nat /\ Top(e) = MemSize - 8 * (e - 1)
           /\ Top(e) \in 8 .. MemSize /\ Top(e + 1) = Top(e) - 8
BY NIsNat DEF Top, MemSize, N

(* The stack pointer stays between 0 and the deepest place.                *)
LEMMA SpTyped ==
    ASSUME NEW cv \in Abi, NEW e \in Segment, NEW j \in 0 .. Width(cv, e)
    PROVE  Sp(cv, e, j) \in 0 .. Deep(cv) /\ MemSize \in Nat /\ Deep(cv) \in Nat
<1>1. MemSize \in Nat /\ Saves(cv) \in {6, 8} /\ First(cv) \in {0, 1} /\ N \in Nat \ {0}
      /\ e \in 0 .. 2 * N + 1
    BY NIsNat, Widths DEF MemSize, N, Segment
<1>2. Deep(cv) \in Nat /\ Deep(cv) = MemSize + Saves(cv)
    BY <1>1 DEF Deep
<1>3. j \in Nat
    BY Widths
<1>4. CASE e = 0
    BY <1>1, <1>2, <1>3, <1>4 DEF Sp
<1>5. CASE e \in 1 .. N
    <2>1. Top(e) \in 8 .. MemSize
        BY <1>5, TopFacts
    <2> QED
        BY <1>1, <1>2, <1>3, <1>5, <2>1 DEF Sp
<1>6. CASE e \in N + 1 .. 2 * N
    BY <1>1, <1>2, <1>3, <1>6 DEF Sp
<1>7. CASE e = 2 * N + 1
    BY <1>1, <1>2, <1>3, <1>7 DEF Sp
<1> QED
    BY <1>1, <1>4, <1>5, <1>6, <1>7

(* The segments meet at the same depth.                                    *)
LEMMA SpMeets ==
    ASSUME NEW cv \in Abi, NEW e \in 0 .. 2 * N
    PROVE  Sp(cv, e, Width(cv, e)) = Sp(cv, e + 1, 0) /\ Sp(cv, e + 1, 0) = Top(e + 1)
<1>1. MemSize = 8 * N /\ N \in Nat \ {0} /\ e \in Segment /\ e + 1 \in 0 .. 2 * N + 1
      /\ Saves(cv) \in {6, 8} /\ First(cv) \in {0, 1}
    BY NIsNat, Widths DEF MemSize, N, Segment
<1>2. CASE e = 0
    BY <1>1, <1>2, Widths DEF Sp, Top
<1>3. CASE e \in 1 .. N
    <2>1. Width(cv, e) = 31 \/ (Width(cv, e) = 32)
        BY <1>1, <1>3, Widths
    <2>2. Top(e + 1) = Top(e) - 8 /\ Top(e) \in Nat
        BY <1>3, TopFacts
    <2>3. Sp(cv, e, Width(cv, e)) = Top(e + 1)
        BY <1>1, <1>3, <2>1, <2>2 DEF Sp
    <2>4. Sp(cv, e + 1, 0) = Top(e + 1)
        BY <1>1, <1>3 DEF Sp, Top
    <2> QED
        BY <2>3, <2>4
<1>4. CASE e \in N + 1 .. 2 * N
    BY <1>1, <1>4 DEF Sp, Top
<1> QED
    BY <1>1, <1>2, <1>3, <1>4

(* Every instruction leaves the stack pointer where the next expects it.   *)
LEMMA SpStep ==
    ASSUME NEW cv \in Abi, NEW list \in ProgramLists, NEW e \in Segment,
           NEW j \in 0 .. Width(cv, e) - 1, NEW in, in = Isn(cv, list, e, j + 1), in.op # "cmovz",
           NEW s, DOMAIN s.x = 0 .. 15, s.x[rsp] = 8 * Sp(cv, e, j)
    PROVE  Effect(in, s).x[rsp] = 8 * Sp(cv, e, j + 1)
<1>0. /\ MemSize \in Nat /\ Saves(cv) \in {6, 8} /\ First(cv) \in {0, 1} /\ N \in Nat \ {0}
      /\ e \in 0 .. 2 * N + 1 /\ j \in Nat /\ Deep(cv) = MemSize + Saves(cv)
      /\ Width(cv, e) \in Nat
    BY NIsNat, Widths DEF MemSize, N, Segment, Deep
<1>1. Sp(cv, e, j) \in Nat
    <2>1. j \in 0 .. Width(cv, e)
        BY <1>0
    <2> QED
        BY <1>0, <2>1, SpTyped
<1>2. rsp = 4 /\ 4 \in 0 .. 15
    BY DEF rsp
<1>3. PICK t : t = Effect(in, s)
    OBVIOUS
<1>4. ASSUME Quiet(in) PROVE t.x[rsp] = s.x[rsp]
    <2>1. t = Put(s, in.to, Result(in, s)) /\ in.to # rsp
        BY <1>3, <1>4, QuietEffect DEF Quiet
    <2> QED
        BY <2>1 DEF Put
<1>5. ASSUME NEW q, in = Push(q) PROVE t.x[rsp] = 8 * (Sp(cv, e, j) - 1)
    <2>1. t.x = [s.x EXCEPT ![rsp] = @ - 8]
        BY <1>3, <1>5 DEF Push, Effect
    <2> QED
        BY <1>1, <1>2, <2>1
<1>6. ASSUME in.op \in {"test_bc", "test_flag", "jz", "ret", "store"} PROVE t.x[rsp] = s.x[rsp]
    BY <1>3, <1>6 DEF Effect
<1>7. CASE e = 0
    <2>1. Width(cv, e) = First(cv) + Saves(cv) + 12
        BY <1>7, Widths
    <2>2. CASE j < First(cv)
        <3>1. First(cv) = 1 /\ j = 0
            BY <1>0, <2>2
        <3>2. in = MovReg(rcx, rdi)
            BY <1>7, <3>1, PrologueIsns
        <3>3. Quiet(in)
            BY <3>2 DEF MovReg, Quiet, Loud, rcx, rsp
        <3> QED
            BY <1>0, <1>3, <1>4, <1>7, <3>1, <3>3 DEF Sp
    <2>3. CASE j >= First(cv) /\ j < First(cv) + Saves(cv)
        <3>1. PICK k : k = j + 1 - First(cv)
            OBVIOUS
        <3>2. k \in 1 .. Saves(cv) /\ First(cv) + k = j + 1
            BY <1>0, <2>3, <3>1
        <3>3. in = Push(SavedRegs(cv)[k])
            BY <1>7, <3>2, PrologueIsns
        <3>4. Sp(cv, e, j + 1) = Sp(cv, e, j) - 1
            BY <1>0, <1>7, <2>3 DEF Sp
        <3> QED
            BY <1>3, <1>5, <3>3, <3>4
    <2>4. CASE j >= First(cv) + Saves(cv)
        <3>1. PICK k : k = j + 1 - First(cv) - Saves(cv)
            OBVIOUS
        <3>2. k \in 1 .. 12 /\ First(cv) + Saves(cv) + k = j + 1
            BY <1>0, <1>7, <2>1, <2>4, <3>1
        <3>3. Sp(cv, e, j + 1) = MemSize /\ Sp(cv, e, j) = MemSize
            BY <1>0, <1>7, <2>4 DEF Sp
        <3>4. CASE k \in 1 .. 10
            <4>1. in = Load(HomeOf(k - 1), k - 1)
                BY <1>7, <3>2, <3>4, PrologueIsns
            <4>2. t = Put(s, HomeOf(k - 1), s.io[k - 1])
                BY <1>3, <4>1, LoadEffect
            <4>3. HomeOf(k - 1) # rsp
                BY <3>4 DEF HomeOf, R, rsp
            <4>4. t.x[rsp] = s.x[rsp]
                BY <1>2, <4>2, <4>3 DEF Put
            <4> QED
                BY <1>3, <3>3, <4>4
        <3>5. CASE k \in {11, 12}
            <4>1. in = ClearBc \/ in = NextBc
                BY <1>7, <3>2, <3>5, PrologueIsns
            <4>2. Quiet(in)
                BY <4>1 DEF ClearBc, NextBc, Quiet, Loud, rbx, rbp, rsp
            <4> QED
                BY <1>3, <1>4, <3>3, <4>2
        <3> QED
            BY <3>2, <3>4, <3>5
    <2> QED
        BY <1>0, <2>2, <2>3, <2>4
<1>8. CASE e \in 1 .. 2 * N
    <2>1. PICK i : i = j + 1
        OBVIOUS
    <2>2. i \in 1 .. Width(cv, e)
        BY <1>0, <2>1
    <2>3. /\ i = 1 => Target(in)
          /\ i = 2 => Taking(in)
          /\ i = Jump(e) => Testing(in)
          /\ i = Jump(e) + 1 => in.op = "jz"
          /\ e \in 1 .. N /\ i \in 24 .. 31 => in = Push(R(i - 24))
          /\ i \notin {1, 2, Jump(e), Jump(e) + 1} /\ ~(e \in 1 .. N /\ i \in 24 .. 31)
                => Quiet(in)
        BY <1>8, <2>1, <2>2, ProgramKinds
    <2>4. CASE e \in 1 .. N /\ i \in 24 .. 31
        <3>1. in = Push(R(i - 24)) /\ Top(e) \in Nat
            BY <2>3, <2>4, TopFacts
        <3>2. Sp(cv, e, j + 1) = Sp(cv, e, j) - 1
            BY <1>0, <2>1, <2>4, <3>1 DEF Sp
        <3> QED
            BY <1>3, <1>5, <3>1, <3>2
    <2>5. CASE ~(e \in 1 .. N /\ i \in 24 .. 31)
        <3>1. t.x[rsp] = s.x[rsp]
            BY <1>4, <1>6, <2>3, <2>5 DEF Target, Taking, Testing
        <3>2. Sp(cv, e, j + 1) = Sp(cv, e, j)
            <4>1. CASE e \in 1 .. N
                <5>1. i \in 1 .. 23 \/ i = 32
                    BY <1>0, <1>8, <2>2, <2>5, <4>1, Widths
                <5>2. Top(e) \in Nat
                    BY <4>1, TopFacts
                <5> QED
                    BY <1>0, <2>1, <4>1, <5>1, <5>2 DEF Sp
            <4>2. CASE e \in N + 1 .. 2 * N
                BY <1>0, <4>2 DEF Sp
            <4> QED
                BY <1>0, <1>8, <4>1, <4>2
        <3> QED
            BY <1>3, <3>1, <3>2
    <2> QED
        BY <2>4, <2>5
<1>9. CASE e = 2 * N + 1
    <2>0. Width(cv, e) = Saves(cv) + 10 /\ e # 0 /\ ~(e <= N) /\ ~(e <= 2 * N)
        BY <1>0, <1>9, Widths
    <2>1. CASE j = 0
        <3>1. in = Unwind
            BY <1>9, <2>1, EpilogueIsns
        <3>2. t.x = [s.x EXCEPT ![rsp] = @ + 8 * MemSize]
            BY <1>3, <3>1 DEF Unwind, Effect
        <3>3. Sp(cv, e, j) = 0 /\ Sp(cv, e, j + 1) = MemSize
            BY <1>0, <2>0, <2>1 DEF Sp
        <3> QED
            BY <1>0, <1>2, <1>3, <3>2, <3>3
    <2>2. CASE j \in 1 .. 8
        <3>1. 1 + j = j + 1
            BY <2>2
        <3>2. in = StoreTo(R(j - 1), j - 1)
            BY <1>9, <2>2, <3>1, EpilogueIsns
        <3>3. Sp(cv, e, j) = MemSize /\ Sp(cv, e, j + 1) = MemSize
            BY <1>0, <2>0, <2>2 DEF Sp
        <3> QED
            BY <1>3, <1>6, <3>2, <3>3 DEF StoreTo
    <2>3. CASE j >= 9 /\ j < 9 + Saves(cv)
        <3>1. PICK k : k = j - 8
            OBVIOUS
        <3>2. k \in 1 .. Saves(cv) /\ 9 + k = j + 1
            BY <1>0, <2>3, <3>1
        <3>3. PICK q : q = Saves(cv) + 1 - k
            OBVIOUS
        <3>4. q \in 1 .. Saves(cv) /\ in = Pop(SavedRegs(cv)[q])
            BY <1>0, <1>9, <3>2, <3>3, EpilogueIsns
        <3>5. SavedRegs(cv)[q] # rsp
            BY <1>0, <3>4, SavedRegsAre DEF SavedIs, rbx, rbp, rsi, rdi, rsp, Saves
        <3>6. t.x = [s.x EXCEPT ![SavedRegs(cv)[q]] = s.stack[s.x[rsp] \div 8], ![rsp] = @ + 8]
            BY <1>3, <3>4 DEF Pop, Effect
        <3>7. t.x[rsp] = 8 * (Sp(cv, e, j) + 1)
            BY <1>1, <1>2, <3>5, <3>6
        <3>8. Sp(cv, e, j + 1) = Sp(cv, e, j) + 1
            BY <1>0, <2>0, <2>3 DEF Sp
        <3> QED
            BY <1>3, <3>7, <3>8
    <2>4. CASE j = 9 + Saves(cv)
        <3>1. in = Ret
            <4>1. j + 1 = 10 + Saves(cv)
                BY <1>0, <2>4
            <4> QED
                BY <1>9, <4>1, EpilogueIsns
        <3>2. Sp(cv, e, j) = Deep(cv) /\ Sp(cv, e, j + 1) = Deep(cv)
            BY <1>0, <2>0, <2>4 DEF Sp
        <3> QED
            BY <1>3, <1>6, <3>1, <3>2 DEF Ret
    <2> QED
        BY <1>0, <2>0, <2>1, <2>2, <2>3, <2>4
<1> QED
    BY <1>0, <1>7, <1>8, <1>9

-----------------------------------------------------------------------------
(* The code of a pass computes what HashwxVM computes.                     *)

(* The arithmetic of line k in halves: with the immediate, then with the   *)
(* second operand.                                                         *)
Half(p, k, v) ==
    IF k \in {2, 4, 6} THEN Mixed(p[k].opcode, v, p[k].imm) ELSE Shifted(p[k].opcode, v, p[k].imm)
Full(p, k, h, s) == IF k \in {2, 4, 6} THEN Mul(h, s) ELSE Combined(p[k].opcode, h, s)

(* Instruction k of program p done by HashwxVM, and its second operand.    *)
Do(p, k, rs, ph, mm) == Apply(p[k], rs, Second(p[k], rs, ph, mm))
Source(p, k, rs, ph, mm) == IF ph = "mem" THEN mm[Slot(rs[p[k].src])] ELSE rs[p[k].src]

(* r[d] becomes v.                                                         *)
Updated(f, t, d, v) ==
    DOMAIN t = Reg /\ \A q \in Reg : t[q] = IF q = d THEN v ELSE f[q]

(* The operands of a program.                                              *)
LEMMA OperandsAre ==
    ASSUME NEW p \in Program
    PROVE  /\ \A k \in Operands : p[k].dst \in 0 .. 7
           /\ \A k \in Operands \ {0} : p[k].src \in 0 .. 7 /\ p[k].src # p[k].dst
           /\ p[0].src \in {8, 9}
           /\ \A k \in Operands : p[k].imm \in Imm
<1>1. \A k \in Line : p[k] \in Instr
    BY DEF Program
<1>2. Operands \subseteq Line
    BY DEF Operands, Line
<1>3. \A k \in Operands : p[k].dst \in 0 .. 7 /\ p[k].imm \in Imm
    BY <1>1, <1>2 DEF Instr, Dst
<1> QED
    BY <1>3 DEF Program, Layout, Dst

(* What an instruction of HashwxVM does, in halves.                        *)
LEMMA DoIs ==
    ASSUME NEW p \in Program, NEW rs, DOMAIN rs = Reg, NEW ph \in Phases, NEW mm
    PROVE  /\ Updated(rs, Do(p, 0, rs, ph, mm), p[0].dst,
                      Ror(Mul(rs[p[0].dst], rs[p[0].src]), p[0].imm))
           /\ \A k \in Operands \ {0} :
                 Updated(rs, Do(p, k, rs, ph, mm), p[k].dst,
                         Full(p, k, Half(p, k, rs[p[k].dst]), Source(p, k, rs, ph, mm)))
<1>1. Layout(p) /\ \A k \in Operands : p[k].dst \in 0 .. 7
    BY OperandsAre DEF Program
<1>2. ASSUME NEW k \in Operands
      PROVE  Updated(rs, Do(p, k, rs, ph, mm), p[k].dst,
                     Operate(p[k].opcode, rs[p[k].dst], p[k].imm, Second(p[k], rs, ph, mm)))
    <2>1. p[k].dst \in Reg
        BY <1>1 DEF Reg
    <2> QED
        BY <2>1 DEF Updated, Do, Apply
<1>3. Operate(p[0].opcode, rs[p[0].dst], p[0].imm, Second(p[0], rs, ph, mm))
          = Ror(Mul(rs[p[0].dst], rs[p[0].src]), p[0].imm)
    BY <1>1 DEF Layout, Operate, Second, RMCG, MulOps, MULOR, MULADD
<1>4. ASSUME NEW k \in Operands \ {0}
      PROVE  Operate(p[k].opcode, rs[p[k].dst], p[k].imm, Second(p[k], rs, ph, mm))
                 = Full(p, k, Half(p, k, rs[p[k].dst]), Source(p, k, rs, ph, mm))
    <2>1. CASE k \in {2, 4, 6}
        <3>1. p[k].opcode \in MulOps /\ p[k].opcode # RMCG
            BY <1>1, <2>1 DEF Layout, MulOps, MULOR, MULADD, RMCG
        <3> QED
            BY <2>1, <3>1 DEF Operate, Second, Source, Full, Half
    <2>2. CASE k \in {1, 3, 5, 8}
        <3>1. p[k].opcode \in XasOps /\ p[k].opcode # RMCG /\ p[k].opcode \notin MulOps
            BY <1>1, <2>2 DEF Layout, MulOps, MULOR, MULADD, RMCG, XasOps, XORROR, SUBLSR
        <3> QED
            BY <2>2, <3>1 DEF Operate, Second, Source, Full, Half
    <2> QED
        BY <2>1, <2>2 DEF Operands
<1> QED
    BY <1>2, <1>3, <1>4 DEF Operands

(* The register file f holds the registers rs.                             *)
Holds(f, rs) == \A k \in Reg : f[HomeOf(k)] = rs[k]

(* Where the registers are.                                                *)
LEMMA Homes ==
    /\ \A k \in Reg : HomeOf(k) \in 6 .. 15
    /\ \A k \in Reg, d \in 0 .. 7 : HomeOf(k) = R(d) <=> k = d
    /\ \A d \in 0 .. 7 : d \in Reg /\ HomeOf(d) = R(d) /\ R(d) \in 8 .. 15
    /\ HomeOf(8) = 6 /\ HomeOf(9) = 7 /\ 8 \in Reg /\ 9 \in Reg
BY DEF HomeOf, Reg, R

(* Arithmetic keeps what is not a register of the programs: all but rax,   *)
(* rdx and r8-r15.                                                         *)
Beside(a, c) ==
    /\ c.stack = a.stack /\ c.io = a.io /\ DOMAIN c.x = 0 .. 15
    /\ \A q \in {1, 3, 4, 5, 6, 7} : c.x[q] = a.x[q]

(* Register n becomes v.                                                   *)
PutIs(a, b, n, v) ==
    /\ b.stack = a.stack /\ b.io = a.io /\ DOMAIN b.x = 0 .. 15
    /\ \A q \in 0 .. 15 : b.x[q] = IF q = n THEN v ELSE a.x[q]

(* Writing a register leaves the others.                                   *)
LEMMA PutWrites ==
    ASSUME NEW a, DOMAIN a.x = 0 .. 15, NEW n \in 0 .. 15, NEW v
    PROVE  PutIs(a, Put(a, n, v), n, v)
BY DEF PutIs, Put

(* The templates compute the halves.                                       *)
Halving(in, p, k) ==
    LET name == IF k \in {2, 4, 6} THEN tpl_mul(p[k].opcode) ELSE PreXas(p[k])
    IN  in = [op |-> name, len |-> 4, to |-> R(p[k].dst), imm |-> p[k].imm]

(* The first half of the arithmetic.                                       *)
LEMMA HalvingDoes ==
    ASSUME NEW p \in Program, NEW k \in Operands \ {0}, NEW in, Halving(in, p, k), NEW s
    PROVE  Effect(in, s) = Put(s, R(p[k].dst), Half(p, k, s.x[R(p[k].dst)]))
<1>1. LaidOut(p)
    BY ProgramLaidOut
<1>2. in.to = R(p[k].dst) /\ in.imm = p[k].imm
    BY DEF Halving
<1>3. CASE k \in {2, 4, 6}
    <2>1. p[k].opcode \in {0, 1, 2} /\ in.op = tpl_mul(p[k].opcode)
        BY <1>1, <1>3 DEF LaidOut, Halving
    <2>2. Result(in, s) = Half(p, k, s.x[R(p[k].dst)])
        BY <1>2, <1>3, <2>1, Names DEF Result, Half, Mixed, MULOR, MULXOR
    <2>3. in.op \notin Loud
        BY <2>1, Names DEF Loud
    <2> QED
        BY <1>2, <2>2, <2>3 DEF Effect, Loud
<1>4. CASE k \in {1, 3, 5, 8}
    <2>1. p[k].opcode \in 4 .. 12 /\ in.op = PreXas(p[k])
        BY <1>1, <1>4 DEF LaidOut, Halving
    <2>2. in.op = IF p[k].opcode \in 4 .. 6 THEN "ror_imm"
                  ELSE IF p[k].opcode \in 7 .. 9 THEN "sar_imm" ELSE "shr_imm"
        BY <2>1, Names DEF PreXas
    <2>3. Result(in, s) = Half(p, k, s.x[R(p[k].dst)])
        BY <1>2, <1>4, <2>1, <2>2 DEF Result, Half, Shifted, XORROR, SUBROR, XORASR, SUBASR
    <2>4. in.op \notin Loud
        BY <2>2 DEF Loud
    <2> QED
        BY <1>2, <2>3, <2>4 DEF Effect, Loud
<1> QED
    BY <1>3, <1>4 DEF Operands

(* The second half, with a register or with a cell.                        *)
RegFull(in, p, k) ==
    /\ in.op = IF k \in {2, 4, 6} THEN "imul" ELSE tpl_xas_reg((p[k].opcode - 4) % 3)
    /\ in.to = R(p[k].dst) /\ in.from = R(p[k].src)
MemFull(in, p, k) ==
    /\ in.op = IF k \in {2, 4, 6} THEN "imul_mem" ELSE tpl_xas_mem((p[k].opcode - 4) % 3)
    /\ in.to = R(p[k].dst)

(* The second half of the arithmetic, with a register or with a word of    *)
(* the memory.                                                             *)
LEMMA FullsDo ==
    ASSUME NEW p \in Program, NEW k \in Operands \ {0}, NEW in, NEW s
    PROVE  /\ RegFull(in, p, k) =>
                  Effect(in, s) = Put(s, R(p[k].dst), Full(p, k, s.x[R(p[k].dst)], s.x[R(p[k].src)]))
           /\ MemFull(in, p, k) =>
                  Effect(in, s) = Put(s, R(p[k].dst), Full(p, k, s.x[R(p[k].dst)], CellOf(s)))
<1>1. LaidOut(p)
    BY ProgramLaidOut
<1>2. k \in {1, 3, 5, 8} => p[k].opcode \in 4 .. 12
    BY <1>1 DEF LaidOut
<1>3. ASSUME RegFull(in, p, k)
      PROVE  Effect(in, s) = Put(s, R(p[k].dst), Full(p, k, s.x[R(p[k].dst)], s.x[R(p[k].src)]))
    <2>1. CASE k \in {2, 4, 6}
        BY <1>3, <2>1 DEF RegFull, Effect, Result, Full
    <2>2. CASE k \in {1, 3, 5, 8}
        <3>1. in.op = IF p[k].opcode \in {4, 7, 10} THEN "xor"
                      ELSE IF p[k].opcode \in {5, 8, 11} THEN "add" ELSE "sub"
            BY <1>2, <1>3, <2>2, Names DEF RegFull
        <3>2. in.to = R(p[k].dst) /\ in.from = R(p[k].src)
            BY <1>3 DEF RegFull
        <3>3. Result(in, s) = Full(p, k, s.x[R(p[k].dst)], s.x[R(p[k].src)])
            BY <1>2, <2>2, <3>1, <3>2
               DEF Result, Full, Combined, XORROR, XORASR, XORLSR, ADDROR, ADDASR, ADDLSR
        <3>4. in.op \notin Loud
            BY <3>1 DEF Loud
        <3> QED
            BY <3>2, <3>3, <3>4 DEF Effect, Loud
    <2> QED
        BY <2>1, <2>2 DEF Operands
<1>4. ASSUME MemFull(in, p, k)
      PROVE  Effect(in, s) = Put(s, R(p[k].dst), Full(p, k, s.x[R(p[k].dst)], CellOf(s)))
    <2>1. CASE k \in {2, 4, 6}
        BY <1>4, <2>1 DEF MemFull, Effect, Result, Full
    <2>2. CASE k \in {1, 3, 5, 8}
        <3>1. in.op = IF p[k].opcode \in {4, 7, 10} THEN "xor_mem"
                      ELSE IF p[k].opcode \in {5, 8, 11} THEN "add_mem" ELSE "sub_mem"
            BY <1>2, <1>4, <2>2, Names DEF MemFull
        <3>2. in.to = R(p[k].dst)
            BY <1>4 DEF MemFull
        <3>3. Result(in, s) = Full(p, k, s.x[R(p[k].dst)], CellOf(s))
            BY <1>2, <2>2, <3>1, <3>2
               DEF Result, Full, Combined, XORROR, XORASR, XORLSR, ADDROR, ADDASR, ADDLSR
        <3>4. in.op \notin Loud
            BY <3>1 DEF Loud
        <3> QED
            BY <3>2, <3>3, <3>4 DEF Effect, Loud
    <2> QED
        BY <2>1, <2>2 DEF Operands
<1> QED
    BY <1>3, <1>4

(* The instructions from and to of a piece, run one after another.         *)
Ran(s, y, from, to) == \A o \in from .. to : y[o] = Effect(s[o], y[o - 1])

(* The instructions that write a register, one by one.                     *)
LEMMA Writes ==
    ASSUME NEW in, NEW s
    PROVE  /\ in.op = "mov" => Effect(in, s) = Put(s, in.to, s.x[in.from])
           /\ in.op = "lea" => Effect(in, s) = Put(s, in.to, s.x[in.from] + 1)
           /\ in.op = "imul" => Effect(in, s) = Put(s, in.to, Mul(s.x[in.to], s.x[in.from]))
           /\ in.op = "ror_imm" => Effect(in, s) = Put(s, in.to, Ror(s.x[in.to], in.imm))
           /\ in.op = "or_bc" => Effect(in, s) = Put(s, in.to, Or(Low(s.x[in.to]), s.x[in.from]))
           /\ in.op = "address" => Effect(in, s) = Put(s, in.to, 8 * Slot(s.x[in.to]))
           /\ in.op = "clear" => Effect(in, s) = Put(s, in.to, 0)
<1>1. in.op \in {"mov", "lea", "imul", "ror_imm", "or_bc", "address", "clear"}
          => Effect(in, s) = Put(s, in.to, Result(in, s))
    BY DEF Effect
<1> QED
    BY <1>1 DEF Result

(* A line of the first phase does what HashwxVM does.                      *)
LEMMA RegLine ==
    ASSUME NEW p \in Program, NEW k \in Operands \ {0}, NEW y, Ran(Piece("reg", p, k), y, 1, 2),
           DOMAIN y[0].x = 0 .. 15, NEW r, DOMAIN r = Reg, Holds(y[0].x, r), NEW mm
    PROVE  /\ Holds(y[2].x, Do(p, k, r, "reg", mm)) /\ Beside(y[0], y[2])
           /\ y[2].x[rdx] = y[0].x[rdx]
<1> DEFINE s == Piece("reg", p, k)
           d == p[k].dst
           c == p[k].src
           h == Half(p, k, r[d])
           v == Full(p, k, h, r[c])
<1>1. d \in 0 .. 7 /\ c \in 0 .. 7 /\ c # d /\ "reg" \in Phases
    BY OperandsAre DEF Phases
<1>2. Updated(r, Do(p, k, r, "reg", mm), d, v)
    <2>1. Source(p, k, r, "reg", mm) = r[c]
        BY DEF Source
    <2>2. Updated(r, Do(p, k, r, "reg", mm), d, Full(p, k, h, Source(p, k, r, "reg", mm)))
        BY <1>1, DoIs
    <2> QED
        BY <2>1, <2>2
<1>3. Halving(s[1], p, k) /\ RegFull(s[2], p, k)
    <2>1. CASE k \in {2, 4, 6}
        <3>1. s = CompileMul("reg", p[k])
            BY <1>1, <2>1, PieceIs
        <3>2. RegMulIs(p[k])
            BY PiecesAre
        <3> HIDE DEF s
        <3> QED
            BY <2>1, <3>1, <3>2 DEF RegMulIs, Halving, RegFull
    <2>2. CASE k \in {1, 3, 5, 8}
        <3>1. s = CompileXas("reg", p[k])
            BY <1>1, <2>2, PieceIs
        <3>2. RegXasIs(p[k])
            BY PiecesAre
        <3> HIDE DEF s
        <3> QED
            BY <2>2, <3>1, <3>2 DEF RegXasIs, Halving, RegFull
    <2> QED
        BY <2>1, <2>2 DEF Operands
<1>4. y[1] = Effect(s[1], y[0]) /\ y[2] = Effect(s[2], y[1])
    <2>1. 1 \in 1 .. 2 /\ 2 \in 1 .. 2 /\ 1 - 1 = 0 /\ 2 - 1 = 1
        OBVIOUS
    <2> QED
        BY <2>1 DEF Ran
<1>5. R(d) \in 8 .. 15 /\ R(c) \in 8 .. 15 /\ R(d) # R(c) /\ R(d) \in 0 .. 15 /\ R(c) \in 0 .. 15
      /\ HomeOf(d) = R(d) /\ HomeOf(c) = R(c) /\ d \in Reg /\ c \in Reg
    <2>1. R(d) # R(c)
        BY <1>1 DEF R
    <2> QED
        BY <1>1, <2>1, Homes
<1>6. y[0].x[R(d)] = r[d] /\ y[0].x[R(c)] = r[c]
    BY <1>5 DEF Holds
<1>7. PutIs(y[0], y[1], R(d), h)
    <2>1. y[1] = Put(y[0], R(d), h)
        BY <1>3, <1>4, <1>6, HalvingDoes
    <2> QED
        BY <1>5, <2>1, PutWrites
<1>8. PutIs(y[1], y[2], R(d), v)
    <2>1. y[1].x[R(d)] = h /\ y[1].x[R(c)] = r[c] /\ DOMAIN y[1].x = 0 .. 15
        BY <1>5, <1>6, <1>7 DEF PutIs
    <2>2. y[2] = Put(y[1], R(d), v)
        BY <1>3, <1>4, <2>1, FullsDo
    <2> QED
        BY <1>5, <2>1, <2>2, PutWrites
<1> HIDE DEF d, c, h, v, s
<1>9. \A q \in 0 .. 15 : y[2].x[q] = IF q = R(d) THEN v ELSE y[0].x[q]
    BY <1>7, <1>8 DEF PutIs
<1>10. Holds(y[2].x, Do(p, k, r, "reg", mm))
    <2>1. ASSUME NEW q \in Reg PROVE y[2].x[HomeOf(q)] = IF q = d THEN v ELSE r[q]
        <3>1. HomeOf(q) \in 0 .. 15 /\ (HomeOf(q) = R(d) <=> q = d)
            BY <1>1, Homes DEF d
        <3> QED
            BY <1>9, <3>1 DEF Holds
    <2> QED
        BY <1>2, <2>1 DEF Holds, Updated
<1>11. Beside(y[0], y[2])
    <2>1. \A q \in {1, 3, 4, 5, 6, 7} : y[2].x[q] = y[0].x[q]
        BY <1>5, <1>9
    <2> QED
        BY <1>7, <1>8, <2>1 DEF Beside, PutIs
<1>12. y[2].x[rdx] = y[0].x[rdx]
    BY <1>5, <1>9 DEF rdx
<1> QED
    BY <1>10, <1>11, <1>12

(* So does a line of the second phase, whose second operand is in memory.  *)
LEMMA MemLine ==
    ASSUME NEW p \in Program, NEW k \in Operands \ {0}, NEW y, Ran(Piece("mem", p, k), y, 1, 4),
           DOMAIN y[0].x = 0 .. 15, NEW r \in Registers, Holds(y[0].x, r),
           y[0].x[rsp] = 0, NEW mm, \A a \in 0 .. MemSize - 1 : mm[a] = y[0].stack[a]
    PROVE  /\ Holds(y[4].x, Do(p, k, r, "mem", mm)) /\ Beside(y[0], y[4])
           /\ y[4].x[rdx] = y[0].x[rdx]
<1> DEFINE s == Piece("mem", p, k)
           d == p[k].dst
           c == p[k].src
           h == Half(p, k, r[d])
           a == Slot(r[c])
           v == Full(p, k, h, mm[a])
<1>1. d \in 0 .. 7 /\ c \in 0 .. 7 /\ c # d /\ "mem" \in Phases
    BY OperandsAre DEF Phases
<1>2. Updated(r, Do(p, k, r, "mem", mm), d, v)
    <2>1. Source(p, k, r, "mem", mm) = mm[a]
        BY DEF Source
    <2>2. Updated(r, Do(p, k, r, "mem", mm), d, Full(p, k, h, Source(p, k, r, "mem", mm)))
        BY <1>1, DoIs DEF Registers
    <2> QED
        BY <2>1, <2>2
<1>3. /\ s[1] = MovReg(rax, R(c)) /\ Halving(s[2], p, k)
      /\ s[3] = [op |-> "address", len |-> 5, to |-> rax] /\ MemFull(s[4], p, k)
    <2>1. CASE k \in {2, 4, 6}
        <3>1. s = CompileMul("mem", p[k])
            BY <1>1, <2>1, PieceIs
        <3>2. MemMulIs(p[k])
            BY PiecesAre
        <3> HIDE DEF s
        <3> QED
            BY <2>1, <3>1, <3>2 DEF MemMulIs, Halving, MemFull
    <2>2. CASE k \in {1, 3, 5, 8}
        <3>1. s = CompileXas("mem", p[k])
            BY <1>1, <2>2, PieceIs
        <3>2. MemXasIs(p[k])
            BY PiecesAre
        <3> HIDE DEF s
        <3> QED
            BY <2>2, <3>1, <3>2 DEF MemXasIs, Halving, MemFull
    <2> QED
        BY <2>1, <2>2 DEF Operands
<1>4. /\ y[1] = Effect(s[1], y[0]) /\ y[2] = Effect(s[2], y[1])
      /\ y[3] = Effect(s[3], y[2]) /\ y[4] = Effect(s[4], y[3])
    <2>1. /\ 1 \in 1 .. 4 /\ 2 \in 1 .. 4 /\ 1 - 1 = 0 /\ 2 - 1 = 1
          /\ 3 \in 1 .. 4 /\ 4 \in 1 .. 4 /\ 3 - 1 = 2 /\ 4 - 1 = 3
        OBVIOUS
    <2> QED
        BY <2>1 DEF Ran
<1>5. R(d) \in 8 .. 15 /\ R(c) \in 8 .. 15 /\ R(d) # R(c) /\ R(d) \in 0 .. 15 /\ R(c) \in 0 .. 15
      /\ HomeOf(d) = R(d) /\ HomeOf(c) = R(c) /\ d \in Reg /\ c \in Reg
    <2>1. R(d) # R(c)
        BY <1>1 DEF R
    <2> QED
        BY <1>1, <2>1, Homes
<1>6. y[0].x[R(d)] = r[d] /\ y[0].x[R(c)] = r[c]
    BY <1>5 DEF Holds
<1>7. a \in 0 .. MemSize - 1 /\ MemSize \in Nat
    <2>1. r[c] \in Word
        BY <1>5 DEF Registers
    <2> QED
        BY <2>1, WordAssumption, NIsNat DEF MemSize, N
<1>8. rax = 0 /\ rax \in 0 .. 15 /\ rsp = 4 /\ rax # R(d) /\ rax # R(c) /\ rdx = 2 /\ rsp # R(d) /\ rdx # R(d)
    BY <1>5 DEF rax, rsp, rdx
<1>9. PutIs(y[0], y[1], rax, r[c])
    <2>1. y[1] = Put(y[0], rax, r[c])
        <3> HIDE DEF s
        <3> QED
            BY <1>3, <1>4, <1>6, Writes DEF MovReg
    <2> QED
        BY <1>8, <2>1, PutWrites
<1>10. PutIs(y[1], y[2], R(d), h)
    <2>1. y[1].x[R(d)] = r[d] /\ DOMAIN y[1].x = 0 .. 15
        BY <1>5, <1>6, <1>8, <1>9 DEF PutIs
    <2>2. y[2] = Put(y[1], R(d), h)
        BY <1>3, <1>4, <2>1, HalvingDoes
    <2> QED
        BY <1>5, <2>1, <2>2, PutWrites
<1>11. PutIs(y[2], y[3], rax, 8 * a)
    <2>1. y[2].x[rax] = r[c] /\ DOMAIN y[2].x = 0 .. 15
        BY <1>5, <1>8, <1>9, <1>10 DEF PutIs
    <2>2. y[3] = Put(y[2], rax, 8 * a)
        <3> HIDE DEF s
        <3> QED
            BY <1>3, <1>4, <2>1, Writes
    <2> QED
        BY <1>8, <2>1, <2>2, PutWrites
<1> HIDE DEF d, c, h, v, s, a
<1>12. y[3].x[rsp] = 0 /\ y[3].x[rax] = 8 * a /\ y[3].x[R(d)] = h /\ DOMAIN y[3].x = 0 .. 15
       /\ y[3].stack = y[0].stack
    <2>1. rsp \in 0 .. 15
        BY <1>8
    <2>2. y[1].x[rsp] = 0 /\ y[2].x[rsp] = 0 /\ y[3].x[rsp] = 0
        BY <1>8, <1>9, <1>10, <1>11, <2>1 DEF PutIs
    <2>3. y[3].x[rax] = 8 * a
        BY <1>8, <1>11 DEF PutIs
    <2>4. y[3].x[R(d)] = h
        BY <1>5, <1>8, <1>10, <1>11 DEF PutIs
    <2> QED
        BY <1>9, <1>10, <1>11, <2>2, <2>3, <2>4 DEF PutIs
<1>13. CellOf(y[3]) = mm[a]
    <2>1. (0 + 8 * a) \div 8 = a
        BY <1>7
    <2>2. CellOf(y[3]) = y[0].stack[a]
        BY <1>12, <2>1 DEF CellOf
    <2> QED
        BY <1>7, <2>2
<1>14. PutIs(y[3], y[4], R(d), v)
    <2>1. y[4] = Put(y[3], R(d), v)
        BY <1>3, <1>4, <1>12, <1>13, FullsDo DEF v, s, d
    <2> QED
        BY <1>5, <1>12, <2>1, PutWrites
<1>15. \A q \in 0 .. 15 : y[4].x[q] = IF q = R(d) THEN v ELSE IF q = rax THEN 8 * a ELSE y[0].x[q]
    BY <1>9, <1>10, <1>11, <1>14 DEF PutIs
<1>16. Holds(y[4].x, Do(p, k, r, "mem", mm))
    <2>1. ASSUME NEW q \in Reg PROVE y[4].x[HomeOf(q)] = IF q = d THEN v ELSE r[q]
        <3>1. HomeOf(q) \in 6 .. 15 /\ (HomeOf(q) = R(d) <=> q = d)
            BY <1>1, Homes DEF d
        <3>2. HomeOf(q) \in 0 .. 15 /\ HomeOf(q) # rax
            BY <1>8, <3>1
        <3> QED
            BY <1>15, <3>1, <3>2 DEF Holds
    <2> QED
        BY <1>2, <2>1 DEF Holds, Updated
<1>17. Beside(y[0], y[4])
    <2>1. \A q \in {1, 3, 4, 5, 6, 7} : y[4].x[q] = y[0].x[q]
        BY <1>5, <1>8, <1>15
    <2> QED
        BY <1>9, <1>10, <1>11, <1>14, <2>1 DEF Beside, PutIs
<1>18. y[4].x[rdx] = y[0].x[rdx]
    BY <1>5, <1>8, <1>15
<1> QED
    BY <1>16, <1>17, <1>18

(* RMCG, behind the jump's target, and its copy for the branch.            *)
LEMMA RmcgLine ==
    ASSUME NEW p \in Program, NEW ph \in Phases, NEW y, Ran(Piece(ph, p, 0), y, 3, 5),
           DOMAIN y[2].x = 0 .. 15, NEW r, DOMAIN r = Reg, Holds(y[2].x, r), NEW mm
    PROVE  /\ Holds(y[5].x, Do(p, 0, r, ph, mm)) /\ Beside(y[2], y[5])
           /\ y[5].x[rdx] = Do(p, 0, r, ph, mm)[p[0].dst]
<1> DEFINE s == Piece(ph, p, 0)
           d == p[0].dst
           c == p[0].src
           m == Mul(r[d], r[c])
           v == Ror(m, p[0].imm)
<1>1. d \in 0 .. 7 /\ c \in {8, 9}
    BY OperandsAre DEF Operands
<1>2. Updated(r, Do(p, 0, r, ph, mm), d, v)
    BY DoIs
<1>3. /\ s[3] = [op |-> "imul", len |-> 4, to |-> R(d), from |-> c - 2]
      /\ s[4] = [op |-> "ror_imm", len |-> 4, to |-> R(d), imm |-> p[0].imm]
      /\ s[5] = MovReg(rdx, R(d))
    BY PieceIs, PiecesAre DEF RmcgIs
<1>4. y[3] = Effect(s[3], y[2]) /\ y[4] = Effect(s[4], y[3]) /\ y[5] = Effect(s[5], y[4])
    <2>1. 3 \in 3 .. 5 /\ 4 \in 3 .. 5 /\ 5 \in 3 .. 5 /\ 3 - 1 = 2 /\ 4 - 1 = 3 /\ 5 - 1 = 4
        OBVIOUS
    <2> QED
        BY <2>1 DEF Ran
<1>5. /\ R(d) \in 8 .. 15 /\ R(d) \in 0 .. 15 /\ c - 2 \in 6 .. 7 /\ rdx = 2 /\ rdx \in 0 .. 15
      /\ HomeOf(d) = R(d) /\ HomeOf(c) = c - 2 /\ d \in Reg /\ c \in Reg
    BY <1>1, Homes DEF rdx
<1>6. y[2].x[R(d)] = r[d] /\ y[2].x[c - 2] = r[c]
    BY <1>5 DEF Holds
<1>7. PutIs(y[2], y[3], R(d), m)
    <2>1. y[3] = Put(y[2], R(d), m)
        <3> HIDE DEF s
        <3> QED
            BY <1>3, <1>4, <1>6, Writes
    <2> QED
        BY <1>5, <2>1, PutWrites
<1>8. PutIs(y[3], y[4], R(d), v)
    <2>1. y[3].x[R(d)] = m /\ DOMAIN y[3].x = 0 .. 15
        BY <1>5, <1>7 DEF PutIs
    <2>2. y[4] = Put(y[3], R(d), v)
        <3> HIDE DEF s
        <3> QED
            BY <1>3, <1>4, <2>1, Writes
    <2> QED
        BY <1>5, <2>1, <2>2, PutWrites
<1>9. PutIs(y[4], y[5], rdx, v)
    <2>1. y[4].x[R(d)] = v /\ DOMAIN y[4].x = 0 .. 15
        BY <1>5, <1>8 DEF PutIs
    <2>2. y[5] = Put(y[4], rdx, v)
        <3> HIDE DEF s
        <3> QED
            BY <1>3, <1>4, <2>1, Writes DEF MovReg
    <2> QED
        BY <1>5, <2>1, <2>2, PutWrites
<1> HIDE DEF d, c, m, v, s
<1>10. \A q \in 0 .. 15 : y[5].x[q] = IF q = R(d) THEN v ELSE IF q = rdx THEN v ELSE y[2].x[q]
    BY <1>7, <1>8, <1>9 DEF PutIs
<1>11. Holds(y[5].x, Do(p, 0, r, ph, mm))
    <2>1. ASSUME NEW q \in Reg PROVE y[5].x[HomeOf(q)] = IF q = d THEN v ELSE r[q]
        <3>1. HomeOf(q) \in 6 .. 15 /\ (HomeOf(q) = R(d) <=> q = d)
            BY <1>1, Homes DEF d
        <3>2. HomeOf(q) \in 0 .. 15 /\ HomeOf(q) # rdx
            BY <1>5, <3>1
        <3> QED
            BY <1>10, <3>1, <3>2 DEF Holds
    <2> QED
        BY <1>2, <2>1 DEF Holds, Updated
<1>12. Beside(y[2], y[5])
    <2>1. \A q \in {1, 3, 4, 5, 6, 7} : y[5].x[q] = y[2].x[q]
        BY <1>5, <1>10
    <2> QED
        BY <1>7, <1>8, <1>9, <2>1 DEF Beside, PutIs
<1>13. y[5].x[rdx] = Do(p, 0, r, ph, mm)[d]
    BY <1>2, <1>5, <1>10 DEF Updated
<1> QED
    BY <1>11, <1>12, <1>13 DEF d

(* The branch: the flag in edx, the loops used and one in ebp.             *)
BranchDone(s, u) ==
    /\ u.stack = s.stack /\ u.io = s.io /\ DOMAIN u.x = 0 .. 15
    /\ \A q \in 0 .. 15 : u.x[q] = IF q = rdx THEN Or(Low(s.x[rdx]), s.x[rbx])
                                  ELSE IF q = rbp THEN s.x[rbx] + 1 ELSE s.x[q]

(* The first two instructions of the branch put the flag and the counter   *)
(* in one word and raise the counter.                                      *)
LEMMA BranchLine ==
    ASSUME NEW ph \in Phases, NEW s, DOMAIN s.x = 0 .. 15,
           NEW t, t = Effect(Branching(ph)[1], s), NEW u, u = Effect(Branching(ph)[2], t)
    PROVE  BranchDone(s, u)
<1> DEFINE v == Or(Low(s.x[rdx]), s.x[rbx])
<1>1. PICK in, in2 : in = Branching(ph)[1] /\ in2 = Branching(ph)[2]
    OBVIOUS
<1>2. in = [op |-> "or_bc", len |-> 2, to |-> rdx, from |-> rbx] /\ in2 = NextBc
    BY <1>1, BranchIs DEF BranchingIs
<1>3. rdx = 2 /\ rbx = 3 /\ rbp = 5 /\ rdx \in 0 .. 15 /\ rbp \in 0 .. 15 /\ rbx \in 0 .. 15
    BY DEF rdx, rbx, rbp
<1>4. PutIs(s, t, rdx, v)
    <2>1. t = Put(s, rdx, v)
        BY <1>1, <1>2, Writes
    <2> QED
        BY <1>3, <2>1, PutWrites
<1>5. PutIs(t, u, rbp, s.x[rbx] + 1)
    <2>1. t.x[rbx] = s.x[rbx] /\ DOMAIN t.x = 0 .. 15
        BY <1>3, <1>4 DEF PutIs
    <2>2. u = Put(t, rbp, s.x[rbx] + 1)
        BY <1>1, <1>2, <2>1, Writes DEF NextBc
    <2> QED
        BY <1>3, <2>1, <2>2, PutWrites
<1> HIDE DEF v
<1>6. \A q \in 0 .. 15 : u.x[q] = IF q = rdx THEN v
                                  ELSE IF q = rbp THEN s.x[rbx] + 1 ELSE s.x[q]
    BY <1>3, <1>4, <1>5 DEF PutIs
<1> QED
    BY <1>4, <1>5, <1>6 DEF PutIs, v, BranchDone

(* The registers Z[k] of HashwxVM after instruction k of a pass from rs.   *)
Passes(p, rs, ph, mm, Z) ==
    /\ Z[0] = Do(p, 0, rs, ph, mm)
    /\ Z[1] = Do(p, 1, Z[0], ph, mm)
    /\ Z[2] = Do(p, 2, Z[1], ph, mm)
    /\ Z[3] = Do(p, 3, Z[2], ph, mm)
    /\ Z[4] = Do(p, 4, Z[3], ph, mm)
    /\ Z[5] = Do(p, 5, Z[4], ph, mm)
    /\ Z[6] = Do(p, 6, Z[5], ph, mm)
    /\ Z[8] = Do(p, 8, Z[6], ph, mm)

(* What HashwxVM makes of the registers rs: in a pass, by RMCG and at the  *)
(* end of the program.                                                     *)
Looped(p, rs, ph, mm) ==
    LET r0 == Do(p, 0, rs, ph, mm)
        r1 == Do(p, 1, r0, ph, mm)
        r2 == Do(p, 2, r1, ph, mm)
        r3 == Do(p, 3, r2, ph, mm)
        r4 == Do(p, 4, r3, ph, mm)
        r5 == Do(p, 5, r4, ph, mm)
    IN  Do(p, 6, r5, ph, mm)
Flagged(p, rs, ph, mm) == Do(p, 0, rs, ph, mm)[p[0].dst]
Ended(p, rs, ph, mm) == Do(p, 8, Looped(p, rs, ph, mm), ph, mm)

(* The registers of a pass as a sequence of them.                          *)
LEMMA PassesExist ==
    ASSUME NEW p, NEW rs, NEW ph, NEW mm
    PROVE  \E Z : /\ Passes(p, rs, ph, mm, Z)
                  /\ Z[6] = Looped(p, rs, ph, mm) /\ Z[8] = Ended(p, rs, ph, mm)
                  /\ Z[0][p[0].dst] = Flagged(p, rs, ph, mm)
<1> DEFINE r0 == Do(p, 0, rs, ph, mm)
           r1 == Do(p, 1, r0, ph, mm)
           r2 == Do(p, 2, r1, ph, mm)
           r3 == Do(p, 3, r2, ph, mm)
           r4 == Do(p, 4, r3, ph, mm)
           r5 == Do(p, 5, r4, ph, mm)
           r6 == Do(p, 6, r5, ph, mm)
           r8 == Do(p, 8, r6, ph, mm)
           Z == [k \in 0 .. 8 |-> IF k = 0 THEN r0 ELSE IF k = 1 THEN r1 ELSE IF k = 2 THEN r2
                                  ELSE IF k = 3 THEN r3 ELSE IF k = 4 THEN r4 ELSE IF k = 5 THEN r5
                                  ELSE IF k = 6 THEN r6 ELSE r8]
<1>1. r6 = Looped(p, rs, ph, mm) /\ r8 = Ended(p, rs, ph, mm) /\ r0[p[0].dst] = Flagged(p, rs, ph, mm)
    BY DEF Looped, Ended, Flagged
<1>2. /\ r1 = Do(p, 1, r0, ph, mm) /\ r2 = Do(p, 2, r1, ph, mm) /\ r3 = Do(p, 3, r2, ph, mm)
      /\ r4 = Do(p, 4, r3, ph, mm) /\ r5 = Do(p, 5, r4, ph, mm) /\ r6 = Do(p, 6, r5, ph, mm)
      /\ r8 = Do(p, 8, r6, ph, mm) /\ r0 = Do(p, 0, rs, ph, mm)
    OBVIOUS
<1> HIDE DEF r0, r1, r2, r3, r4, r5, r6, r8
<1>3. /\ Z[0] = r0 /\ Z[1] = r1 /\ Z[2] = r2 /\ Z[3] = r3 /\ Z[4] = r4 /\ Z[5] = r5
      /\ Z[6] = r6 /\ Z[8] = r8
    OBVIOUS
<1> HIDE DEF Z
<1>4. Passes(p, rs, ph, mm, Z)
    BY <1>2, <1>3 DEF Passes
<1> QED
    BY <1>1, <1>3, <1>4

(* The halves of an instruction compute words of words.                    *)
LEMMA HalvesTyped ==
    ASSUME NEW p \in Program, NEW k \in Operands \ {0}, NEW v \in Word, NEW s \in Word
    PROVE  Full(p, k, Half(p, k, v), s) \in Word
<1>1. p[k].imm \in Imm /\ p[k].imm \in Word
    <2>1. p[k] \in Instr
        BY DEF Program, Operands, Line
    <2> QED
        BY <2>1, WordAssumption DEF Instr
<1>2. CASE k \in {2, 4, 6}
    BY <1>1, <1>2, WordAssumption DEF Full, Half, Mixed
<1>3. CASE k \notin {2, 4, 6}
    <2>1. Half(p, k, v) \in Word
        BY <1>1, <1>3, WordAssumption DEF Half, Shifted
    <2> QED
        BY <1>3, <2>1, WordAssumption DEF Full, Combined
<1> QED
    BY <1>2, <1>3

(* Every cell of the memory holds a word.                                  *)
Words(mm) == mm \in [0 .. MemSize - 1 -> Word]

(* An instruction keeps the registers words and R8 and R9 as they are.     *)
LEMMA DoTyped ==
    ASSUME NEW p \in Program, NEW rs \in Registers, NEW ph \in Phases, NEW mm,
           ph = "mem" => Words(mm), NEW k \in Operands
    PROVE  LET t == Do(p, k, rs, ph, mm)
           IN  t \in Registers /\ t[8] = rs[8] /\ t[9] = rs[9]
<1> DEFINE t == Do(p, k, rs, ph, mm)
<1>1. DOMAIN rs = Reg /\ \A q \in Reg : rs[q] \in Word
    BY DEF Registers
<1>2. p[k].dst \in 0 .. 7 /\ (k # 0 => p[k].src \in 0 .. 7) /\ p[0].src \in {8, 9}
    BY OperandsAre
<1>3. \E v \in Word : Updated(rs, t, p[k].dst, v)
    <2>1. CASE k = 0
        <3>1. p[0].imm \in Imm
            BY DEF Program, Instr, Line
        <3>2. Ror(Mul(rs[p[0].dst], rs[p[0].src]), p[0].imm) \in Word
            BY <1>1, <1>2, <2>1, <3>1, WordAssumption DEF Reg
        <3> QED
            BY <1>1, <2>1, <3>2, DoIs
    <2>2. CASE k # 0
        <3>1. k \in Operands \ {0}
            BY <2>2
        <3>2. Source(p, k, rs, ph, mm) \in Word
            <4>1. rs[p[k].src] \in Word
                BY <1>1, <1>2, <2>2 DEF Reg
            <4>2. Slot(rs[p[k].src]) \in 0 .. MemSize - 1
                BY <4>1, WordAssumption
            <4> QED
                BY <4>1, <4>2 DEF Source, Words
        <3>3. rs[p[k].dst] \in Word
            BY <1>1, <1>2 DEF Reg
        <3>4. Full(p, k, Half(p, k, rs[p[k].dst]), Source(p, k, rs, ph, mm)) \in Word
            BY <3>1, <3>2, <3>3, HalvesTyped
        <3>5. Updated(rs, t, p[k].dst, Full(p, k, Half(p, k, rs[p[k].dst]), Source(p, k, rs, ph, mm)))
            BY <1>1, <3>1, DoIs
        <3> QED
            BY <3>4, <3>5
    <2> QED
        BY <2>1, <2>2
<1>4. \E f : f = t /\ f = [q \in Reg |-> t[q]]
    <2>1. \E r, d, v : t = [r EXCEPT ![d] = v]
        BY DEF Do, Apply
    <2>2. DOMAIN t = Reg
        BY <1>3 DEF Updated
    <2> QED
        BY <2>1, <2>2
<1> HIDE DEF t
<1>5. t = [q \in Reg |-> t[q]] /\ \A q \in Reg : t[q] \in Word
    BY <1>1, <1>3, <1>4 DEF Updated
<1>6. t[8] = rs[8] /\ t[9] = rs[9]
    BY <1>2, <1>3 DEF Updated, Reg
<1> QED
    BY <1>5, <1>6 DEF Registers, t

(* So does a pass.                                                         *)
AllRegisters(rs, Z) ==
    \A k \in Operands : Z[k] \in Registers /\ Z[k][8] = rs[8] /\ Z[k][9] = rs[9]

(* Every instruction of a pass leaves words in the registers.              *)
LEMMA PassTyped ==
    ASSUME NEW p \in Program, NEW rs \in Registers, NEW ph \in Phases, NEW mm,
           ph = "mem" => Words(mm),
           NEW Z, Passes(p, rs, ph, mm, Z)
    PROVE  AllRegisters(rs, Z)
<1>1. ASSUME NEW r \in Registers, NEW k \in Operands
      PROVE  LET t == Do(p, k, r, ph, mm)
             IN  t \in Registers /\ t[8] = r[8] /\ t[9] = r[9]
    BY DoTyped
<1>2. {0, 1, 2, 3, 4, 5, 6, 8} \subseteq Operands
    BY DEF Operands
<1>3. Z[0] \in Registers /\ Z[0][8] = rs[8] /\ Z[0][9] = rs[9]
    BY <1>1, <1>2 DEF Passes
<1>4. Z[1] \in Registers /\ Z[1][8] = rs[8] /\ Z[1][9] = rs[9]
    BY <1>1, <1>2, <1>3 DEF Passes
<1>5. Z[2] \in Registers /\ Z[2][8] = rs[8] /\ Z[2][9] = rs[9]
    BY <1>1, <1>2, <1>4 DEF Passes
<1>6. Z[3] \in Registers /\ Z[3][8] = rs[8] /\ Z[3][9] = rs[9]
    BY <1>1, <1>2, <1>5 DEF Passes
<1>7. Z[4] \in Registers /\ Z[4][8] = rs[8] /\ Z[4][9] = rs[9]
    BY <1>1, <1>2, <1>6 DEF Passes
<1>8. Z[5] \in Registers /\ Z[5][8] = rs[8] /\ Z[5][9] = rs[9]
    BY <1>1, <1>2, <1>7 DEF Passes
<1>9. Z[6] \in Registers /\ Z[6][8] = rs[8] /\ Z[6][9] = rs[9]
    BY <1>1, <1>2, <1>8 DEF Passes
<1>10. Z[8] \in Registers /\ Z[8][8] = rs[8] /\ Z[8][9] = rs[9]
    BY <1>1, <1>2, <1>9 DEF Passes
<1> QED
    BY <1>3, <1>4, <1>5, <1>6, <1>7, <1>8, <1>9, <1>10 DEF Operands, AllRegisters

-----------------------------------------------------------------------------
(* The runs of the segments.                                               *)

(* T is the run of segment e, instruction by instruction, from its place   *)
(* from to its place j.                                                    *)
Trace(cv, list, e, from, j, T) ==
    \A i \in from .. j - 1 : T[i + 1] = Effect(Isn(cv, list, e, i + 1), T[i])

(* The part of a run that belongs to one line of the program.              *)
LEMMA LineTraced ==
    ASSUME NEW cv \in Abi, NEW list \in ProgramLists, NEW e \in 1 .. 2 * N, NEW j \in Nat, NEW T,
           Trace(cv, list, e, 2, j, T), NEW ph, ph = PhaseOf(e), NEW k \in 0 .. 9,
           NEW b, b = Begin(ph, k), b + Size(ph, k) <= j
    PROVE  \E y : /\ \A o \in 0 .. Size(ph, k) : y[o] = T[b + o]
                  /\ Ran(Piece(ph, ProgramOf(list, e), k), y, IF k = 0 THEN 3 ELSE 1, Size(ph, k))
<1> DEFINE y == [o \in 0 .. Size(ph, k) |-> T[b + o]]
<1>1. \A o \in 0 .. Size(ph, k) : y[o] = T[b + o]
    OBVIOUS
<1> HIDE DEF y
<1>2. ph \in Phases /\ b \in Nat /\ Size(ph, k) \in Nat /\ (k = 0 => b = 0) /\ (k # 0 => b >= 5)
    BY ProgramHere DEF Begin, Size, Phases
<1>3. ASSUME NEW o \in (IF k = 0 THEN 3 ELSE 1) .. Size(ph, k)
      PROVE  y[o] = Effect(Piece(ph, ProgramOf(list, e), k)[o], y[o - 1])
    <2>1. PICK q : q = o - 1
        OBVIOUS
    <2>2. PICK i : i = b + q
        OBVIOUS
    <2>3. o \in 1 .. Size(ph, k) /\ o \in 0 .. Size(ph, k) /\ q \in 0 .. Size(ph, k) /\ i \in 2 .. j - 1
          /\ i + 1 = b + o /\ q \in Nat
        BY <1>2, <2>1, <2>2
    <2>4. T[i + 1] = Effect(Isn(cv, list, e, i + 1), T[i])
        BY <2>3 DEF Trace
    <2>5. Isn(cv, list, e, b + o) = Piece(ph, ProgramOf(list, e), k)[o]
        BY <2>3, ProgramIsns
    <2>6. y[o] = T[b + o] /\ y[q] = T[i]
        BY <1>1, <2>2, <2>3
    <2> QED
        BY <2>1, <2>3, <2>4, <2>5, <2>6
<1>4. Ran(Piece(ph, ProgramOf(list, e), k), y, IF k = 0 THEN 3 ELSE 1, Size(ph, k))
    BY <1>3 DEF Ran
<1> QED
    BY <1>1, <1>4

(* The memory a program of the second phase reads, by the stack of s.      *)
Reads(ph, s, mm) ==
    ph = "mem" => s.x[rsp] = 0 /\ \A a \in 0 .. MemSize - 1 : mm[a] = s.stack[a]

(* A line of a run does what HashwxVM does.                                *)
LEMMA LineDone ==
    ASSUME NEW cv \in Abi, NEW list \in ProgramLists, NEW e \in 1 .. 2 * N, NEW j \in Nat, NEW T,
           Trace(cv, list, e, 2, j, T), NEW ph, ph = PhaseOf(e), NEW p, p = ProgramOf(list, e),
           NEW k \in Operands \ {0},
           NEW b, b = Begin(ph, k), NEW b2, b2 = Begin(ph, k + 1), b2 <= j,
           DOMAIN T[b].x = 0 .. 15, NEW r \in Registers, Holds(T[b].x, r), NEW mm, Reads(ph, T[b], mm)
    PROVE  /\ Holds(T[b2].x, Do(p, k, r, ph, mm)) /\ Beside(T[b], T[b2])
           /\ T[b2].x[rdx] = T[b].x[rdx]
<1>1. ph \in Phases /\ p \in Program /\ k \in 0 .. 9 /\ DOMAIN r = Reg
    BY ProgramHere DEF Operands, Registers
<1>2. b \in Nat /\ b2 = b + Size(ph, k) /\ Size(ph, k) \in Nat
    BY <1>1, BeginNext
<1>3. PICK y : /\ \A o \in 0 .. Size(ph, k) : y[o] = T[b + o]
               /\ Ran(Piece(ph, p, k), y, IF k = 0 THEN 3 ELSE 1, Size(ph, k))
    BY <1>1, <1>2, LineTraced
<1>4. y[0] = T[b] /\ y[Size(ph, k)] = T[b2]
    <2>1. 0 \in 0 .. Size(ph, k) /\ Size(ph, k) \in 0 .. Size(ph, k) /\ b + 0 = b
        BY <1>2
    <2> QED
        BY <1>2, <1>3, <2>1
<1>5. k # 0 /\ k # 7 /\ k # 9
    BY DEF Operands
<1>6. CASE ph = "reg"
    <2>1. Size(ph, k) = 2
        BY <1>5, <1>6 DEF Size
    <2>2. Ran(Piece("reg", p, k), y, 1, 2)
        BY <1>3, <1>5, <1>6, <2>1
    <2>3. /\ Holds(y[2].x, Do(p, k, r, "reg", mm)) /\ Beside(y[0], y[2])
          /\ y[2].x[rdx] = y[0].x[rdx]
        BY <1>1, <1>4, <2>2, RegLine
    <2> QED
        BY <1>4, <1>6, <2>1, <2>3
<1>7. CASE ph = "mem"
    <2>1. Size(ph, k) = 4
        BY <1>5, <1>7 DEF Size
    <2>2. Ran(Piece("mem", p, k), y, 1, 4)
        BY <1>3, <1>5, <1>7, <2>1
    <2>3. y[0].x[rsp] = 0 /\ \A a \in 0 .. MemSize - 1 : mm[a] = y[0].stack[a]
        BY <1>4, <1>7 DEF Reads
    <2>4. /\ Holds(y[4].x, Do(p, k, r, "mem", mm)) /\ Beside(y[0], y[4])
          /\ y[4].x[rdx] = y[0].x[rdx]
        BY <1>1, <1>4, <2>2, <2>3, MemLine
    <2> QED
        BY <1>4, <1>7, <2>1, <2>4
<1> QED
    BY <1>1, <1>6, <1>7 DEF Phases

(* s holds rs, and t is beside s.                                          *)
Came(s, t, rs, flag) == Holds(t.x, rs) /\ Beside(s, t) /\ t.x[rdx] = flag

(* Beside is transitive.                                                   *)
LEMMA BesideAll ==
    ASSUME NEW s, NEW t, NEW u, Beside(s, t), Beside(t, u)
    PROVE  Beside(s, u)
BY DEF Beside

(* What leaves the stack alone reads the same memory.                      *)
LEMMA BesideReads ==
    ASSUME NEW s, NEW t, Beside(s, t), NEW ph, NEW mm, Reads(ph, s, mm)
    PROVE  Reads(ph, t, mm) /\ DOMAIN t.x = 0 .. 15
BY DEF Beside, Reads, rsp

(* From the target of the jump to the branch: a pass of HashwxVM.          *)
LEMMA PassRuns ==
    ASSUME NEW cv \in Abi, NEW list \in ProgramLists, NEW e \in 1 .. 2 * N, NEW j \in Nat, NEW T,
           Trace(cv, list, e, 2, j, T), NEW ph, ph = PhaseOf(e), NEW p, p = ProgramOf(list, e),
           NEW b, b = Begin(ph, 7), b <= j,
           DOMAIN T[2].x = 0 .. 15, NEW r \in Registers, Holds(T[2].x, r),
           NEW mm, Reads(ph, T[2], mm), ph = "mem" => Words(mm)
    PROVE  /\ Came(T[2], T[b], Looped(p, r, ph, mm), Flagged(p, r, ph, mm))
           /\ Looped(p, r, ph, mm) \in Registers /\ Ended(p, r, ph, mm) \in Registers
           /\ Flagged(p, r, ph, mm) \in Word
           /\ Looped(p, r, ph, mm)[8] = r[8] /\ Looped(p, r, ph, mm)[9] = r[9]
           /\ Ended(p, r, ph, mm)[8] = r[8] /\ Ended(p, r, ph, mm)[9] = r[9]
<1>1. ph \in Phases /\ p \in Program /\ DOMAIN r = Reg
    BY ProgramHere DEF Registers
<1>2. PICK Z : /\ Passes(p, r, ph, mm, Z)
               /\ Z[6] = Looped(p, r, ph, mm) /\ Z[8] = Ended(p, r, ph, mm)
               /\ Z[0][p[0].dst] = Flagged(p, r, ph, mm)
    BY PassesExist
<1>3. \A k \in Operands : Z[k] \in Registers /\ Z[k][8] = r[8] /\ Z[k][9] = r[9]
    <2>1. AllRegisters(r, Z)
        BY <1>1, <1>2, PassTyped
    <2> QED
        BY <2>1 DEF AllRegisters
<1>4. {0, 1, 2, 3, 4, 5, 6, 8} \subseteq Operands /\ {1, 2, 3, 4, 5, 6} \subseteq Operands \ {0}
    BY DEF Operands
<1>5. Flagged(p, r, ph, mm) \in Word
    BY <1>1, <1>2, <1>3, <1>4, OperandsAre DEF Registers, Reg
<1> DEFINE f == Flagged(p, r, ph, mm)
<1> HIDE DEF f
<1>6. Came(T[2], T[Begin(ph, 1)], Z[0], f)
    <2>1. Begin(ph, 0) = 0 /\ Begin(ph, 1) = 5 /\ Size(ph, 0) = 5 /\ 0 + Size(ph, 0) <= j /\ 0 \in 0 .. 9
        BY <1>1 DEF Begin, Size, Phases
    <2>2. PICK y : /\ \A o \in 0 .. Size(ph, 0) : y[o] = T[0 + o]
                   /\ Ran(Piece(ph, p, 0), y, IF 0 = 0 THEN 3 ELSE 1, Size(ph, 0))
        BY <1>1, <2>1, LineTraced
    <2>3. y[2] = T[2] /\ y[5] = T[5] /\ Ran(Piece(ph, p, 0), y, 3, 5)
        BY <2>1, <2>2
    <2>4. /\ Holds(y[5].x, Do(p, 0, r, ph, mm)) /\ Beside(y[2], y[5])
          /\ y[5].x[rdx] = Do(p, 0, r, ph, mm)[p[0].dst]
        BY <1>1, <2>3, RmcgLine
    <2>5. Z[0] = Do(p, 0, r, ph, mm) /\ f = Do(p, 0, r, ph, mm)[p[0].dst]
        BY <1>2 DEF Passes, f, Flagged
    <2> QED
        BY <2>1, <2>3, <2>4, <2>5 DEF Came
<1>7. ASSUME NEW k \in {1, 2, 3, 4, 5, 6}, NEW q, NEW z, q \in Registers, z = Do(p, k, q, ph, mm),
             Came(T[2], T[Begin(ph, k)], q, f)
      PROVE  Came(T[2], T[Begin(ph, k + 1)], z, f)
    <2>1. PICK u, v : u = Begin(ph, k) /\ v = Begin(ph, k + 1)
        OBVIOUS
    <2>2. v <= j /\ k \in Operands \ {0}
        BY <1>1, <1>4, <2>1 DEF Begin, Phases
    <2>3. Holds(T[u].x, q) /\ Beside(T[2], T[u]) /\ T[u].x[rdx] = f
        BY <1>7, <2>1 DEF Came
    <2>4. Reads(ph, T[u], mm) /\ DOMAIN T[u].x = 0 .. 15
        BY <2>3, BesideReads
    <2>5. /\ Holds(T[v].x, Do(p, k, q, ph, mm)) /\ Beside(T[u], T[v])
          /\ T[v].x[rdx] = T[u].x[rdx]
        BY <1>7, <2>1, <2>2, <2>3, <2>4, LineDone
    <2>6. Beside(T[2], T[v])
        BY <2>3, <2>5, BesideAll
    <2> QED
        BY <1>7, <2>1, <2>3, <2>5, <2>6 DEF Came
<1>8. Came(T[2], T[Begin(ph, 2)], Z[1], f)
    BY <1>2, <1>3, <1>4, <1>6, <1>7 DEF Passes
<1>9. Came(T[2], T[Begin(ph, 3)], Z[2], f)
    BY <1>2, <1>3, <1>4, <1>8, <1>7 DEF Passes
<1>10. Came(T[2], T[Begin(ph, 4)], Z[3], f)
    BY <1>2, <1>3, <1>4, <1>9, <1>7 DEF Passes
<1>11. Came(T[2], T[Begin(ph, 5)], Z[4], f)
    BY <1>2, <1>3, <1>4, <1>10, <1>7 DEF Passes
<1>12. Came(T[2], T[Begin(ph, 6)], Z[5], f)
    BY <1>2, <1>3, <1>4, <1>11, <1>7 DEF Passes
<1>13. Came(T[2], T[Begin(ph, 7)], Z[6], f)
    BY <1>2, <1>3, <1>4, <1>12, <1>7 DEF Passes
<1>14. Looped(p, r, ph, mm) \in Registers /\ Ended(p, r, ph, mm) \in Registers
       /\ Looped(p, r, ph, mm)[8] = r[8] /\ Looped(p, r, ph, mm)[9] = r[9]
       /\ Ended(p, r, ph, mm)[8] = r[8] /\ Ended(p, r, ph, mm)[9] = r[9]
    BY <1>2, <1>3, <1>4
<1> QED
    BY <1>2, <1>5, <1>13, <1>14 DEF f

(* A step that goes on to the next instruction, from state s and flag f.   *)
Moves(in, s, f, s2, f2) ==
    /\ in.op = "cmovz" => \/ f = TRUE /\ s2 = Put(s, in.to, s.x[in.from])
                          \/ f = FALSE /\ s2 = s
    /\ in.op = "jz" => s2 = s /\ f = FALSE
    /\ in.op \notin {"cmovz", "jz"} => s2 = Effect(in, s)
    /\ in.op = "test_bc" => f2 = (s.x[in.from] = 0)
    /\ in.op = "test_flag" => f2 = Looping(s.x[in.from])
    /\ in.op \notin {"test_bc", "test_flag"} => f2 \in {f, Uninit}

(* The flag after an instruction that is not a test.                       *)
LEMMA FlagLeft ==
    ASSUME Next, Running, isn.op \notin {"test_bc", "test_flag"}
    PROVE  zf' \in {zf, Uninit}
<1>1. CASE PushPop
    BY <1>1 DEF PushPop
<1>2. CASE Move
    BY <1>2 DEF Move
<1>3. CASE StoreBack
    BY <1>3 DEF StoreBack
<1>4. CASE Arithmetic
    BY <1>4 DEF Arithmetic
<1>5. CASE Test
    BY <1>5 DEF Test, Op
<1>6. CASE JumpTaken
    BY <1>6 DEF JumpTaken
<1>7. CASE JumpNotTaken
    BY <1>7 DEF JumpNotTaken
<1>8. CASE Return
    BY <1>8 DEF Return
<1>9. CASE Returned
    BY <1>9 DEF Returned
<1> QED
    BY <1>1, <1>2, <1>3, <1>4, <1>5, <1>6, <1>7, <1>8, <1>9 DEF Next

(* A step of the processor goes on, or back.                               *)
LEMMA StepMoves ==
    ASSUME Next, Running
    PROVE  /\ UNCHANGED input
           /\ \/ pc' = pc + isn.len /\ Moves(isn, St, zf, St', zf')
              \/ /\ isn.op = "jz" /\ zf = TRUE /\ zf' = TRUE /\ St' = St
                 /\ pc' = pc + isn.len - isn.back
<1>1. isn.op \notin {"test_bc", "test_flag"} => zf' \in {zf, Uninit}
    BY FlagLeft
<1>2. /\ isn.op = "test_bc" => zf' = (x[isn.from] = 0)
      /\ isn.op = "test_flag" => zf' = Looping(x[isn.from])
    BY FlagStep
<1>3. CASE isn.op = "jz"
    <2>1. /\ UNCHANGED <<input, x, stack, io, zf>>
          /\ \/ zf = TRUE /\ pc' = pc + isn.len - isn.back
             \/ zf = FALSE /\ pc' = pc + isn.len
        BY <1>3, FlagStep
    <2>2. St' = St
        BY <2>1 DEF St
    <2> QED
        BY <1>1, <1>3, <2>1, <2>2 DEF Moves
<1>4. CASE isn.op = "cmovz"
    <2>1. /\ pc' = pc + isn.len /\ UNCHANGED <<input, stack, io>>
          /\ \/ zf = TRUE /\ x' = [x EXCEPT ![isn.to] = x[isn.from]]
             \/ zf = FALSE /\ UNCHANGED x
        BY <1>4, FlagStep
    <2>2. \/ zf = TRUE /\ St' = Put(St, isn.to, St.x[isn.from])
          \/ zf = FALSE /\ St' = St
        BY <2>1 DEF St, Put
    <2> QED
        BY <1>1, <1>4, <2>1, <2>2 DEF Moves
<1>5. CASE isn.op \notin {"jz", "cmovz"}
    <2>1. pc' = pc + isn.len /\ St' = Effect(isn, St) /\ UNCHANGED input
        BY <1>5, StraightStep
    <2>2. St.x = x
        BY DEF St
    <2> QED
        BY <1>1, <1>2, <1>5, <2>1, <2>2 DEF Moves
<1> QED
    BY <1>3, <1>4, <1>5

-----------------------------------------------------------------------------
(* The state s and the flag f before instruction j + 1 of segment e: what  *)
(* holds anywhere,                                                         *)
Typed(cv, e, j, s, f) ==
    /\ DOMAIN s.x = 0 .. 15 /\ s.x[rsp] = 8 * Sp(cv, e, j)
    /\ DOMAIN s.stack = 0 .. Deep(cv) - 1
    /\ s.io \in Registers
    /\ f \in BOOLEAN \cup {Uninit}

(* what the programs leave alone: the caller's registers, the memory of    *)
(* the programs behind, R8 and R9,                                         *)
Sheltered(cv, e, s, rs) ==
    /\ \A i \in 1 .. Saves(cv) : s.stack[Deep(cv) - i] = Caller[SavedRegs(cv)[i]]
    /\ \A a \in 0 .. MemSize - 1 : a >= Top(e) => s.stack[a] \in Word
    /\ s.io[8] = rs[8] /\ s.io[9] = rs[9]

(* in the prologue,                                                        *)
Entering(cv, j, s, rs, left) ==
    /\ left = BranchLimit /\ s.io = rs
    /\ j <= First(cv) + Saves(cv) =>
          \A k \in 1 .. Saves(cv) : s.x[SavedRegs(cv)[k]] = Caller[SavedRegs(cv)[k]]
    /\ \A k \in 1 .. Saves(cv) :
          First(cv) + k <= j => s.stack[Deep(cv) - k] = Caller[SavedRegs(cv)[k]]
    /\ \A k \in 1 .. 10 : First(cv) + Saves(cv) + k <= j => s.x[HomeOf(k - 1)] = rs[k - 1]
    /\ j = First(cv) + Saves(cv) + 11 => s.x[rbx] = 0

(* where a program begins, and behind its first instruction,               *)
Opening(s, rs, left) == Holds(s.x, rs) /\ s.x[rbx] = BranchLimit - left /\ s.x[rbp] # 0
Behind(s, f, rs, left) ==
    /\ Holds(s.x, rs)
    /\ \/ f = TRUE /\ s.x[rbp] = BranchLimit - left
       \/ f = FALSE /\ s.x[rbx] = BranchLimit - left

(* in its arithmetic: T is the run that led here,                          *)
Led(cv, list, e, j, T, s, f, rs, left) ==
    /\ Trace(cv, list, e, 2, j, T) /\ T[j] = s
    /\ DOMAIN T[2].x = 0 .. 15 /\ T[2].x[rsp] = 8 * Top(e)
    /\ Holds(T[2].x, rs) /\ T[2].x[rbx] = BranchLimit - left
    /\ e > N => T[2].stack = s.stack
    /\ j = Jump(e) => f = Looping(s.x[rdx])
    /\ j > Jump(e) => ~Looping(T[Jump(e)].x[rdx])

(* where a program of the first phase saves its registers,                 *)
Asked(p, rs, ph, mm, left) == left # 0 /\ Looping(Flagged(p, rs, ph, mm))
Closing(p, e, j, s, rs, mm, left) ==
    LET end == Ended(p, rs, "reg", mm)
    IN  /\ end \in Registers /\ end[8] = rs[8] /\ end[9] = rs[9]
        /\ Opening(s, end, left) /\ ~Asked(p, rs, "reg", mm, left)
        /\ \A i \in 1 .. 8 : 23 + i <= j => s.stack[Top(e) - i] = end[i - 1]

(* and in the epilogue.                                                    *)
Leaving(cv, j, s, rs) ==
    /\ j <= 9 => \A k \in 0 .. 7 : s.x[R(k)] = rs[k]
    /\ \A k \in 1 .. 8 : 1 + k <= j => s.io[k - 1] = rs[k - 1]
    /\ \A k \in 1 .. Saves(cv) :
          9 + k <= j => s.x[SavedRegs(cv)[Saves(cv) + 1 - k]] = Caller[SavedRegs(cv)[Saves(cv) + 1 - k]]

(* The mapping at a segment.                                               *)
Done(e) == IF e = 0 THEN 0 ELSE e - 1
MemoryAt(e, cells) ==
    [a \in 0 .. MemSize - 1 |->
        IF e <= N /\ a < MemSize - 8 * Done(e) THEN Uninit ELSE cells[a]]

Where(cv, list, e, j, s, f, rs, left) ==
    /\ e = 0 => Entering(cv, j, s, rs, left)
    /\ e \in 1 .. 2 * N =>
          /\ j = 0 => Opening(s, rs, left)
          /\ j = 1 => Behind(s, f, rs, left)
          /\ j >= 2 /\ j < Begin(PhaseOf(e), 10) =>
                \E T : Led(cv, list, e, j, T, s, f, rs, left)
          /\ j >= Begin(PhaseOf(e), 10) =>
                Closing(ProgramOf(list, e), e, j, s, rs, MemoryAt(e, s.stack), left)
    /\ e = 2 * N + 1 => Leaving(cv, j, s, rs)

At(cv, list, e, j, s, f, rs, left) ==
    /\ rs \in Registers /\ left \in 0 .. BranchLimit
    /\ Typed(cv, e, j, s, f)
    /\ e # 0 => Sheltered(cv, e, s, rs)
    /\ Where(cv, list, e, j, s, f, rs, left)

-----------------------------------------------------------------------------
(* Every step of a segment leads on to its next place.                     *)

(* The instructions that write the stack or r[] by their places.           *)
LEMMA WhoWrites ==
    ASSUME NEW cv \in Abi, NEW list \in ProgramLists, NEW e \in Segment,
           NEW j \in 0 .. Width(cv, e) - 1, NEW in, in = Isn(cv, list, e, j + 1)
    PROVE  /\ in.op = "push" => e = 0 \/ (e \in 1 .. N /\ j \in 23 .. 30)
           /\ in.op = "store" => e = 2 * N + 1 /\ j \in 1 .. 8 /\ in = StoreTo(R(j - 1), j - 1)
           /\ in.op = "cmovz" => e \in 1 .. 2 * N /\ j = 1 /\ Taking(in)
           /\ in.op = "test_bc" => Target(in)
           /\ in.op = "unwind" <=> e = 2 * N + 1 /\ j = 0
           /\ in.op = "test_bc" <=> e \in 1 .. 2 * N /\ j = 0
           /\ in.op = "jz" <=> e \in 1 .. 2 * N /\ j = Jump(e)
           /\ in.op = "test_flag" <=> e \in 1 .. 2 * N /\ j = Jump(e) - 1
<1>0. /\ Saves(cv) \in {6, 8} /\ First(cv) \in {0, 1} /\ N \in Nat \ {0}
      /\ e \in 0 .. 2 * N + 1 /\ j \in Nat /\ Width(cv, e) \in Nat
    BY NIsNat, Widths DEF Segment
<1>1. CASE e = 0
    <2>1. Width(cv, e) = First(cv) + Saves(cv) + 12
        BY <1>1, Widths
    <2>2. in.op \in {"mov", "push", "load", "clear", "lea"}
        <3>1. CASE j < First(cv)
            <4>1. First(cv) = 1 /\ j = 0
                BY <1>0, <3>1
            <4>2. in = MovReg(rcx, rdi)
                BY <1>1, <4>1, PrologueIsns
            <4> QED
                BY <4>2 DEF MovReg
        <3>2. CASE j >= First(cv) /\ j < First(cv) + Saves(cv)
            <4>1. PICK k : k = j + 1 - First(cv)
                OBVIOUS
            <4>2. k \in 1 .. Saves(cv) /\ First(cv) + k = j + 1
                BY <1>0, <3>2, <4>1
            <4>3. in = Push(SavedRegs(cv)[k])
                BY <1>1, <4>2, PrologueIsns
            <4> QED
                BY <4>3 DEF Push
        <3>3. CASE j >= First(cv) + Saves(cv)
            <4>1. PICK k : k = j + 1 - First(cv) - Saves(cv)
                OBVIOUS
            <4>2. k \in 1 .. 12 /\ First(cv) + Saves(cv) + k = j + 1
                BY <1>0, <1>1, <2>1, <3>3, <4>1
            <4>3. CASE k \in 1 .. 10
                BY <1>1, <4>2, <4>3, PrologueIsns DEF Load
            <4>4. CASE k \in {11, 12}
                BY <1>1, <4>2, <4>4, PrologueIsns DEF ClearBc, NextBc
            <4> QED
                BY <4>2, <4>3, <4>4
        <3> QED
            BY <1>0, <3>1, <3>2, <3>3
    <2> QED
        BY <1>0, <1>1, <2>2
<1>2. CASE e \in 1 .. 2 * N
    <2>1. PICK i : i = j + 1
        OBVIOUS
    <2>2. i \in 1 .. Width(cv, e) /\ Jump(e) \in {20, 32} /\ ~(e = 2 * N + 1) /\ e # 0
        BY <1>0, <1>2, <2>1 DEF Jump
    <2>3. /\ i = 1 => Target(in)
          /\ i = 2 => Taking(in)
          /\ i = Jump(e) => Testing(in)
          /\ i = Jump(e) + 1 => in.op = "jz"
          /\ e \in 1 .. N /\ i \in 24 .. 31 => in = Push(R(i - 24))
          /\ i \notin {1, 2, Jump(e), Jump(e) + 1} /\ ~(e \in 1 .. N /\ i \in 24 .. 31)
                => Quiet(in)
        BY <1>2, <2>1, <2>2, ProgramKinds
    <2>4. /\ Target(in) => in.op = "test_bc"
          /\ Taking(in) => in.op = "cmovz"
          /\ Testing(in) => in.op = "test_flag"
          /\ \A q : in = Push(q) => in.op = "push"
          /\ Quiet(in) => in.op \notin Loud
        BY DEF Target, Taking, Testing, Push, Quiet
    <2>5. CASE e \in 1 .. N /\ i \in 24 .. 31
        <3>1. in.op = "push" /\ j \in 23 .. 30 /\ Jump(e) = 20
            BY <1>0, <2>1, <2>3, <2>4, <2>5 DEF Jump
        <3> QED
            BY <2>5, <3>1, <1>2, <2>2
    <2>6. CASE ~(e \in 1 .. N /\ i \in 24 .. 31)
        <3>1. CASE i = 1
            BY <1>2, <2>1, <2>2, <2>3, <2>4, <3>1
        <3>2. CASE i = 2
            <4>1. in.op = "cmovz" /\ Taking(in) /\ j = 1 /\ j # Jump(e) /\ j # Jump(e) - 1
                BY <1>0, <2>1, <2>2, <2>3, <2>4, <3>2
            <4> QED
                BY <1>2, <2>2, <4>1
        <3>3. CASE i = Jump(e)
            BY <1>2, <2>1, <2>2, <2>3, <2>4, <3>3
        <3>4. CASE i = Jump(e) + 1
            BY <1>2, <2>1, <2>2, <2>3, <2>4, <3>4
        <3>5. CASE i \notin {1, 2, Jump(e), Jump(e) + 1}
            <4>1. in.op \notin Loud
                BY <2>3, <2>4, <2>6, <3>5
            <4>2. j # 0 /\ j # 1 /\ j # Jump(e) /\ j # Jump(e) - 1
                BY <1>0, <2>1, <2>2, <3>5
            <4> QED
                BY <2>2, <4>1, <4>2 DEF Loud
        <3> QED
            BY <3>1, <3>2, <3>3, <3>4, <3>5
    <2> QED
        BY <2>5, <2>6
<1>3. CASE e = 2 * N + 1
    <2>1. Width(cv, e) = Saves(cv) + 10 /\ e # 0 /\ ~(e <= 2 * N)
        BY <1>0, <1>3, Widths
    <2>2. CASE j = 0
        BY <1>0, <1>3, <2>1, <2>2, EpilogueIsns DEF Unwind
    <2>3. CASE j \in 1 .. 8
        <3>1. 1 + j = j + 1
            BY <2>3
        <3>2. in = StoreTo(R(j - 1), j - 1)
            BY <1>3, <2>3, <3>1, EpilogueIsns
        <3>3. in.op = "store"
            BY <3>2 DEF StoreTo
        <3> QED
            BY <1>0, <1>3, <2>1, <2>3, <3>2, <3>3
    <2>4. CASE j >= 9
        <3>1. in.op \in {"pop", "ret"}
            <4>1. CASE j < 9 + Saves(cv)
                <5>1. PICK k : k = j - 8
                    OBVIOUS
                <5>2. k \in 1 .. Saves(cv) /\ 9 + k = j + 1
                    BY <1>0, <2>4, <4>1, <5>1
                <5>3. in = Pop(SavedRegs(cv)[Saves(cv) + 1 - k])
                    BY <1>3, <5>2, EpilogueIsns
                <5> QED
                    BY <5>3 DEF Pop
            <4>2. CASE j >= 9 + Saves(cv)
                <5>1. j + 1 = 10 + Saves(cv)
                    BY <1>0, <2>1, <4>2
                <5> QED
                    BY <1>3, <5>1, EpilogueIsns DEF Ret
            <4> QED
                BY <1>0, <4>1, <4>2
        <3> QED
            BY <1>0, <1>3, <2>1, <2>4, <3>1
    <2> QED
        BY <1>0, <2>2, <2>3, <2>4
<1> QED
    BY <1>0, <1>1, <1>2, <1>3

(* The stack and r[] after an instruction that writes neither.             *)
LEMMA Unwritten ==
    ASSUME NEW in, NEW s
    PROVE  /\ in.op # "push" => Effect(in, s).stack = s.stack
           /\ in.op # "store" => Effect(in, s).io = s.io
BY DEF Effect, Put

(* An instruction of a program or behind it, or a store of the epilogue,   *)
(* writes no cell HashwxVM sees.                                           *)
LEMMA PushesBelow ==
    ASSUME NEW cv \in Abi, NEW list \in ProgramLists, NEW e \in Segment \ {0},
           NEW j \in 0 .. Width(cv, e) - 1, NEW in, in = Isn(cv, list, e, j + 1),
           NEW s, s.x[rsp] = 8 * Sp(cv, e, j), DOMAIN s.stack = 0 .. Deep(cv) - 1,
           NEW a, a >= Top(e), a \in 0 .. Deep(cv) - 1
    PROVE  Effect(in, s).stack[a] = s.stack[a]
<1>1. CASE in.op # "push"
    BY <1>1, Unwritten
<1>2. CASE in.op = "push"
    <2>1. e \in 1 .. N /\ j \in 23 .. 30
        BY <1>2, WhoWrites
    <2>2. Top(e) \in 8 .. MemSize /\ MemSize \in Nat
        BY <2>1, TopFacts
    <2>3. N \in Nat
        BY NIsNat
    <2>4. Sp(cv, e, j) = Top(e) - (j - 23)
        BY <2>1, <2>2, <2>3 DEF Sp
    <2>5. PICK c : c = s.x[rsp] \div 8 - 1
        OBVIOUS
    <2>6. c \in Int /\ c < Top(e)
        BY <2>1, <2>2, <2>4, <2>5
    <2>7. Effect(in, s).stack = [s.stack EXCEPT ![c] = s.x[in.from]]
        BY <1>2, <2>5 DEF Effect
    <2>8. a # c
        BY <2>2, <2>6
    <2> QED
        BY <2>7, <2>8
<1> QED
    BY <1>1, <1>2

(* What a step leaves alone.                                               *)
LEMMA MoveKeeps ==
    ASSUME NEW in, NEW s, NEW f, NEW s2, NEW f2, Moves(in, s, f, s2, f2)
    PROVE  /\ in.op \notin {"cmovz", "jz"} => s2 = Effect(in, s)
           /\ in.op # "push" => s2.stack = s.stack
           /\ in.op # "store" => s2.io = s.io
           /\ DOMAIN s2.x = DOMAIN s.x /\ DOMAIN s2.stack = DOMAIN s.stack
<1>1. CASE in.op \notin {"cmovz", "jz"}
    BY <1>1, Unwritten, EffectDomains DEF Moves
<1>2. CASE in.op \in {"cmovz", "jz"}
    BY <1>2 DEF Moves, Put
<1> QED
    BY <1>1, <1>2

(* Before a test of the flag it is a truth value, and before a store the   *)
(* register holds a word.                                                  *)
Ready(e, j, s) ==
    /\ e \in 1 .. 2 * N /\ j = Jump(e) - 1 => Looping(s.x[rdx]) \in BOOLEAN
    /\ e = 2 * N + 1 /\ j \in 1 .. 8 => s.x[R(j - 1)] \in Word

(* A step keeps what holds anywhere.                                       *)
LEMMA TypedMoves ==
    ASSUME NEW cv \in Abi, NEW list \in ProgramLists, NEW e \in Segment,
           NEW j \in 0 .. Width(cv, e) - 1, NEW in, in = Isn(cv, list, e, j + 1),
           NEW s, NEW f, Typed(cv, e, j, s, f), Ready(e, j, s),
           NEW s2, NEW f2, Moves(in, s, f, s2, f2)
    PROVE  Typed(cv, e, j + 1, s2, f2)
<1>0. N \in Nat \ {0} /\ j \in Nat
    BY NIsNat, Widths
<1>1. DOMAIN s2.x = 0 .. 15 /\ DOMAIN s2.stack = 0 .. Deep(cv) - 1
    BY MoveKeeps DEF Typed
<1>2. s2.x[rsp] = 8 * Sp(cv, e, j + 1)
    <2>1. CASE in.op \notin {"cmovz", "jz"}
        BY <2>1, SpStep, MoveKeeps DEF Typed
    <2>2. CASE in.op = "cmovz"
        <3>1. e \in 1 .. 2 * N /\ j = 1 /\ Taking(in)
            BY <2>2, WhoWrites
        <3>2. Sp(cv, e, j + 1) = Sp(cv, e, j)
            BY <1>0, <3>1 DEF Sp
        <3>3. s2.x[rsp] = s.x[rsp]
            <4>1. in.to = 3 /\ rsp = 4 /\ 4 \in 0 .. 15 /\ DOMAIN s.x = 0 .. 15
                BY <3>1 DEF Taking, rbx, rsp, Typed
            <4>2. s2 = Put(s, in.to, s.x[in.from]) \/ s2 = s
                BY <2>2 DEF Moves
            <4> QED
                BY <4>1, <4>2 DEF Put
        <3> QED
            BY <3>2, <3>3 DEF Typed
    <2>3. CASE in.op = "jz"
        <3>1. e \in 1 .. 2 * N /\ j = Jump(e)
            BY <2>3, WhoWrites
        <3>2. Sp(cv, e, j + 1) = Sp(cv, e, j)
            <4>1. CASE e <= N
                <5>1. j = 20 /\ j + 1 = 21 /\ e # 0
                    BY <3>1, <4>1 DEF Jump
                <5> QED
                    BY <4>1, <5>1 DEF Sp
            <4>2. CASE ~(e <= N)
                BY <1>0, <3>1, <4>2 DEF Sp
            <4> QED
                BY <4>1, <4>2
        <3>3. s2 = s
            BY <2>3 DEF Moves
        <3> QED
            BY <3>2, <3>3 DEF Typed
    <2> QED
        BY <2>1, <2>2, <2>3
<1>3. s2.io \in Registers
    <2>1. CASE in.op # "store"
        BY <2>1, MoveKeeps DEF Typed
    <2>2. CASE in.op = "store"
        <3>1. e = 2 * N + 1 /\ j \in 1 .. 8 /\ in = StoreTo(R(j - 1), j - 1)
            BY <2>2, WhoWrites
        <3>2. s2.io = [s.io EXCEPT ![j - 1] = s.x[R(j - 1)]]
            BY <2>2, <3>1 DEF Moves, Effect, StoreTo
        <3>3. s.x[R(j - 1)] \in Word /\ s.io \in Registers
            BY <3>1 DEF Ready, Typed
        <3> QED
            BY <3>2, <3>3 DEF Registers
    <2> QED
        BY <2>1, <2>2
<1>4. f2 \in BOOLEAN \cup {Uninit}
    <2>1. CASE in.op = "test_bc"
        BY <2>1 DEF Moves
    <2>2. CASE in.op = "test_flag"
        <3>1. e \in 1 .. 2 * N /\ j = Jump(e) - 1
            BY <2>2, WhoWrites
        <3>2. j + 1 = Jump(e) /\ j + 1 \in 1 .. Width(cv, e)
            BY <1>0, <3>1, Widths DEF Jump
        <3>3. Testing(in)
            BY <3>1, <3>2, ProgramKinds
        <3>4. f2 = Looping(s.x[rdx])
            BY <2>2, <3>3 DEF Moves, Testing
        <3> QED
            BY <3>1, <3>4 DEF Ready
    <2>3. CASE in.op \notin {"test_bc", "test_flag"}
        BY <2>3 DEF Moves, Typed
    <2> QED
        BY <2>1, <2>2, <2>3
<1> QED
    BY <1>1, <1>2, <1>3, <1>4 DEF Typed

(* A step behind the prologue keeps the caller's registers, the memory of  *)
(* the programs behind, and R8 and R9.                                     *)
LEMMA ShelteredMoves ==
    ASSUME NEW cv \in Abi, NEW list \in ProgramLists, NEW e \in Segment \ {0},
           NEW j \in 0 .. Width(cv, e) - 1, NEW in, in = Isn(cv, list, e, j + 1),
           NEW s, NEW f, Typed(cv, e, j, s, f), NEW rs, Sheltered(cv, e, s, rs),
           NEW s2, NEW f2, Moves(in, s, f, s2, f2)
    PROVE  /\ Sheltered(cv, e, s2, rs)
           /\ MemoryAt(e, s2.stack) = MemoryAt(e, s.stack)
<1>0. /\ N \in Nat \ {0} /\ MemSize \in Nat /\ MemSize = 8 * N /\ e \in 1 .. 2 * N + 1
      /\ Saves(cv) \in {6, 8} /\ Deep(cv) = MemSize + Saves(cv)
    BY NIsNat, Widths DEF MemSize, N, Segment, Deep
<1>1. Top(e) \in Nat /\ Top(e) <= MemSize
    <2>1. CASE e <= N
        <3>1. e \in 1 .. N
            BY <1>0, <2>1
        <3> QED
            BY <1>0, <3>1, TopFacts
    <2>2. CASE ~(e <= N)
        BY <1>0, <2>2 DEF Top
    <2> QED
        BY <2>1, <2>2
<1>2. \A a \in 0 .. Deep(cv) - 1 : a >= Top(e) => s2.stack[a] = s.stack[a]
    <2>1. CASE in.op = "push"
        <3>1. s2 = Effect(in, s)
            BY <2>1, MoveKeeps
        <3> QED
            BY <3>1, PushesBelow DEF Typed
    <2>2. CASE in.op # "push"
        BY <2>2, MoveKeeps
    <2> QED
        BY <2>1, <2>2
<1>3. \A i \in 1 .. Saves(cv) : s2.stack[Deep(cv) - i] = Caller[SavedRegs(cv)[i]]
    <2> SUFFICES ASSUME NEW i \in 1 .. Saves(cv)
                 PROVE  s2.stack[Deep(cv) - i] = Caller[SavedRegs(cv)[i]]
        OBVIOUS
    <2>1. Deep(cv) - i \in 0 .. Deep(cv) - 1 /\ Deep(cv) - i >= Top(e)
        BY <1>0, <1>1
    <2> QED
        BY <1>2, <2>1 DEF Sheltered
<1>4. \A a \in 0 .. MemSize - 1 : a >= Top(e) => s2.stack[a] \in Word /\ s2.stack[a] = s.stack[a]
    BY <1>0, <1>2 DEF Sheltered
<1>5. s2.io[8] = rs[8] /\ s2.io[9] = rs[9]
    <2>1. CASE in.op # "store"
        BY <2>1, MoveKeeps DEF Sheltered
    <2>2. CASE in.op = "store"
        <3>1. j \in 1 .. 8 /\ in = StoreTo(R(j - 1), j - 1)
            BY <2>2, WhoWrites
        <3>2. s2.io = [s.io EXCEPT ![j - 1] = s.x[R(j - 1)]] /\ j - 1 # 8 /\ j - 1 # 9
            BY <2>2, <3>1 DEF Moves, Effect, StoreTo
        <3> QED
            BY <3>2 DEF Sheltered
    <2> QED
        BY <2>1, <2>2
<1>6. MemoryAt(e, s2.stack) = MemoryAt(e, s.stack)
    <2>1. PICK g, h : g = s2.stack /\ h = s.stack
        OBVIOUS
    <2>2. ASSUME NEW a \in 0 .. MemSize - 1, ~(e <= N /\ a < MemSize - 8 * Done(e))
          PROVE  g[a] = h[a]
        <3>1. a >= Top(e)
            <4>1. CASE e <= N
                <5>1. ~(a < MemSize - 8 * Done(e)) /\ Done(e) = e - 1 /\ Top(e) = MemSize - 8 * (e - 1)
                    BY <1>0, <2>2, <4>1 DEF Done, Top
                <5> QED
                    BY <1>0, <5>1
            <4>2. CASE ~(e <= N)
                BY <4>2 DEF Top
            <4> QED
                BY <4>1, <4>2
        <3> QED
            BY <1>4, <2>1, <3>1
    <2>3. MemoryAt(e, g) = MemoryAt(e, h)
        BY <2>2 DEF MemoryAt
    <2> QED
        BY <2>1, <2>3
<1> QED
    BY <1>3, <1>4, <1>5, <1>6 DEF Sheltered

(* The saved registers are eight or six different ones, and not rcx or rsp.*)
LEMMA SavedDiffer ==
    ASSUME NEW cv \in Abi
    PROVE  /\ \A k \in 1 .. Saves(cv) : SavedRegs(cv)[k] \in 0 .. 15 \ {rcx, rsp}
           /\ \A i, k \in 1 .. Saves(cv) : i # k => SavedRegs(cv)[i] # SavedRegs(cv)[k]
<1>1. SavedIs(cv)
    BY SavedRegsAre
<1>2. Saves(cv) = IF cv = "win" THEN 8 ELSE 6
    BY DEF Saves
<1>3. CASE cv = "win"
    BY <1>1, <1>2, <1>3 DEF SavedIs, rbx, rbp, rsi, rdi, rcx, rsp
<1>4. CASE cv # "win"
    BY <1>1, <1>2, <1>4 DEF SavedIs, rbx, rbp, rcx, rsp
<1> QED
    BY <1>3, <1>4

(* Every instruction of the prologue but the last.                         *)
LEMMA EnteringMoves ==
    ASSUME NEW cv \in Abi, NEW list \in ProgramLists,
           NEW j \in 0 .. Width(cv, 0) - 2, NEW in, in = Isn(cv, list, 0, j + 1),
           NEW s, NEW f, Typed(cv, 0, j, s, f), NEW rs, NEW left, Entering(cv, j, s, rs, left),
           NEW s2, NEW f2, Moves(in, s, f, s2, f2)
    PROVE  Entering(cv, j + 1, s2, rs, left)
<1> DEFINE d == Saves(cv)
           c == First(cv)
           saved == SavedRegs(cv)
<1>0. d \in {6, 8} /\ c \in {0, 1} /\ j \in Nat /\ j <= c + d + 10 /\ 0 \in Segment
      /\ MemSize \in Nat /\ Deep(cv) = MemSize + d
    <2>1. 0 \in Segment
        BY NIsNat DEF Segment
    <2>2. d \in {6, 8} /\ c \in {0, 1} /\ Width(cv, 0) = c + d + 12
        BY <2>1, Widths
    <2> QED
        BY <2>1, <2>2, NIsNat DEF MemSize, N, Deep
<1>1. left = BranchLimit /\ s.io = rs /\ DOMAIN s.x = 0 .. 15 /\ DOMAIN s.stack = 0 .. Deep(cv) - 1
      /\ s.x[rsp] = 8 * Sp(cv, 0, j)
    BY DEF Entering, Typed
<1>2. j <= c + d => \A k \in 1 .. d : s.x[saved[k]] = Caller[saved[k]]
    BY DEF Entering
<1>3. \A k \in 1 .. d : c + k <= j => s.stack[Deep(cv) - k] = Caller[saved[k]]
    BY DEF Entering
<1>4. \A k \in 1 .. 10 : c + d + k <= j => s.x[HomeOf(k - 1)] = rs[k - 1]
    BY DEF Entering
<1>5. /\ \A k \in 1 .. d : saved[k] \in 0 .. 15 \ {rcx, rsp}
      /\ \A i, k \in 1 .. d : i # k => saved[i] # saved[k]
    BY SavedDiffer
<1>6. s2.io = s.io /\ (in.op # "push" => s2.stack = s.stack)
    <2>1. j \in 0 .. Width(cv, 0) - 1
        BY <1>0, Widths
    <2>2. in.op # "store"
        BY <1>0, <2>1, NIsNat, WhoWrites
    <2> QED
        BY <2>2, MoveKeeps
<1> HIDE DEF d, c, saved
<1>7. SUFFICES
        /\ j + 1 <= c + d => \A k \in 1 .. d : s2.x[saved[k]] = Caller[saved[k]]
        /\ \A k \in 1 .. d : c + k <= j + 1 => s2.stack[Deep(cv) - k] = Caller[saved[k]]
        /\ \A k \in 1 .. 10 : c + d + k <= j + 1 => s2.x[HomeOf(k - 1)] = rs[k - 1]
        /\ j + 1 = c + d + 11 => s2.x[rbx] = 0
    BY <1>1, <1>6 DEF Entering, d, c, saved
<1>8. CASE j < c
    <2>1. c = 1 /\ j = 0
        BY <1>0, <1>8
    <2>2. in = MovReg(rcx, rdi)
        BY <2>1, PrologueIsns DEF c
    <2>3. in.op = "mov" /\ in.to = rcx
        BY <2>2 DEF MovReg
    <2>4. s2 = Put(s, rcx, s.x[in.from])
        BY <2>3, MoveKeeps, Writes
    <2>5. \A k \in 1 .. d : s2.x[saved[k]] = s.x[saved[k]]
        BY <1>1, <1>5, <2>4 DEF Put
    <2> QED
        BY <1>0, <1>2, <2>1, <2>5
<1>9. CASE j >= c /\ j < c + d
    <2>1. PICK m : m = j + 1 - c
        OBVIOUS
    <2>2. m \in 1 .. d /\ c + m = j + 1
        BY <1>0, <1>9, <2>1
    <2>3. in = Push(saved[m])
        BY <2>2, PrologueIsns DEF c, d, saved
    <2>4. in.op = "push" /\ in.from = saved[m]
        BY <2>3 DEF Push
    <2>5. Sp(cv, 0, j) = Deep(cv) - (j - c)
        BY <1>0, <1>9 DEF Sp, c, d
    <2>6. s.x[rsp] \div 8 - 1 = Deep(cv) - m
        BY <1>0, <1>1, <2>1, <2>5
    <2>7. s2.x = [s.x EXCEPT ![rsp] = @ - 8] /\ s2.stack = [s.stack EXCEPT ![Deep(cv) - m] = s.x[saved[m]]]
        BY <2>4, <2>6, MoveKeeps DEF Effect
    <2>8. \A k \in 1 .. d : s2.x[saved[k]] = Caller[saved[k]]
        BY <1>0, <1>1, <1>2, <1>5, <1>9, <2>7
    <2>9. ASSUME NEW k \in 1 .. d, c + k <= j + 1 PROVE s2.stack[Deep(cv) - k] = Caller[saved[k]]
        <3>1. Deep(cv) - k \in 0 .. Deep(cv) - 1
            BY <1>0
        <3>2. CASE k = m
            <4>1. s.x[saved[m]] = Caller[saved[m]]
                BY <1>0, <1>2, <1>9, <2>2
            <4> QED
                BY <1>1, <2>7, <3>1, <3>2, <4>1
        <3>3. CASE k # m
            <4>1. c + k <= j /\ Deep(cv) - k # Deep(cv) - m
                BY <1>0, <2>2, <2>9, <3>3
            <4> QED
                BY <1>1, <1>3, <2>7, <3>1, <4>1
        <3> QED
            BY <3>2, <3>3
    <2> QED
        BY <1>0, <1>9, <2>8, <2>9
<1>10. CASE j >= c + d /\ j < c + d + 10
    <2>1. PICK m : m = j + 1 - c - d
        OBVIOUS
    <2>2. m \in 1 .. 10 /\ c + d + m = j + 1
        BY <1>0, <1>10, <2>1
    <2>3. in = Load(HomeOf(m - 1), m - 1)
        BY <2>2, PrologueIsns DEF c, d
    <2>4. s2 = Put(s, HomeOf(m - 1), s.io[m - 1]) /\ in.op # "push"
        <3>1. in.op = "load"
            BY <2>3 DEF Load
        <3> QED
            BY <2>3, <3>1, MoveKeeps, LoadEffect
    <2>5. ASSUME NEW k \in 1 .. 10, c + d + k <= j + 1 PROVE s2.x[HomeOf(k - 1)] = rs[k - 1]
        <3>1. HomeOf(k - 1) \in 0 .. 15 /\ (HomeOf(k - 1) = HomeOf(m - 1) <=> k = m)
            BY <2>2 DEF HomeOf, R
        <3>2. CASE k = m
            BY <1>1, <2>4, <3>1, <3>2 DEF Put
        <3>3. CASE k # m
            <4>1. c + d + k <= j
                BY <1>0, <2>2, <2>5, <3>3
            <4> QED
                BY <1>1, <1>4, <2>4, <3>1, <3>3, <4>1 DEF Put
        <3> QED
            BY <3>2, <3>3
    <2>6. \A k \in 1 .. d : s2.stack[Deep(cv) - k] = Caller[saved[k]]
        BY <1>0, <1>3, <1>6, <1>10, <2>4
    <2> QED
        BY <1>0, <1>10, <2>5, <2>6
<1>11. CASE j = c + d + 10
    <2>1. in = ClearBc
        <3>1. j + 1 = c + d + 11
            BY <1>0, <1>11
        <3> QED
            BY <3>1, PrologueIsns DEF c, d
    <2>2. in.op = "clear" /\ in.to = rbx
        BY <2>1 DEF ClearBc
    <2>3. s2 = Put(s, rbx, 0)
        BY <2>2, MoveKeeps, Writes
    <2>4. rbx = 3 /\ 3 \in 0 .. 15
        BY DEF rbx
    <2>5. s2.x[rbx] = 0
        BY <1>1, <2>3, <2>4 DEF Put
    <2>6. \A k \in 1 .. 10 : s2.x[HomeOf(k - 1)] = rs[k - 1]
        <3> SUFFICES ASSUME NEW k \in 1 .. 10 PROVE s2.x[HomeOf(k - 1)] = rs[k - 1]
            OBVIOUS
        <3>1. HomeOf(k - 1) \in 0 .. 15 /\ HomeOf(k - 1) # 3 /\ c + d + k <= j
            BY <1>0, <1>11 DEF HomeOf, R
        <3> QED
            BY <1>1, <1>4, <2>3, <2>4, <3>1 DEF Put
    <2>7. \A k \in 1 .. d : s2.stack[Deep(cv) - k] = Caller[saved[k]]
        BY <1>0, <1>3, <1>6, <1>11, <2>2
    <2> QED
        BY <1>0, <1>11, <2>5, <2>6, <2>7
<1> QED
    BY <1>0, <1>8, <1>9, <1>10, <1>11

(* The last one opens the first program.                                   *)
LEMMA EnteringEnds ==
    ASSUME NEW cv \in Abi, NEW list \in ProgramLists,
           NEW j, j = Width(cv, 0) - 1, NEW in, in = Isn(cv, list, 0, j + 1),
           NEW s, NEW f, Typed(cv, 0, j, s, f), NEW rs \in Registers, NEW left,
           Entering(cv, j, s, rs, left), NEW s2, NEW f2, Moves(in, s, f, s2, f2)
    PROVE  Opening(s2, rs, left) /\ Sheltered(cv, 1, s2, rs)
<1> DEFINE d == Saves(cv)
           c == First(cv)
<1>0. d \in {6, 8} /\ c \in {0, 1} /\ j = c + d + 11 /\ j + 1 = c + d + 12
    <2>1. 0 \in Segment
        BY NIsNat DEF Segment
    <2>2. d \in {6, 8} /\ c \in {0, 1} /\ Width(cv, 0) = c + d + 12
        BY <2>1, Widths
    <2> QED
        BY <2>1, <2>2
<1>1. left = BranchLimit /\ s.io = rs /\ DOMAIN s.x = 0 .. 15 /\ BranchLimit \in Nat
    BY SizesAssumption DEF Entering, Typed
<1>2. \A k \in 1 .. d : s.stack[Deep(cv) - k] = Caller[SavedRegs(cv)[k]]
    BY <1>0 DEF Entering
<1>3. \A k \in 1 .. 10 : s.x[HomeOf(k - 1)] = rs[k - 1]
    BY <1>0 DEF Entering
<1>4. s.x[rbx] = 0
    BY <1>0 DEF Entering
<1>5. in = NextBc
    BY <1>0, PrologueIsns
<1>6. in.op = "lea" /\ in.to = rbp /\ in.from = rbx
    BY <1>5 DEF NextBc
<1>7. s2 = Put(s, rbp, s.x[rbx] + 1)
    BY <1>6, MoveKeeps, Writes
<1>8. rbp = 5 /\ rbx = 3 /\ 3 \in 0 .. 15 /\ 5 \in 0 .. 15
    BY DEF rbp, rbx
<1>9. s2.x[rbp] = 1 /\ s2.x[rbx] = 0
    BY <1>1, <1>4, <1>7, <1>8 DEF Put
<1>10. Holds(s2.x, rs)
    <2>1. ASSUME NEW q \in Reg PROVE s2.x[HomeOf(q)] = rs[q]
        <3>1. PICK k : k = q + 1
            OBVIOUS
        <3>2. k \in 1 .. 10 /\ k - 1 = q
            BY <3>1 DEF Reg
        <3>3. HomeOf(q) \in 0 .. 15 /\ HomeOf(q) # 5
            BY DEF HomeOf, R, Reg
        <3> QED
            BY <1>1, <1>3, <1>7, <1>8, <3>2, <3>3 DEF Put
    <2> QED
        BY <2>1 DEF Holds
<1>11. Opening(s2, rs, left)
    BY <1>1, <1>9, <1>10 DEF Opening
<1>12. s2.stack = s.stack /\ s2.io = s.io
    BY <1>6, MoveKeeps
<1>13. ASSUME NEW a \in 0 .. MemSize - 1 PROVE ~(a >= Top(1))
    <2>1. Top(1) = MemSize /\ MemSize \in Nat
        <3>1. 1 \in 1 .. N
            BY NIsNat
        <3> QED
            BY <3>1, TopFacts
    <2> QED
        BY <2>1
<1>14. Sheltered(cv, 1, s2, rs)
    BY <1>1, <1>2, <1>12, <1>13 DEF Sheltered
<1> QED
    BY <1>11, <1>14

(* Every instruction of the epilogue.                                      *)
LEMMA LeavingMoves ==
    ASSUME NEW cv \in Abi, NEW list \in ProgramLists, NEW e, e = 2 * N + 1,
           NEW j \in 0 .. Width(cv, e) - 1, NEW in, in = Isn(cv, list, e, j + 1),
           NEW s, NEW f, Typed(cv, e, j, s, f), NEW rs \in Registers, Sheltered(cv, e, s, rs),
           Leaving(cv, j, s, rs), NEW s2, NEW f2, Moves(in, s, f, s2, f2)
    PROVE  Ready(e, j, s) /\ Leaving(cv, j + 1, s2, rs)
<1> DEFINE d == Saves(cv)
           saved == SavedRegs(cv)
<1>0. d \in {6, 8} /\ j \in 0 .. d + 9 /\ e \in Segment /\ MemSize \in Nat /\ Deep(cv) = MemSize + d
      /\ N \in Nat \ {0} /\ Width(cv, e) = d + 10
    <2>1. e \in Segment /\ N \in Nat \ {0}
        BY NIsNat DEF Segment
    <2>2. d \in {6, 8} /\ Width(cv, e) = d + 10
        BY <2>1, Widths
    <2> QED
        BY <2>1, <2>2 DEF MemSize, N, Deep
<1>1. DOMAIN s.x = 0 .. 15 /\ DOMAIN s.stack = 0 .. Deep(cv) - 1 /\ s.io \in Registers
      /\ s.x[rsp] = 8 * Sp(cv, e, j) /\ \A k \in 0 .. 7 : rs[k] \in Word
    BY DEF Typed, Registers, Reg
<1>2. j <= 9 => \A k \in 0 .. 7 : s.x[R(k)] = rs[k]
    BY DEF Leaving
<1>3. \A k \in 1 .. 8 : 1 + k <= j => s.io[k - 1] = rs[k - 1]
    BY DEF Leaving
<1>4. \A k \in 1 .. d : 9 + k <= j => s.x[saved[d + 1 - k]] = Caller[saved[d + 1 - k]]
    BY DEF Leaving
<1>5. /\ \A k \in 1 .. d : saved[k] \in 0 .. 15 \ {rcx, rsp}
      /\ \A i, k \in 1 .. d : i # k => saved[i] # saved[k]
    BY SavedDiffer
<1>6. \A i \in 1 .. d : s.stack[Deep(cv) - i] = Caller[saved[i]]
    BY DEF Sheltered
<1>7. \A k \in 0 .. 7 : R(k) \in 8 .. 15 /\ R(k) \in 0 .. 15 /\ R(k) # 4
    BY DEF R
<1>8. rsp = 4 /\ 4 \in 0 .. 15
    BY DEF rsp
<1>9. /\ j \in 1 .. 8 => in = StoreTo(R(j - 1), j - 1)
      /\ j = 0 => in = Unwind
      /\ j = d + 9 => in = Ret
    <2>1. 1 + j = j + 1 /\ (j = d + 9 => j + 1 = 10 + d)
        BY <1>0
    <2> QED
        BY <2>1, EpilogueIsns
<1>10. in.op # "store" => s2.io = s.io
    BY MoveKeeps
<1>11. Ready(e, j, s)
    <2>1. ASSUME j \in 1 .. 8 PROVE s.x[R(j - 1)] \in Word
        <3>1. j - 1 \in 0 .. 7 /\ j <= 9
            BY <2>1
        <3> QED
            BY <1>1, <1>2, <3>1
    <2>2. ~(e \in 1 .. 2 * N)
        BY <1>0
    <2> QED
        BY <2>1, <2>2 DEF Ready
<1> HIDE DEF d, saved
<1>12. SUFFICES
        /\ j + 1 <= 9 => \A k \in 0 .. 7 : s2.x[R(k)] = rs[k]
        /\ \A k \in 1 .. 8 : 1 + k <= j + 1 => s2.io[k - 1] = rs[k - 1]
        /\ \A k \in 1 .. d : 9 + k <= j + 1 => s2.x[saved[d + 1 - k]] = Caller[saved[d + 1 - k]]
    BY <1>11 DEF Leaving, d, saved
<1>13. CASE j = 0
    <2>1. in.op = "unwind"
        BY <1>9, <1>13 DEF Unwind
    <2>2. s2.x = [s.x EXCEPT ![rsp] = @ + 8 * MemSize]
        BY <2>1, MoveKeeps DEF Effect
    <2>3. \A k \in 0 .. 7 : s2.x[R(k)] = rs[k]
        BY <1>1, <1>2, <1>7, <1>8, <1>13, <2>2
    <2> QED
        BY <1>0, <1>13, <2>3
<1>14. CASE j \in 1 .. 8
    <2>1. in.op = "store" /\ in.cell = j - 1 /\ in.from = R(j - 1)
        BY <1>9, <1>14 DEF StoreTo
    <2>2. s2.x = s.x /\ s2.io = [s.io EXCEPT ![j - 1] = s.x[R(j - 1)]]
        BY <2>1, MoveKeeps DEF Effect
    <2>3. s.x[R(j - 1)] = rs[j - 1] /\ DOMAIN s.io = Reg
        <3>1. j - 1 \in 0 .. 7 /\ j <= 9
            BY <1>14
        <3>2. s.x[R(j - 1)] = rs[j - 1]
            BY <1>2, <3>1
        <3> QED
            BY <1>1, <3>2 DEF Registers
    <2>4. ASSUME NEW k \in 1 .. 8, 1 + k <= j + 1 PROVE s2.io[k - 1] = rs[k - 1]
        <3>1. k - 1 \in Reg
            BY DEF Reg
        <3>2. CASE k = j
            BY <2>2, <2>3, <3>1, <3>2
        <3>3. CASE k # j
            <4>1. 1 + k <= j /\ k - 1 # j - 1
                BY <1>14, <2>4, <3>3
            <4> QED
                BY <1>3, <2>2, <2>3, <3>1, <4>1
        <3> QED
            BY <3>2, <3>3
    <2> QED
        BY <1>0, <1>2, <1>14, <2>2, <2>4
<1>15. CASE j >= 9 /\ j < 9 + d
    <2>1. PICK m, q : m = j - 8 /\ q = d + 1 - m
        OBVIOUS
    <2>2. m \in 1 .. d /\ q \in 1 .. d /\ 9 + m = j + 1
        BY <1>0, <1>15, <2>1
    <2>3. in = Pop(saved[q])
        BY <2>1, <2>2, EpilogueIsns DEF d, saved
    <2>4. in.op = "pop" /\ in.to = saved[q]
        BY <2>3 DEF Pop
    <2>5. s2.x = [s.x EXCEPT ![saved[q]] = s.stack[s.x[rsp] \div 8], ![rsp] = @ + 8]
        BY <2>4, MoveKeeps DEF Effect
    <2>6. Sp(cv, e, j) = MemSize + (j - 9)
        <3>1. e # 0 /\ ~(e <= N) /\ ~(e <= 2 * N)
            BY <1>0
        <3> QED
            BY <1>0, <1>15, <3>1 DEF Sp, d
    <2>7. s.x[rsp] \div 8 = Deep(cv) - q
        <3>1. PICK c : c = Sp(cv, e, j)
            OBVIOUS
        <3>2. c \in Nat /\ c = Deep(cv) - q
            BY <1>0, <1>15, <2>1, <2>6, <3>1
        <3>3. s.x[rsp] = 8 * c
            BY <1>1, <3>1
        <3>4. (8 * c) \div 8 = c
            BY <3>2
        <3> QED
            BY <3>2, <3>3, <3>4
    <2>8. s.stack[s.x[rsp] \div 8] = Caller[saved[q]]
        BY <1>6, <2>2, <2>7
    <2>9. ASSUME NEW k \in 1 .. d, 9 + k <= j + 1
          PROVE  s2.x[saved[d + 1 - k]] = Caller[saved[d + 1 - k]]
        <3>1. PICK u : u = d + 1 - k
            OBVIOUS
        <3>2. u \in 1 .. d
            BY <1>0, <3>1
        <3>3. CASE k = m
            BY <1>1, <1>5, <1>8, <2>1, <2>2, <2>5, <2>8, <3>1, <3>3
        <3>4. CASE k # m
            <4>1. 9 + k <= j /\ u # q
                BY <1>0, <2>1, <2>2, <2>9, <3>1, <3>4
            <4>2. s.x[saved[u]] = Caller[saved[u]] /\ saved[u] # saved[q] /\ saved[u] # 4
                BY <1>4, <1>5, <1>8, <2>2, <3>1, <3>2, <4>1
            <4> QED
                BY <1>1, <1>5, <1>8, <2>5, <3>1, <3>2, <4>2
        <3> QED
            BY <3>3, <3>4
    <2>10. s2.io = s.io
        BY <1>10, <2>4
    <2>11. \A k \in 1 .. 8 : s2.io[k - 1] = rs[k - 1]
        BY <1>0, <1>3, <1>15, <2>10
    <2> QED
        BY <1>0, <1>15, <2>9, <2>11
<1>16. CASE j = d + 9
    <2>1. in.op = "ret"
        BY <1>9, <1>16 DEF Ret
    <2>2. s2 = s
        BY <2>1, MoveKeeps DEF Effect
    <2>3. \A k \in 1 .. d : s.x[saved[d + 1 - k]] = Caller[saved[d + 1 - k]]
        BY <1>0, <1>4, <1>16
    <2>4. \A k \in 1 .. 8 : s.io[k - 1] = rs[k - 1]
        BY <1>0, <1>3, <1>16
    <2> QED
        BY <1>0, <1>16, <2>2, <2>3, <2>4
<1> QED
    BY <1>0, <1>13, <1>14, <1>15, <1>16

(* The programs leave the epilogue the registers in r8-r15.                *)
LEMMA LeavingBegins ==
    ASSUME NEW cv \in Abi, NEW s, NEW rs, Holds(s.x, rs)
    PROVE  Leaving(cv, 0, s, rs)
<1>1. Saves(cv) \in {6, 8}
    BY DEF Saves
<1>2. \A k \in 0 .. 7 : s.x[R(k)] = rs[k]
    BY Homes DEF Holds
<1>3. /\ \A k \in 1 .. 8 : ~(1 + k <= 0)
      /\ \A k \in 1 .. Saves(cv) : ~(9 + k <= 0)
    BY <1>1
<1> QED
    BY <1>2, <1>3 DEF Leaving

(* The first instruction of a program: no loop was taken.                  *)
LEMMA OpeningMoves ==
    ASSUME NEW cv \in Abi, NEW list \in ProgramLists, NEW e \in 1 .. 2 * N,
           NEW in, in = Isn(cv, list, e, 1), NEW s, NEW f, NEW rs, NEW left, Opening(s, rs, left),
           NEW s2, NEW f2, Moves(in, s, f, s2, f2)
    PROVE  Behind(s2, f2, rs, left)
<1>1. Target(in)
    <2>1. 1 \in 1 .. Width(cv, e) /\ e \in Segment
        BY NIsNat, Widths DEF Segment
    <2> QED
        BY <2>1, ProgramKinds
<1>2. in.op = "test_bc" /\ in.from = rbp
    BY <1>1 DEF Target
<1>3. s2 = s
    BY <1>2, MoveKeeps DEF Effect
<1>4. f2 = FALSE
    BY <1>2 DEF Moves, Opening
<1> QED
    BY <1>3, <1>4 DEF Opening, Behind

(* The second one takes the loops used from ebp, or leaves them.           *)
LEMMA BehindMoves ==
    ASSUME NEW cv \in Abi, NEW list \in ProgramLists, NEW e \in 1 .. 2 * N,
           NEW in, in = Isn(cv, list, e, 2), NEW s, DOMAIN s.x = 0 .. 15, NEW f,
           NEW rs, NEW left, Behind(s, f, rs, left),
           NEW s2, NEW f2, Moves(in, s, f, s2, f2), Typed(cv, e, 2, s2, f2)
    PROVE  \E T : Led(cv, list, e, 2, T, s2, f2, rs, left)
<1>0. N \in Nat \ {0} /\ e \in Segment /\ Jump(e) \in {20, 32}
    BY NIsNat DEF Segment, Jump
<1>1. Taking(in)
    <2>1. 2 \in 1 .. Width(cv, e) /\ 2 # 1
        BY <1>0, Widths
    <2> QED
        BY <2>1, ProgramKinds
<1>2. in.op = "cmovz" /\ in.to = rbx /\ in.from = rbp /\ rbx = 3 /\ 3 \in 0 .. 15
    BY <1>1 DEF Taking, rbx
<1>3. \/ f = TRUE /\ s2 = Put(s, rbx, s.x[rbp])
      \/ f = FALSE /\ s2 = s
    BY <1>2 DEF Moves
<1>4. Holds(s2.x, rs) /\ s2.x[rbx] = BranchLimit - left
    <2>1. CASE f = TRUE /\ s2 = Put(s, rbx, s.x[rbp])
        <3>1. s.x[rbp] = BranchLimit - left /\ Holds(s.x, rs)
            BY <2>1 DEF Behind
        <3>2. s2.x[rbx] = BranchLimit - left
            BY <1>2, <2>1, <3>1 DEF Put
        <3>3. ASSUME NEW q \in Reg PROVE s2.x[HomeOf(q)] = rs[q]
            <4>1. HomeOf(q) \in 6 .. 15 /\ HomeOf(q) # 3
                BY Homes
            <4> QED
                BY <1>2, <2>1, <3>1, <4>1 DEF Put, Holds
        <3> QED
            BY <3>2, <3>3 DEF Holds
    <2>2. CASE f = FALSE /\ s2 = s
        BY <2>2 DEF Behind
    <2> QED
        BY <1>3, <2>1, <2>2
<1>5. DOMAIN s2.x = 0 .. 15 /\ s2.x[rsp] = 8 * Top(e)
    <2>1. Sp(cv, e, 2) = Top(e)
        BY <1>0 DEF Sp, Top
    <2> QED
        BY <2>1 DEF Typed
<1> DEFINE T == [i \in {2} |-> s2]
<1>6. T[2] = s2
    OBVIOUS
<1> HIDE DEF T
<1>7. Trace(cv, list, e, 2, 2, T)
    BY DEF Trace
<1>8. 2 # Jump(e) /\ ~(2 > Jump(e))
    BY <1>0
<1> QED
    BY <1>4, <1>5, <1>6, <1>7, <1>8 DEF Led

(* One more instruction.                                                   *)
LEMMA TraceGrows ==
    ASSUME NEW cv, NEW list, NEW e, NEW j \in Nat, j >= 2, NEW T, Trace(cv, list, e, 2, j, T)
    PROVE  \E U : /\ Trace(cv, list, e, 2, j + 1, U)
                  /\ U[j + 1] = Effect(Isn(cv, list, e, j + 1), T[j])
                  /\ \A i \in 2 .. j : U[i] = T[i]
<1> DEFINE U == [i \in 2 .. j + 1 |-> IF i = j + 1 THEN Effect(Isn(cv, list, e, j + 1), T[j]) ELSE T[i]]
<1>1. U[j + 1] = Effect(Isn(cv, list, e, j + 1), T[j]) /\ \A i \in 2 .. j : U[i] = T[i]
    OBVIOUS
<1> HIDE DEF U
<1>2. Trace(cv, list, e, 2, j + 1, U)
    <2>1. ASSUME NEW i \in 2 .. j PROVE U[i + 1] = Effect(Isn(cv, list, e, i + 1), U[i])
        <3>1. CASE i = j
            BY <1>1, <3>1
        <3>2. CASE i # j
            <4>1. i \in 2 .. j - 1 /\ i + 1 \in 2 .. j
                BY <3>2
            <4> QED
                BY <1>1, <4>1 DEF Trace
        <3> QED
            BY <3>1, <3>2
    <2>2. (j + 1) - 1 = j
        OBVIOUS
    <2> QED
        BY <2>1, <2>2 DEF Trace
<1> QED
    BY <1>1, <1>2

(* The instructions of a program after the second.                         *)
LEMMA LedMoves ==
    ASSUME NEW cv \in Abi, NEW list \in ProgramLists, NEW e \in 1 .. 2 * N,
           NEW j \in 2 .. Width(cv, e) - 1, NEW in, in = Isn(cv, list, e, j + 1),
           NEW s, NEW f, NEW rs, NEW left, NEW T, Led(cv, list, e, j, T, s, f, rs, left),
           NEW s2, NEW f2, Moves(in, s, f, s2, f2)
    PROVE  \E U : Led(cv, list, e, j + 1, U, s2, f2, rs, left)
<1>0. N \in Nat \ {0} /\ e \in Segment /\ Jump(e) \in {20, 32} /\ j \in Nat /\ j >= 2
      /\ j \in 0 .. Width(cv, e) - 1
    BY NIsNat DEF Segment, Jump
<1>1. s2 = Effect(in, s)
    <2>1. in.op # "cmovz"
        BY <1>0, WhoWrites
    <2>2. CASE in.op = "jz"
        BY <2>2 DEF Moves, Effect
    <2>3. CASE in.op # "jz"
        BY <2>1, <2>3, MoveKeeps
    <2> QED
        BY <2>2, <2>3
<1>2. /\ Trace(cv, list, e, 2, j, T) /\ T[j] = s
      /\ DOMAIN T[2].x = 0 .. 15 /\ T[2].x[rsp] = 8 * Top(e)
      /\ Holds(T[2].x, rs) /\ T[2].x[rbx] = BranchLimit - left
      /\ e > N => T[2].stack = s.stack
      /\ j = Jump(e) => f = Looping(s.x[rdx])
      /\ j > Jump(e) => ~Looping(T[Jump(e)].x[rdx])
    BY DEF Led
<1>3. PICK U : /\ Trace(cv, list, e, 2, j + 1, U)
               /\ U[j + 1] = Effect(Isn(cv, list, e, j + 1), T[j])
               /\ \A i \in 2 .. j : U[i] = T[i]
    BY <1>0, <1>2, TraceGrows
<1>4. U[2] = T[2] /\ U[j + 1] = s2
    BY <1>0, <1>1, <1>2, <1>3
<1>5. e > N => U[2].stack = s2.stack
    <2> SUFFICES ASSUME e > N PROVE U[2].stack = s2.stack
        OBVIOUS
    <2>1. in.op # "push"
        BY <1>0, WhoWrites
    <2> QED
        BY <1>2, <1>4, <2>1, MoveKeeps
<1>6. j + 1 = Jump(e) => f2 = Looping(s2.x[rdx])
    <2> SUFFICES ASSUME j + 1 = Jump(e) PROVE f2 = Looping(s2.x[rdx])
        OBVIOUS
    <2>1. j + 1 \in 1 .. Width(cv, e)
        BY <1>0, Widths
    <2>2. Testing(in)
        BY <2>1, ProgramKinds
    <2>3. in.op = "test_flag" /\ in.from = rdx
        BY <2>2 DEF Testing
    <2>4. s2 = s
        BY <1>1, <2>3 DEF Effect
    <2> QED
        BY <2>3, <2>4 DEF Moves
<1>7. j + 1 > Jump(e) => ~Looping(U[Jump(e)].x[rdx])
    <2> SUFFICES ASSUME j + 1 > Jump(e) PROVE ~Looping(U[Jump(e)].x[rdx])
        OBVIOUS
    <2>1. Jump(e) \in 2 .. j
        BY <1>0
    <2>2. U[Jump(e)] = T[Jump(e)]
        BY <1>3, <2>1
    <2>3. CASE j = Jump(e)
        <3>1. in.op = "jz"
            BY <1>0, <2>3, WhoWrites
        <3>2. f = FALSE
            BY <3>1 DEF Moves
        <3> QED
            BY <1>2, <2>2, <2>3, <3>2
    <2>4. CASE j # Jump(e)
        <3>1. j > Jump(e)
            BY <1>0, <2>1, <2>4
        <3> QED
            BY <1>2, <2>2, <3>1
    <2> QED
        BY <2>3, <2>4
<1>8. Led(cv, list, e, j + 1, U, s2, f2, rs, left)
    BY <1>2, <1>3, <1>4, <1>5, <1>6, <1>7 DEF Led
<1> QED
    BY <1>8

-----------------------------------------------------------------------------
(* What a program has done at its branch and at its end.                   *)

(* What a run has computed when it reaches the test of the branch.         *)
Branched(p, rs, ph, mm, left, s, t) ==
    /\ Holds(t.x, Looped(p, rs, ph, mm))
    /\ DOMAIN t.x = 0 .. 15 /\ t.stack = s.stack /\ t.x[rsp] = s.x[rsp]
    /\ t.x[rbx] = BranchLimit - left /\ t.x[rbp] = BranchLimit - left + 1
    /\ Looping(t.x[rdx]) = Asked(p, rs, ph, mm, left)

(* The pass of HashwxVM is typed.                                          *)
PassFits(p, rs, ph, mm) ==
    LET looped == Looped(p, rs, ph, mm)
        ended == Ended(p, rs, ph, mm)
    IN  /\ looped \in Registers /\ looped[8] = rs[8] /\ looped[9] = rs[9]
        /\ ended \in Registers /\ ended[8] = rs[8] /\ ended[9] = rs[9]
        /\ Flagged(p, rs, ph, mm) \in Word

(* A run that has come to the branch has done the pass.                    *)
LEMMA LedBranches ==
    ASSUME NEW cv \in Abi, NEW list \in ProgramLists, NEW e \in 1 .. 2 * N,
           NEW j \in Nat, j + 1 >= Jump(e), NEW s, NEW f,
           NEW rs \in Registers, NEW left \in 0 .. BranchLimit,
           NEW T, Led(cv, list, e, j, T, s, f, rs, left), Sheltered(cv, e, s, rs),
           NEW mm, mm = MemoryAt(e, s.stack),
           NEW p, p = ProgramOf(list, e), NEW ph, ph = PhaseOf(e), NEW b, b = Jump(e) - 1
    PROVE  /\ Branched(p, rs, ph, mm, left, T[2], T[b]) /\ PassFits(p, rs, ph, mm)
           /\ Reads(ph, T[2], mm)
<1>0. /\ N \in Nat \ {0} /\ e \in Segment /\ p \in Program /\ ph \in Phases
      /\ Jump(e) = Begin(ph, 7) + 3 /\ b \in Nat /\ b >= 19 /\ j >= b
      /\ ph = "mem" <=> e \in N + 1 .. 2 * N
    BY NIsNat, ProgramHere DEF Segment, Jump
<1>1. /\ Trace(cv, list, e, 2, j, T) /\ T[j] = s
      /\ DOMAIN T[2].x = 0 .. 15 /\ T[2].x[rsp] = 8 * Top(e)
      /\ Holds(T[2].x, rs) /\ T[2].x[rbx] = BranchLimit - left
      /\ e > N => T[2].stack = s.stack
    BY DEF Led
<1>2. ph = "mem" => Words(mm) /\ T[2].x[rsp] = 0 /\ \A a \in 0 .. MemSize - 1 : mm[a] = T[2].stack[a]
    <2> SUFFICES ASSUME ph = "mem"
                 PROVE  Words(mm) /\ T[2].x[rsp] = 0 /\ \A a \in 0 .. MemSize - 1 : mm[a] = T[2].stack[a]
        OBVIOUS
    <2>1. e > N /\ ~(e <= N)
        BY <1>0
    <2>2. Top(e) = 0
        BY <2>1 DEF Top
    <2>3. mm = [a \in 0 .. MemSize - 1 |-> s.stack[a]]
        BY <2>1 DEF MemoryAt
    <2>4. \A a \in 0 .. MemSize - 1 : s.stack[a] \in Word
        BY <2>2 DEF Sheltered
    <2>5. T[2].stack = s.stack /\ T[2].x[rsp] = 0
        BY <1>1, <2>1, <2>2
    <2> QED
        BY <2>3, <2>4, <2>5 DEF Words
<1>3. Reads(ph, T[2], mm)
    BY <1>2 DEF Reads
<1>4. PICK h : h = Begin(ph, 7)
    OBVIOUS
<1>5. h \in Nat /\ h + 2 = b /\ h <= j /\ h >= 2
    <2>1. Begin(ph, 7) \in {17, 29}
        BY <1>0 DEF Begin, Phases
    <2>2. b = Begin(ph, 7) + 2
        BY <1>0, <2>1
    <2> QED
        BY <1>0, <1>4, <2>1, <2>2
<1>6. /\ Came(T[2], T[h], Looped(p, rs, ph, mm), Flagged(p, rs, ph, mm))
      /\ Looped(p, rs, ph, mm) \in Registers /\ Ended(p, rs, ph, mm) \in Registers
      /\ Flagged(p, rs, ph, mm) \in Word
      /\ Looped(p, rs, ph, mm)[8] = rs[8] /\ Looped(p, rs, ph, mm)[9] = rs[9]
      /\ Ended(p, rs, ph, mm)[8] = rs[8] /\ Ended(p, rs, ph, mm)[9] = rs[9]
    BY <1>1, <1>2, <1>3, <1>4, <1>5, PassRuns
<1>7. PassFits(p, rs, ph, mm)
    BY <1>6 DEF PassFits
<1> DEFINE L == Looped(p, rs, ph, mm)
           F == Flagged(p, rs, ph, mm)
<1> HIDE DEF L, F
<1>8. /\ Holds(T[h].x, L) /\ T[h].x[rdx] = F /\ F \in Word
      /\ T[h].stack = T[2].stack /\ DOMAIN T[h].x = 0 .. 15
      /\ T[h].x[rsp] = T[2].x[rsp] /\ T[h].x[rbx] = BranchLimit - left
    BY <1>1, <1>6 DEF Came, Beside, L, F, rsp, rbx
<1>9. T[h + 1] = Effect(Branching(ph)[1], T[h]) /\ T[b] = Effect(Branching(ph)[2], T[h + 1])
    <2>1. 7 \in 0 .. 9 /\ Size(ph, 7) = 4 /\ Piece(ph, p, 7) = Branching(ph)
        BY <1>0, PieceIs DEF Size
    <2>2. Isn(cv, list, e, h + 1) = Branching(ph)[1] /\ Isn(cv, list, e, h + 2) = Branching(ph)[2]
        <3>1. \A o \in 1 .. 4 : Isn(cv, list, e, Begin(ph, 7) + o) = Piece(ph, p, 7)[o]
            BY <1>0, <2>1, ProgramIsns
        <3> QED
            BY <1>4, <2>1, <3>1
    <2>3. h \in 2 .. j - 1 /\ h + 1 \in 2 .. j - 1 /\ (h + 1) + 1 = h + 2
        BY <1>0, <1>5
    <2>4. T[h + 1] = Effect(Isn(cv, list, e, h + 1), T[h])
          /\ T[(h + 1) + 1] = Effect(Isn(cv, list, e, (h + 1) + 1), T[h + 1])
        BY <1>1, <2>3 DEF Trace
    <2> QED
        BY <1>5, <2>2, <2>3, <2>4
<1>10. /\ T[b].stack = T[h].stack /\ DOMAIN T[b].x = 0 .. 15
       /\ \A q \in 0 .. 15 : T[b].x[q] = IF q = rdx THEN Or(Low(F), BranchLimit - left)
                                         ELSE IF q = rbp THEN BranchLimit - left + 1 ELSE T[h].x[q]
    <2>1. PICK u, v, w : u = T[h] /\ v = T[h + 1] /\ w = T[b]
        OBVIOUS
    <2>2. /\ w.stack = u.stack /\ w.io = u.io /\ DOMAIN w.x = 0 .. 15
          /\ \A q \in 0 .. 15 : w.x[q] = IF q = rdx THEN Or(Low(u.x[rdx]), u.x[rbx])
                                         ELSE IF q = rbp THEN u.x[rbx] + 1 ELSE u.x[q]
        <3>1. DOMAIN u.x = 0 .. 15 /\ v = Effect(Branching(ph)[1], u) /\ w = Effect(Branching(ph)[2], v)
            BY <1>8, <1>9, <2>1
        <3>2. BranchDone(u, w)
            BY <1>0, <3>1, BranchLine
        <3> QED
            BY <3>2 DEF BranchDone
    <2> QED
        BY <1>8, <2>1, <2>2
<1>11. rdx = 2 /\ rbx = 3 /\ rsp = 4 /\ rbp = 5
    BY DEF rdx, rbx, rsp, rbp
<1>12. Holds(T[b].x, L)
    <2>1. ASSUME NEW q \in Reg PROVE T[b].x[HomeOf(q)] = L[q]
        <3>1. HomeOf(q) \in 6 .. 15
            BY Homes
        <3>2. HomeOf(q) \in 0 .. 15 /\ HomeOf(q) # 2 /\ HomeOf(q) # 5
            BY <3>1
        <3> QED
            BY <1>8, <1>10, <1>11, <3>2 DEF Holds
    <2> QED
        BY <2>1 DEF Holds
<1>13. Looping(T[b].x[rdx]) = Asked(p, rs, ph, mm, left)
    <2>1. BranchLimit \in Nat
        BY SizesAssumption
    <2>2. PICK c : c = BranchLimit - left
        OBVIOUS
    <2>3. c \in 0 .. BranchLimit /\ (c # BranchLimit <=> left # 0)
        BY <2>1, <2>2
    <2>4. Looping(Or(Low(F), c)) = (c # BranchLimit /\ Looping(F))
        BY <1>8, <2>3, CounterAssumption
    <2>5. T[b].x[rdx] = Or(Low(F), c)
        BY <1>10, <1>11, <2>2
    <2> QED
        BY <2>3, <2>4, <2>5 DEF Asked, F
<1>14. T[b].x[rbx] = BranchLimit - left /\ T[b].x[rbp] = BranchLimit - left + 1
       /\ T[b].x[rsp] = T[2].x[rsp]
    BY <1>8, <1>10, <1>11
<1>15. Branched(p, rs, ph, mm, left, T[2], T[b])
    BY <1>8, <1>10, <1>12, <1>13, <1>14 DEF Branched, L
<1> QED
    BY <1>3, <1>7, <1>15

(* Before the test of the branch the word it tests has the flag's bits.    *)
LEMMA LedReady ==
    ASSUME NEW cv \in Abi, NEW list \in ProgramLists, NEW e \in 1 .. 2 * N,
           NEW j, j = Jump(e) - 1, NEW s, NEW f,
           NEW rs \in Registers, NEW left \in 0 .. BranchLimit,
           NEW T, Led(cv, list, e, j, T, s, f, rs, left), Sheltered(cv, e, s, rs)
    PROVE  Looping(s.x[rdx]) \in BOOLEAN
<1>1. PICK p, ph, mm : p = ProgramOf(list, e) /\ ph = PhaseOf(e) /\ mm = MemoryAt(e, s.stack)
    OBVIOUS
<1>2. j \in Nat /\ j + 1 >= Jump(e)
    BY DEF Jump
<1>3. Branched(p, rs, ph, mm, left, T[2], T[j]) /\ PassFits(p, rs, ph, mm)
    BY <1>1, <1>2, LedBranches
<1>4. T[j] = s
    BY DEF Led
<1>5. Looping(s.x[rdx]) = Asked(p, rs, ph, mm, left)
    BY <1>3, <1>4 DEF Branched
<1> QED
    BY <1>5 DEF Asked

(* The branch and its test change nothing but the flag.                    *)
LEMMA JumpKeeps ==
    ASSUME NEW cv \in Abi, NEW list \in ProgramLists, NEW e \in 1 .. 2 * N,
           NEW j \in Nat, NEW T, Trace(cv, list, e, 2, j, T)
    PROVE  /\ j >= Jump(e) => T[Jump(e)] = T[Jump(e) - 1]
           /\ j >= Jump(e) + 1 => T[Jump(e) + 1] = T[Jump(e)]
<1>0. N \in Nat \ {0} /\ e \in Segment /\ Jump(e) \in {20, 32} /\ Jump(e) + 1 \in 1 .. Width(cv, e)
      /\ Jump(e) \in 1 .. Width(cv, e)
    <2>1. N \in Nat \ {0} /\ e \in Segment
        BY NIsNat DEF Segment
    <2> QED
        BY <2>1, Widths DEF Jump
<1>1. /\ Isn(cv, list, e, Jump(e)).op = "test_flag"
      /\ Isn(cv, list, e, Jump(e) + 1).op = "jz"
    BY <1>0, ProgramKinds DEF Testing
<1>2. \A s : /\ Effect(Isn(cv, list, e, Jump(e)), s) = s
             /\ Effect(Isn(cv, list, e, Jump(e) + 1), s) = s
    BY <1>1 DEF Effect
<1>3. ASSUME j >= Jump(e) PROVE T[Jump(e)] = T[Jump(e) - 1]
    <2>1. PICK i : i = Jump(e) - 1
        OBVIOUS
    <2>2. i \in 2 .. j - 1 /\ i + 1 = Jump(e)
        BY <1>0, <1>3, <2>1
    <2>3. T[i + 1] = Effect(Isn(cv, list, e, i + 1), T[i])
        BY <2>2 DEF Trace
    <2> QED
        BY <1>2, <2>1, <2>2, <2>3
<1>4. ASSUME j >= Jump(e) + 1 PROVE T[Jump(e) + 1] = T[Jump(e)]
    <2>1. Jump(e) \in 2 .. j - 1
        BY <1>0, <1>4
    <2>2. T[Jump(e) + 1] = Effect(Isn(cv, list, e, Jump(e) + 1), T[Jump(e)])
        BY <2>1 DEF Trace
    <2> QED
        BY <1>2, <2>2
<1> QED
    BY <1>3, <1>4

(* The branch is taken: a loop less, and the flag has the loops used taken *)
(* from ebp.                                                               *)
Taken(f) == f = TRUE
Repeated(cv, e, s, f, looped, left) ==
    /\ looped \in Registers /\ left - 1 \in 0 .. BranchLimit
    /\ Behind(s, f, looped, left - 1) /\ Sheltered(cv, e, s, looped)
    /\ s.x[rbp] = BranchLimit - (left - 1)

(* At the jump of the branch the flag of the processor is the answer       *)
(* HashwxVM gives, and the words of the counter are those of the pass      *)
(* just run.                                                               *)
LEMMA LedRepeats ==
    ASSUME NEW cv \in Abi, NEW list \in ProgramLists, NEW e \in 1 .. 2 * N,
           NEW j, j = Jump(e), NEW s, NEW f, Taken(f),
           NEW rs \in Registers, NEW left \in 0 .. BranchLimit,
           NEW T, Led(cv, list, e, j, T, s, f, rs, left), Sheltered(cv, e, s, rs),
           NEW mm, mm = MemoryAt(e, s.stack),
           NEW p, p = ProgramOf(list, e), NEW ph, ph = PhaseOf(e)
    PROVE  Asked(p, rs, ph, mm, left) /\ Repeated(cv, e, s, f, Looped(p, rs, ph, mm), left)
<1> DEFINE L == Looped(p, rs, ph, mm)
<1>1. PICK b : b = Jump(e) - 1
    OBVIOUS
<1>2. j \in Nat /\ j + 1 >= Jump(e) /\ BranchLimit \in Nat
    BY SizesAssumption DEF Jump
<1>3. Branched(p, rs, ph, mm, left, T[2], T[b]) /\ PassFits(p, rs, ph, mm)
    BY <1>1, <1>2, LedBranches
<1>4. T[j] = s /\ T[b] = s /\ Looping(s.x[rdx]) = TRUE
    <2>1. Trace(cv, list, e, 2, j, T) /\ T[j] = s /\ f = Looping(s.x[rdx])
        BY DEF Led
    <2>2. j >= Jump(e)
        BY <1>2
    <2>3. T[Jump(e)] = T[Jump(e) - 1]
        BY <1>2, <2>1, <2>2, JumpKeeps
    <2> QED
        BY <1>1, <2>1, <2>3 DEF Taken
<1>5. Asked(p, rs, ph, mm, left)
    BY <1>3, <1>4 DEF Branched
<1>6. left - 1 \in 0 .. BranchLimit
    BY <1>2, <1>5 DEF Asked
<1>7. s.x[rbp] = BranchLimit - (left - 1) /\ Holds(s.x, L)
    <2>1. s.x[rbp] = BranchLimit - left + 1 /\ Holds(s.x, L)
        BY <1>3, <1>4 DEF Branched
    <2> QED
        BY <1>2, <2>1
<1>8. L \in Registers /\ L[8] = rs[8] /\ L[9] = rs[9]
    BY <1>3 DEF PassFits
<1> HIDE DEF L
<1>9. Behind(s, f, L, left - 1)
    BY <1>7 DEF Behind, Taken
<1>10. Sheltered(cv, e, s, L)
    BY <1>8 DEF Sheltered
<1> QED
    BY <1>5, <1>6, <1>7, <1>8, <1>9, <1>10 DEF L, Repeated

(* The run of a program has come to its end.                               *)
Finished(p, rs, ph, mm, s, left) ==
    /\ Opening(s, Ended(p, rs, ph, mm), left) /\ ~Asked(p, rs, ph, mm, left)
    /\ Ended(p, rs, ph, mm) \in Registers
    /\ Ended(p, rs, ph, mm)[8] = rs[8] /\ Ended(p, rs, ph, mm)[9] = rs[9]

(* At the end of a program the registers are those of HashwxVM.            *)
LEMMA LedEnds ==
    ASSUME NEW cv \in Abi, NEW list \in ProgramLists, NEW e \in 1 .. 2 * N,
           NEW s, NEW f, NEW rs \in Registers, NEW left \in 0 .. BranchLimit,
           NEW mm, mm = MemoryAt(e, s.stack),
           NEW p, p = ProgramOf(list, e), NEW ph, ph = PhaseOf(e), NEW j, j = Begin(ph, 10),
           NEW T, Led(cv, list, e, j, T, s, f, rs, left), Sheltered(cv, e, s, rs)
    PROVE  Finished(p, rs, ph, mm, s, left)
<1> DEFINE L == Looped(p, rs, ph, mm)
           E == Ended(p, rs, ph, mm)
<1>0. /\ N \in Nat \ {0} /\ p \in Program /\ ph \in Phases /\ Jump(e) \in {20, 32}
      /\ j \in Nat /\ Begin(ph, 8) = Jump(e) + 1 /\ Begin(ph, 9) = j /\ j > Jump(e) + 1
    <2>1. p \in Program /\ ph \in Phases /\ Jump(e) = Begin(ph, 7) + 3
        BY ProgramHere
    <2> QED
        BY <2>1, NIsNat DEF Begin, Phases, Jump
<1>1. PICK b, h : b = Jump(e) - 1 /\ h = Jump(e) + 1
    OBVIOUS
<1>2. /\ Branched(p, rs, ph, mm, left, T[2], T[b]) /\ PassFits(p, rs, ph, mm)
      /\ Reads(ph, T[2], mm)
    <2>1. j + 1 >= Jump(e)
        BY <1>0
    <2> QED
        BY <1>0, <1>1, <2>1, LedBranches
<1>3. Trace(cv, list, e, 2, j, T) /\ T[j] = s /\ (j > Jump(e) => ~Looping(T[Jump(e)].x[rdx]))
    BY DEF Led
<1>4. T[h] = T[b] /\ T[Jump(e)] = T[b]
    <2>1. j >= Jump(e) /\ j >= Jump(e) + 1
        BY <1>0
    <2>2. T[Jump(e)] = T[Jump(e) - 1] /\ T[Jump(e) + 1] = T[Jump(e)]
        BY <1>0, <1>3, <2>1, JumpKeeps
    <2> QED
        BY <1>1, <2>2
<1>5. ~Asked(p, rs, ph, mm, left)
    BY <1>0, <1>2, <1>3, <1>4 DEF Branched
<1>6. /\ Holds(T[h].x, L) /\ DOMAIN T[h].x = 0 .. 15 /\ L \in Registers
      /\ T[h].x[rbx] = BranchLimit - left /\ T[h].x[rbp] = BranchLimit - left + 1
      /\ T[h].stack = T[2].stack /\ T[h].x[rsp] = T[2].x[rsp]
    BY <1>2, <1>4 DEF Branched, PassFits
<1>7. Reads(ph, T[h], mm)
    BY <1>2, <1>6 DEF Reads
<1>8. E = Do(p, 8, L, ph, mm)
    BY DEF Ended
<1> HIDE DEF L, E
<1>9. PICK k : k = 8
    OBVIOUS
<1>10. k \in Operands \ {0} /\ h = Begin(ph, k) /\ j = Begin(ph, k + 1) /\ j <= j
    BY <1>0, <1>1, <1>9 DEF Operands
<1>11. /\ Holds(T[j].x, Do(p, k, L, ph, mm)) /\ Beside(T[h], T[j])
    <2>1. PICK v, q : v = j /\ q = L
        OBVIOUS
    <2>2. v = Begin(ph, k + 1) /\ v <= j /\ k \in Operands \ {0} /\ h = Begin(ph, k) /\ j \in Nat
        BY <1>0, <1>10, <2>1
    <2>3. Trace(cv, list, e, 2, j, T)
        BY <1>3
    <2>4. Holds(T[h].x, q) /\ DOMAIN T[h].x = 0 .. 15 /\ q \in Registers
        BY <1>6, <2>1
    <2>5. Holds(T[v].x, Do(p, k, q, ph, mm)) /\ Beside(T[h], T[v])
        BY <1>7, <2>2, <2>3, <2>4, LineDone
    <2> QED
        BY <2>1, <2>5
<1>12. Opening(s, E, left)
    <2>1. s.x[rbx] = BranchLimit - left /\ s.x[rbp] = BranchLimit - left + 1
        BY <1>3, <1>6, <1>11 DEF Beside, rbx, rbp
    <2>2. BranchLimit - left + 1 # 0
        BY SizesAssumption
    <2> QED
        BY <1>3, <1>8, <1>9, <1>11, <2>1, <2>2 DEF Opening
<1> QED
    BY <1>2, <1>5, <1>12 DEF Finished, PassFits, E

(* A program of the first phase pushes R0-R7.                              *)
LEMMA ClosingMoves ==
    ASSUME NEW cv \in Abi, NEW list \in ProgramLists, NEW e \in 1 .. N,
           NEW j \in 23 .. 30, NEW in, in = Isn(cv, list, e, j + 1),
           NEW s, NEW f, Typed(cv, e, j, s, f), NEW p, NEW rs, NEW left, NEW mm,
           Closing(p, e, j, s, rs, mm, left), NEW s2, NEW f2, Moves(in, s, f, s2, f2)
    PROVE  Closing(p, e, j + 1, s2, rs, mm, left)
<1> DEFINE end == Ended(p, rs, "reg", mm)
<1>0. /\ N \in Nat \ {0} /\ e \in 1 .. 2 * N /\ e \in Segment /\ j \in Nat
      /\ Top(e) \in 8 .. MemSize /\ MemSize \in Nat /\ Top(e) \in Nat
    <2>1. N \in Nat \ {0}
        BY NIsNat
    <2> QED
        BY <2>1, TopFacts DEF Segment
<1>1. /\ end \in Registers /\ end[8] = rs[8] /\ end[9] = rs[9]
      /\ Opening(s, end, left) /\ ~Asked(p, rs, "reg", mm, left)
      /\ \A i \in 1 .. 8 : 23 + i <= j => s.stack[Top(e) - i] = end[i - 1]
    BY DEF Closing
<1> HIDE DEF end
<1>2. PICK m : m = j - 22
    OBVIOUS
<1>3. m \in 1 .. 8 /\ m - 1 \in 0 .. 7 /\ 23 + m = j + 1 /\ m - 1 \in Reg
    BY <1>2 DEF Reg
<1>4. in = Push(R(m - 1))
    BY <1>0, <1>3, ProgramIsns
<1>5. in.op = "push" /\ in.from = R(m - 1)
    BY <1>4 DEF Push
<1>6. s2 = [x |-> [s.x EXCEPT ![rsp] = @ - 8],
            stack |-> [s.stack EXCEPT ![s.x[rsp] \div 8 - 1] = s.x[R(m - 1)]], io |-> s.io]
    BY <1>5, MoveKeeps DEF Effect
<1>7. s.x[R(m - 1)] = end[m - 1]
    <2>1. HomeOf(m - 1) = R(m - 1)
        BY <1>3 DEF HomeOf
    <2> QED
        BY <1>1, <1>3, <2>1 DEF Opening, Holds
<1>8. s.x[rsp] \div 8 - 1 = Top(e) - m
    <2>1. PICK c : c = Sp(cv, e, j)
        OBVIOUS
    <2>2. c = Top(e) - (j - 23)
        BY <1>0, <2>1 DEF Sp
    <2>3. c \in Int /\ c - 1 = Top(e) - m
        BY <1>0, <1>2, <2>2
    <2>4. (8 * c) \div 8 = c
        BY <2>3
    <2> QED
        BY <2>1, <2>3, <2>4 DEF Typed
<1>9. /\ DOMAIN s.stack = 0 .. Deep(cv) - 1 /\ Top(e) - m \in 0 .. Deep(cv) - 1
    <2>1. Deep(cv) \in Nat /\ Deep(cv) > MemSize
        <3>1. Saves(cv) \in {6, 8}
            BY <1>0, Widths
        <3> QED
            BY <1>0, <3>1 DEF Deep
    <2> QED
        BY <1>0, <1>3, <2>1 DEF Typed
<1>10. s2.stack = [s.stack EXCEPT ![Top(e) - m] = end[m - 1]]
    BY <1>6, <1>7, <1>8
<1>11. ASSUME NEW i \in 1 .. 8, 23 + i <= j + 1 PROVE s2.stack[Top(e) - i] = end[i - 1]
    <2>1. CASE i = m
        BY <1>9, <1>10, <2>1
    <2>2. CASE i # m
        <3>1. 23 + i <= j /\ Top(e) - i # Top(e) - m
            BY <1>0, <1>2, <1>3, <1>11, <2>2
        <3> QED
            BY <1>1, <1>10, <3>1
    <2> QED
        BY <2>1, <2>2
<1>12. Opening(s2, end, left)
    <2>1. \A q \in Reg : HomeOf(q) # rsp
        BY Homes DEF rsp
    <2>2. rbx # rsp /\ rbp # rsp
        BY DEF rbx, rbp, rsp
    <2>3. \A q : q # rsp => s2.x[q] = s.x[q]
        BY <1>6
    <2> QED
        BY <1>1, <2>1, <2>2, <2>3 DEF Opening, Holds
<1> QED
    BY <1>1, <1>11, <1>12 DEF Closing, end

(* R0-R7 are on the stack, below those of the programs before.             *)
Stored(e, cells, end) == \A i \in 1 .. 8 : cells[Top(e) - i] = end[i - 1]

(* They have become memory the next program shelters.                      *)
LEMMA StoredSheltered ==
    ASSUME NEW cv \in Abi, NEW e \in 1 .. N, NEW s, NEW rs, Sheltered(cv, e, s, rs),
           NEW end \in Registers, end[8] = rs[8], end[9] = rs[9], Stored(e, s.stack, end)
    PROVE  Sheltered(cv, e + 1, s, end)
<1>1. Top(e) \in 8 .. MemSize /\ MemSize \in Nat /\ Top(e + 1) = Top(e) - 8 /\ Top(e) \in Nat
    BY TopFacts
<1>2. ASSUME NEW a \in 0 .. MemSize - 1, a >= Top(e + 1) PROVE s.stack[a] \in Word
    <2>1. CASE a >= Top(e)
        BY <2>1 DEF Sheltered
    <2>2. CASE ~(a >= Top(e))
        <3>1. PICK i : i = Top(e) - a
            OBVIOUS
        <3>2. i \in 1 .. 8 /\ Top(e) - i = a /\ i - 1 \in Reg
            BY <1>1, <1>2, <2>2, <3>1 DEF Reg
        <3> QED
            BY <3>2 DEF Stored, Registers
    <2> QED
        BY <2>1, <2>2
<1> QED
    BY <1>2 DEF Sheltered

(* The loops left to the next program.                                     *)
LeftBy(e, left) == IF e = N THEN BranchLimit ELSE left

(* The last instruction of a program of the first phase.                   *)
LEMMA RegEnds ==
    ASSUME NEW cv \in Abi, NEW list \in ProgramLists, NEW e \in 1 .. N,
           NEW j, j = Width(cv, e) - 1, NEW in, in = Isn(cv, list, e, j + 1),
           NEW s, NEW f, Typed(cv, e, j, s, f), NEW p, NEW rs, NEW left \in 0 .. BranchLimit, NEW mm,
           Sheltered(cv, e, s, rs), Closing(p, e, j, s, rs, mm, left),
           NEW s2, NEW f2, Moves(in, s, f, s2, f2),
           NEW end, end = Ended(p, rs, "reg", mm)
    PROVE  /\ ~Asked(p, rs, "reg", mm, left) /\ end \in Registers
           /\ Opening(s2, end, LeftBy(e, left)) /\ Sheltered(cv, e + 1, s2, end)
           /\ Stored(e, s2.stack, end)
<1>0. N \in Nat \ {0} /\ e \in 1 .. 2 * N /\ e \in Segment /\ e # 0
    <2>1. N \in Nat \ {0}
        BY NIsNat
    <2> QED
        BY <2>1 DEF Segment
<1>1. CASE e # N
    <2>1. j = 30 /\ j \in 23 .. 30 /\ j + 1 = 31 /\ LeftBy(e, left) = left
          /\ j \in 0 .. Width(cv, e) - 1
        <3>1. e \in 1 .. N - 1
            BY <1>0, <1>1
        <3>2. Width(cv, e) = 31
            BY <1>0, <3>1, Widths
        <3> QED
            BY <1>1, <3>2 DEF LeftBy
    <2>2. Closing(p, e, j + 1, s2, rs, mm, left)
        BY <2>1, ClosingMoves
    <2>3. /\ end \in Registers /\ end[8] = rs[8] /\ end[9] = rs[9]
          /\ Opening(s2, end, left) /\ ~Asked(p, rs, "reg", mm, left)
          /\ Stored(e, s2.stack, end)
        BY <2>1, <2>2 DEF Closing, Stored
    <2>4. Sheltered(cv, e, s2, rs)
        BY <1>0, <2>1, ShelteredMoves
    <2>5. Sheltered(cv, e + 1, s2, end)
        BY <2>3, <2>4, StoredSheltered
    <2> QED
        BY <2>1, <2>3, <2>5
<1>2. CASE e = N
    <2>1. j = 31 /\ j + 1 = 32 /\ LeftBy(e, left) = BranchLimit /\ j \in 0 .. Width(cv, e) - 1
        <3>1. Width(cv, e) = 32
            BY <1>0, <1>2, Widths
        <3> QED
            BY <1>2, <3>1 DEF LeftBy
    <2>2. in = ClearBc
        BY <1>0, <1>2, <2>1, ProgramIsns
    <2>3. in.op = "clear" /\ in.to = rbx
        BY <2>2 DEF ClearBc
    <2>4. s2 = Put(s, rbx, 0)
        BY <2>3, MoveKeeps DEF Effect, Result
    <2>5. /\ end \in Registers /\ end[8] = rs[8] /\ end[9] = rs[9]
          /\ Opening(s, end, left) /\ ~Asked(p, rs, "reg", mm, left)
          /\ Stored(e, s.stack, end)
        BY <2>1 DEF Closing, Stored
    <2>6. s2.stack = s.stack
        BY <2>4 DEF Put
    <2>7. Stored(e, s2.stack, end)
        BY <2>5, <2>6
    <2>8. Sheltered(cv, e, s2, rs)
        BY <1>0, <2>1, ShelteredMoves
    <2>9. Sheltered(cv, e + 1, s2, end)
        BY <2>5, <2>7, <2>8, StoredSheltered
    <2>10. Opening(s2, end, BranchLimit)
        <3>1. DOMAIN s.x = 0 .. 15 /\ rbx = 3 /\ 3 \in 0 .. 15 /\ rbp # rbx
            BY DEF Typed, rbx, rbp
        <3>2. s2.x[rbx] = 0 /\ \A q : q # rbx => s2.x[q] = s.x[q]
            BY <2>4, <3>1 DEF Put
        <3>3. \A q \in Reg : HomeOf(q) # rbx
            BY Homes DEF rbx
        <3>4. BranchLimit - BranchLimit = 0
            BY SizesAssumption
        <3> QED
            BY <2>5, <3>1, <3>2, <3>3, <3>4 DEF Opening, Holds
    <2> QED
        BY <2>1, <2>5, <2>7, <2>9, <2>10
<1> QED
    BY <1>1, <1>2

(* The last instruction of a program of the second phase.                  *)
LEMMA MemEnds ==
    ASSUME NEW cv \in Abi, NEW list \in ProgramLists, NEW e \in N + 1 .. 2 * N,
           NEW j, j = Width(cv, e) - 1, NEW in, in = Isn(cv, list, e, j + 1),
           NEW s, NEW f, Typed(cv, e, j, s, f), NEW rs \in Registers, NEW left \in 0 .. BranchLimit,
           Sheltered(cv, e, s, rs), NEW T, Led(cv, list, e, j, T, s, f, rs, left),
           NEW s2, NEW f2, Moves(in, s, f, s2, f2),
           NEW mm, mm = MemoryAt(e, s.stack), NEW p, p = ProgramOf(list, e),
           NEW end, end = Ended(p, rs, "mem", mm)
    PROVE  /\ ~Asked(p, rs, "mem", mm, left) /\ end \in Registers
           /\ Opening(s2, end, LeftBy(e, left)) /\ Sheltered(cv, e + 1, s2, end)
           /\ s2.stack = s.stack
<1>0. /\ N \in Nat \ {0} /\ e \in 1 .. 2 * N /\ e \in Segment /\ e \in Segment \ {0}
      /\ ~(e <= N) /\ ~(e + 1 <= N) /\ e # N
    <2>1. N \in Nat \ {0}
        BY NIsNat
    <2> QED
        BY <2>1 DEF Segment
<1>1. /\ j = 36 /\ j + 1 = 37 /\ PhaseOf(e) = "mem" /\ Begin("mem", 10) = 37
      /\ j \in 2 .. Width(cv, e) - 1 /\ j \in 0 .. Width(cv, e) - 1
    <2>1. Width(cv, e) = 37
        BY <1>0, Widths
    <2> QED
        BY <1>0, <2>1 DEF PhaseOf, Begin
<1>2. PICK U : Led(cv, list, e, j + 1, U, s2, f2, rs, left)
    BY <1>0, <1>1, LedMoves
<1>3. Sheltered(cv, e, s2, rs) /\ MemoryAt(e, s2.stack) = mm
    BY <1>0, <1>1, ShelteredMoves
<1>4. s2.stack = s.stack
    <2>1. in.op # "push"
        BY <1>0, <1>1, WhoWrites
    <2> QED
        BY <2>1, MoveKeeps
<1>5. Finished(p, rs, "mem", mm, s2, left)
    <2>1. PICK v : v = j + 1
        OBVIOUS
    <2>2. v = Begin(PhaseOf(e), 10) /\ Led(cv, list, e, v, U, s2, f2, rs, left)
        BY <1>1, <1>2, <2>1
    <2>3. Finished(p, rs, PhaseOf(e), mm, s2, left)
        BY <1>0, <1>3, <2>2, LedEnds
    <2> QED
        BY <1>1, <2>3
<1>6. /\ Opening(s2, end, left) /\ ~Asked(p, rs, "mem", mm, left)
      /\ end \in Registers /\ end[8] = rs[8] /\ end[9] = rs[9]
    BY <1>5 DEF Finished
<1>7. Sheltered(cv, e + 1, s2, end)
    <2>1. Top(e + 1) = Top(e)
        BY <1>0 DEF Top
    <2> QED
        BY <1>3, <1>6, <2>1 DEF Sheltered
<1> QED
    BY <1>0, <1>4, <1>6, <1>7 DEF LeftBy

(* The ends of the arithmetic by phase.                                    *)
LEMMA Arithmetics ==
    ASSUME NEW e \in 1 .. 2 * N
    PROVE  /\ PhaseOf(e) \in Phases /\ Begin(PhaseOf(e), 10) \in Nat
           /\ e <= N => PhaseOf(e) = "reg" /\ Begin(PhaseOf(e), 10) = 23 /\ Jump(e) = 20
           /\ ~(e <= N) => PhaseOf(e) = "mem" /\ Begin(PhaseOf(e), 10) = 37 /\ Jump(e) = 32
BY NIsNat DEF PhaseOf, Begin, Jump, Phases

(* Where the machine is, at a place of a program.                          *)
LEMMA WhereInside ==
    ASSUME NEW cv \in Abi, NEW list \in ProgramLists, NEW e \in 1 .. 2 * N, NEW j \in Nat,
           NEW s, NEW f, NEW rs, NEW left
    PROVE  Where(cv, list, e, j, s, f, rs, left) <=>
             /\ j = 0 => Opening(s, rs, left)
             /\ j = 1 => Behind(s, f, rs, left)
             /\ j >= 2 /\ j < Begin(PhaseOf(e), 10) => \E T : Led(cv, list, e, j, T, s, f, rs, left)
             /\ j >= Begin(PhaseOf(e), 10) =>
                   Closing(ProgramOf(list, e), e, j, s, rs, MemoryAt(e, s.stack), left)
<1>1. e # 0 /\ e # 2 * N + 1
    BY NIsNat
<1> QED
    BY <1>1 DEF Where

(* What a place of a program says before a test of the flag or a store.    *)
LEMMA AtReady ==
    ASSUME NEW cv \in Abi, NEW list \in ProgramLists, NEW e \in Segment,
           NEW j \in 0 .. Width(cv, e) - 1, NEW in, in = Isn(cv, list, e, j + 1),
           NEW s, NEW f, NEW rs, NEW left, At(cv, list, e, j, s, f, rs, left),
           NEW s2, NEW f2, Moves(in, s, f, s2, f2)
    PROVE  Ready(e, j, s)
<1>0. N \in Nat \ {0} /\ j \in Nat /\ rs \in Registers /\ left \in 0 .. BranchLimit
      /\ Typed(cv, e, j, s, f) /\ (e # 0 => Sheltered(cv, e, s, rs))
      /\ Where(cv, list, e, j, s, f, rs, left)
    BY NIsNat, Widths DEF At
<1>1. ASSUME e \in 1 .. 2 * N, j = Jump(e) - 1 PROVE Looping(s.x[rdx]) \in BOOLEAN
    <2>1. j >= 2 /\ j < Begin(PhaseOf(e), 10)
        BY <1>0, <1>1, Arithmetics
    <2>2. PICK T : Led(cv, list, e, j, T, s, f, rs, left)
        BY <1>0, <1>1, <2>1, WhereInside
    <2>3. Sheltered(cv, e, s, rs)
        BY <1>0, <1>1
    <2> QED
        BY <1>0, <1>1, <2>2, <2>3, LedReady
<1>2. ASSUME e = 2 * N + 1 PROVE Ready(e, j, s)
    <2>1. Leaving(cv, j, s, rs) /\ Sheltered(cv, e, s, rs)
        BY <1>0, <1>2 DEF Where
    <2> QED
        BY <1>0, <1>2, <2>1, LeavingMoves
<1>3. e = 2 * N + 1 \/ e # 2 * N + 1
    OBVIOUS
<1> QED
    BY <1>1, <1>2, <1>3 DEF Ready

(* A step inside a program.                                                *)
LEMMA ProgramMoves ==
    ASSUME NEW cv \in Abi, NEW list \in ProgramLists, NEW e \in 1 .. 2 * N,
           NEW j \in 0 .. Width(cv, e) - 2, NEW in, in = Isn(cv, list, e, j + 1),
           NEW s, NEW f, NEW rs \in Registers, NEW left \in 0 .. BranchLimit,
           Typed(cv, e, j, s, f), Sheltered(cv, e, s, rs), Where(cv, list, e, j, s, f, rs, left),
           NEW s2, NEW f2, Moves(in, s, f, s2, f2),
           Typed(cv, e, j + 1, s2, f2), Sheltered(cv, e, s2, rs),
           MemoryAt(e, s2.stack) = MemoryAt(e, s.stack)
    PROVE  Where(cv, list, e, j + 1, s2, f2, rs, left)
<1> DEFINE b == Begin(PhaseOf(e), 10)
<1>0. /\ N \in Nat \ {0} /\ e \in Segment /\ b \in Nat /\ b >= 23 /\ j \in Nat /\ j + 1 \in Nat
      /\ j \in 0 .. Width(cv, e) - 1
    <2>1. N \in Nat \ {0} /\ e \in Segment
        BY NIsNat DEF Segment
    <2>2. b \in Nat /\ b >= 23
        BY Arithmetics
    <2> QED
        BY <2>1, <2>2, Widths
<1>1. CASE j = 0
    <2>1. Opening(s, rs, left)
        BY <1>0, <1>1, WhereInside
    <2>2. Behind(s2, f2, rs, left)
        BY <1>1, <2>1, OpeningMoves
    <2>3. j + 1 = 1 /\ ~(1 >= 2) /\ ~(1 >= b)
        BY <1>0, <1>1
    <2> QED
        BY <1>0, <2>2, <2>3, WhereInside
<1>2. CASE j = 1
    <2>1. Behind(s, f, rs, left) /\ DOMAIN s.x = 0 .. 15
        BY <1>0, <1>2, WhereInside DEF Typed
    <2>2. \E T : Led(cv, list, e, 2, T, s2, f2, rs, left)
        BY <1>2, <2>1, BehindMoves
    <2>3. j + 1 = 2 /\ ~(2 >= b)
        BY <1>0, <1>2
    <2> QED
        BY <1>0, <2>2, <2>3, WhereInside
<1>3. CASE j >= 2 /\ j < b
    <2>1. PICK T : Led(cv, list, e, j, T, s, f, rs, left)
        BY <1>0, <1>3, WhereInside
    <2>2. j \in 2 .. Width(cv, e) - 1
        BY <1>0, <1>3
    <2>3. PICK U : Led(cv, list, e, j + 1, U, s2, f2, rs, left)
        BY <2>1, <2>2, LedMoves
    <2>4. CASE j + 1 < b
        <3>1. j + 1 # 0 /\ j + 1 # 1 /\ ~(j + 1 >= b)
            BY <1>0, <1>3, <2>4
        <3> QED
            BY <1>0, <2>3, <3>1, WhereInside
    <2>5. CASE j + 1 = b
        <3>1. PICK v, p, mm : v = j + 1 /\ p = ProgramOf(list, e) /\ mm = MemoryAt(e, s2.stack)
            OBVIOUS
        <3>2. PhaseOf(e) = "reg" /\ b = 23
            <4>1. CASE e <= N
                BY <4>1, Arithmetics
            <4>2. CASE ~(e <= N)
                <5>1. b = 37 /\ Width(cv, e) = 37
                    BY <1>0, <4>2, Arithmetics, Widths
                <5> QED
                    BY <1>0, <2>5, <5>1
            <4> QED
                BY <4>1, <4>2
        <3>3. v = Begin(PhaseOf(e), 10) /\ Led(cv, list, e, v, U, s2, f2, rs, left)
            BY <2>3, <2>5, <3>1
        <3>4. Finished(p, rs, PhaseOf(e), mm, s2, left)
            BY <3>1, <3>3, LedEnds
        <3>5. Closing(p, e, v, s2, rs, mm, left)
            <4>1. \A i \in 1 .. 8 : ~(23 + i <= v)
                BY <2>5, <3>1, <3>2
            <4> QED
                BY <3>2, <3>4, <4>1 DEF Finished, Closing
        <3>6. v # 0 /\ v # 1 /\ ~(v < b) /\ v \in Nat /\ v >= b
            BY <1>0, <2>5, <3>1
        <3> QED
            BY <3>1, <3>5, <3>6, WhereInside
    <2> QED
        BY <1>0, <1>3, <2>4, <2>5
<1>4. CASE j >= b
    <2>1. e <= N /\ b = 23 /\ e \in 1 .. N /\ j \in 23 .. 30
        <3>1. CASE e <= N
            <4>1. b = 23 /\ Width(cv, e) \in {31, 32} /\ e \in 1 .. N
                BY <1>0, <3>1, Arithmetics, Widths
            <4> QED
                BY <1>0, <1>4, <3>1, <4>1
        <3>2. CASE ~(e <= N)
            <4>1. b = 37 /\ Width(cv, e) = 37
                BY <1>0, <3>2, Arithmetics, Widths
            <4> QED
                BY <1>0, <1>4, <4>1
        <3> QED
            BY <3>1, <3>2
    <2>2. PICK p, mm : p = ProgramOf(list, e) /\ mm = MemoryAt(e, s.stack)
        OBVIOUS
    <2>3. Closing(p, e, j, s, rs, mm, left)
        BY <1>0, <1>4, <2>2, WhereInside
    <2>4. Closing(p, e, j + 1, s2, rs, mm, left)
        BY <2>1, <2>3, ClosingMoves
    <2>5. j + 1 # 0 /\ j + 1 # 1 /\ ~(j + 1 < b) /\ j + 1 >= b
        BY <1>0, <1>4
    <2> QED
        BY <1>0, <2>2, <2>4, <2>5, WhereInside
<1>5. j = 0 \/ j = 1 \/ j >= 2
    BY <1>0
<1> QED
    BY <1>0, <1>1, <1>2, <1>3, <1>4, <1>5

(* A step that stays in its segment.                                       *)
LEMMA AtMoves ==
    ASSUME NEW cv \in Abi, NEW list \in ProgramLists, NEW e \in Segment,
           NEW j \in 0 .. Width(cv, e) - 1, NEW in, in = Isn(cv, list, e, j + 1),
           NEW s, NEW f, NEW rs, NEW left, At(cv, list, e, j, s, f, rs, left),
           NEW s2, NEW f2, Moves(in, s, f, s2, f2),
           j + 1 < Width(cv, e) \/ e = 2 * N + 1
    PROVE  /\ At(cv, list, e, j + 1, s2, f2, rs, left)
           /\ e # 0 => MemoryAt(e, s2.stack) = MemoryAt(e, s.stack)
<1>0. /\ N \in Nat \ {0} /\ e \in 0 .. 2 * N + 1 /\ j \in Nat /\ Width(cv, e) \in Nat
      /\ rs \in Registers /\ left \in 0 .. BranchLimit
      /\ Typed(cv, e, j, s, f) /\ (e # 0 => Sheltered(cv, e, s, rs))
      /\ Where(cv, list, e, j, s, f, rs, left)
    BY NIsNat, Widths DEF At, Segment
<1>1. Typed(cv, e, j + 1, s2, f2)
    <2>1. Ready(e, j, s)
        BY AtReady
    <2> QED
        BY <1>0, <2>1, TypedMoves
<1>2. e # 0 => Sheltered(cv, e, s2, rs) /\ MemoryAt(e, s2.stack) = MemoryAt(e, s.stack)
    BY <1>0, ShelteredMoves
<1>3. Where(cv, list, e, j + 1, s2, f2, rs, left)
    <2>1. CASE e = 0
        <3>1. j \in 0 .. Width(cv, 0) - 2 /\ ~(e \in 1 .. 2 * N) /\ e # 2 * N + 1
            BY <1>0, <2>1
        <3>2. Entering(cv, j, s, rs, left) /\ Typed(cv, 0, j, s, f) /\ in = Isn(cv, list, 0, j + 1)
            BY <1>0, <2>1 DEF Where
        <3>3. Entering(cv, j + 1, s2, rs, left)
            BY <3>1, <3>2, EnteringMoves
        <3> QED
            BY <3>1, <3>3 DEF Where
    <2>2. CASE e \in 1 .. 2 * N
        <3>1. j \in 0 .. Width(cv, e) - 2 /\ e # 0
            BY <1>0, <2>2
        <3> QED
            BY <1>0, <1>1, <1>2, <2>2, <3>1, ProgramMoves
    <2>3. CASE e = 2 * N + 1
        <3>1. e # 0 /\ ~(e \in 1 .. 2 * N)
            BY <1>0, <2>3
        <3>2. Leaving(cv, j, s, rs) /\ Sheltered(cv, e, s, rs)
            BY <1>0, <2>3, <3>1 DEF Where
        <3>3. Leaving(cv, j + 1, s2, rs)
            BY <1>0, <2>3, <3>2, LeavingMoves
        <3> QED
            BY <3>1, <3>3 DEF Where
    <2> QED
        BY <1>0, <2>1, <2>2, <2>3
<1> QED
    BY <1>0, <1>1, <1>2, <1>3 DEF At

-----------------------------------------------------------------------------
(* From segment to segment, and back to the target.                        *)

(* The registers and the loops a segment leaves.                           *)
EndOf(list, e, rs, mm) == IF e = 0 THEN rs ELSE Ended(ProgramOf(list, e), rs, PhaseOf(e), mm)

(* What a program leaves of its pass: the branch was not taken, and the    *)
(* stack is as it was or has the registers on it.                          *)
Leaves(list, e, s, s2, rs, mm, left) ==
    /\ ~Asked(ProgramOf(list, e), rs, PhaseOf(e), mm, left)
    /\ e <= N => Stored(e, s2.stack, EndOf(list, e, rs, mm))
    /\ ~(e <= N) => s2.stack = s.stack

(* The last instruction of a segment opens the next.                       *)
LEMMA SegmentOpens ==
    ASSUME NEW cv \in Abi, NEW list \in ProgramLists, NEW e \in 0 .. 2 * N,
           NEW j, j = Width(cv, e) - 1, NEW in, in = Isn(cv, list, e, j + 1),
           NEW s, NEW f, NEW rs, NEW left, At(cv, list, e, j, s, f, rs, left),
           NEW s2, NEW f2, Moves(in, s, f, s2, f2),
           NEW mm, mm = MemoryAt(e, s.stack), NEW end, end = EndOf(list, e, rs, mm)
    PROVE  /\ end \in Registers /\ Opening(s2, end, LeftBy(e, left)) /\ Sheltered(cv, e + 1, s2, end)
           /\ e # 0 => Leaves(list, e, s, s2, rs, mm, left)
<1>0. /\ N \in Nat \ {0} /\ e \in Segment /\ Width(cv, e) \in Nat \ {0} /\ j \in Nat
      /\ rs \in Registers /\ left \in 0 .. BranchLimit
      /\ Typed(cv, e, j, s, f) /\ (e # 0 => Sheltered(cv, e, s, rs))
      /\ Where(cv, list, e, j, s, f, rs, left)
    <2>1. N \in Nat \ {0} /\ e \in Segment
        BY NIsNat DEF Segment
    <2>2. Width(cv, e) \in Nat \ {0}
        BY <2>1, Widths
    <2> QED
        BY <2>1, <2>2 DEF At
<1>1. CASE e = 0
    <2>1. end = rs /\ Entering(cv, j, s, rs, left) /\ LeftBy(e, left) = left /\ 0 + 1 = 1
        BY <1>0, <1>1 DEF EndOf, Where, LeftBy
    <2>2. j = Width(cv, 0) - 1 /\ in = Isn(cv, list, 0, j + 1) /\ Typed(cv, 0, j, s, f)
        BY <1>0, <1>1
    <2>3. Opening(s2, rs, left) /\ Sheltered(cv, 1, s2, rs)
        BY <1>0, <2>1, <2>2, EnteringEnds
    <2> QED
        BY <1>0, <1>1, <2>1, <2>3
<1>2. CASE e \in 1 .. N
    <2>1. e # 0 /\ e <= N /\ e \in 1 .. 2 * N /\ PhaseOf(e) = "reg" /\ Begin(PhaseOf(e), 10) = 23
        BY <1>0, <1>2, Arithmetics
    <2>2. j >= 23 /\ j # 0 /\ j # 1 /\ ~(j < 23)
        <3>1. Width(cv, e) \in {31, 32}
            BY <1>0, <1>2, Widths
        <3> QED
            BY <1>0, <3>1
    <2>3. PICK p : p = ProgramOf(list, e)
        OBVIOUS
    <2>4. Closing(p, e, j, s, rs, mm, left)
        BY <1>0, <2>1, <2>2, <2>3, WhereInside
    <2>5. end = Ended(p, rs, "reg", mm)
        BY <2>1, <2>3 DEF EndOf
    <2>6. /\ ~Asked(p, rs, "reg", mm, left) /\ end \in Registers
          /\ Opening(s2, end, LeftBy(e, left)) /\ Sheltered(cv, e + 1, s2, end)
          /\ Stored(e, s2.stack, end)
        <3>1. Typed(cv, e, j, s, f) /\ Sheltered(cv, e, s, rs) /\ left \in 0 .. BranchLimit
            BY <1>0, <2>1
        <3> QED
            BY <1>2, <2>4, <2>5, <3>1, RegEnds
    <2> QED
        BY <2>1, <2>3, <2>6 DEF Leaves
<1>3. CASE e \in N + 1 .. 2 * N
    <2>1. e # 0 /\ ~(e <= N) /\ e \in 1 .. 2 * N /\ PhaseOf(e) = "mem" /\ Begin(PhaseOf(e), 10) = 37
        BY <1>0, <1>3, Arithmetics
    <2>2. j >= 2 /\ j < 37
        <3>1. Width(cv, e) = 37
            BY <1>0, <1>3, Widths
        <3> QED
            BY <1>0, <3>1
    <2>3. PICK p : p = ProgramOf(list, e)
        OBVIOUS
    <2>4. PICK T : Led(cv, list, e, j, T, s, f, rs, left)
        BY <1>0, <2>1, <2>2, WhereInside
    <2>5. end = Ended(p, rs, "mem", mm)
        BY <2>1, <2>3 DEF EndOf
    <2>6. /\ ~Asked(p, rs, "mem", mm, left) /\ end \in Registers
          /\ Opening(s2, end, LeftBy(e, left)) /\ Sheltered(cv, e + 1, s2, end)
          /\ s2.stack = s.stack
        BY <1>0, <1>3, <2>1, <2>3, <2>4, <2>5, MemEnds
    <2> QED
        BY <2>1, <2>3, <2>6 DEF Leaves
<1> QED
    BY <1>0, <1>1, <1>2, <1>3

(* A step into the next segment.                                           *)
LEMMA AtCrosses ==
    ASSUME NEW cv \in Abi, NEW list \in ProgramLists, NEW e \in 0 .. 2 * N,
           NEW j, j = Width(cv, e) - 1, NEW in, in = Isn(cv, list, e, j + 1),
           NEW s, NEW f, NEW rs, NEW left, At(cv, list, e, j, s, f, rs, left),
           NEW s2, NEW f2, Moves(in, s, f, s2, f2),
           NEW mm, mm = MemoryAt(e, s.stack), NEW end, end = EndOf(list, e, rs, mm)
    PROVE  /\ At(cv, list, e + 1, 0, s2, f2, end, LeftBy(e, left))
           /\ end \in Registers /\ Opening(s2, end, LeftBy(e, left))
           /\ LeftBy(e, left) \in 0 .. BranchLimit
           /\ e # 0 => Leaves(list, e, s, s2, rs, mm, left)
<1>0. /\ N \in Nat \ {0} /\ e \in Segment /\ Width(cv, e) \in Nat \ {0} /\ j \in Nat
      /\ rs \in Registers /\ left \in 0 .. BranchLimit
      /\ Typed(cv, e, j, s, f) /\ j \in 0 .. Width(cv, e) - 1 /\ j + 1 = Width(cv, e)
    <2>1. N \in Nat \ {0} /\ e \in Segment
        BY NIsNat DEF Segment
    <2>2. Width(cv, e) \in Nat \ {0}
        BY <2>1, Widths
    <2> QED
        BY <2>1, <2>2 DEF At
<1>1. /\ end \in Registers /\ Opening(s2, end, LeftBy(e, left)) /\ Sheltered(cv, e + 1, s2, end)
      /\ e # 0 => Leaves(list, e, s, s2, rs, mm, left)
    BY SegmentOpens
<1>2. Typed(cv, e + 1, 0, s2, f2)
    <2>1. Ready(e, j, s)
        BY <1>0, AtReady
    <2>2. Typed(cv, e, j + 1, s2, f2)
        BY <1>0, <2>1, TypedMoves
    <2>3. Sp(cv, e, Width(cv, e)) = Sp(cv, e + 1, 0)
        BY SpMeets
    <2> QED
        BY <1>0, <2>2, <2>3 DEF Typed
<1>3. LeftBy(e, left) \in 0 .. BranchLimit
    BY <1>0, SizesAssumption DEF LeftBy
<1>4. Where(cv, list, e + 1, 0, s2, f2, end, LeftBy(e, left))
    <2>1. CASE e = 2 * N
        <3>1. e + 1 = 2 * N + 1 /\ e + 1 # 0 /\ ~(e + 1 \in 1 .. 2 * N)
            BY <1>0, <2>1
        <3>2. Leaving(cv, 0, s2, end)
            BY <1>1, LeavingBegins DEF Opening
        <3> QED
            BY <3>1, <3>2 DEF Where
    <2>2. CASE e # 2 * N
        <3>1. PICK g : g = e + 1
            OBVIOUS
        <3>2. g \in 1 .. 2 * N
            BY <1>0, <2>2, <3>1
        <3>3. 0 # 1 /\ ~(0 >= 2) /\ ~(0 >= Begin(PhaseOf(g), 10)) /\ 0 \in Nat
            BY <3>2, Arithmetics
        <3>4. Where(cv, list, g, 0, s2, f2, end, LeftBy(e, left))
            BY <1>1, <3>2, <3>3, WhereInside
        <3> QED
            BY <3>1, <3>4
    <2> QED
        BY <2>1, <2>2
<1> QED
    BY <1>0, <1>1, <1>2, <1>3, <1>4 DEF At

(* A taken branch, back to the second instruction of its program.          *)
Returning(cv, list, e, s, f, looped, left) ==
    /\ At(cv, list, e, 1, s, f, looped, left - 1)
    /\ looped \in Registers /\ Holds(s.x, looped)
    /\ left - 1 \in 0 .. BranchLimit /\ s.x[rbp] = BranchLimit - (left - 1)

(* At the jump of the branch: what is asked of HashwxVM, and the place     *)
(* the jump returns to.                                                    *)
LEMMA AtRepeats ==
    ASSUME NEW cv \in Abi, NEW list \in ProgramLists, NEW e \in 1 .. 2 * N,
           NEW j, j = Jump(e), NEW s, NEW f, Taken(f),
           NEW rs, NEW left, At(cv, list, e, j, s, f, rs, left),
           NEW mm, mm = MemoryAt(e, s.stack), NEW p, p = ProgramOf(list, e), NEW ph, ph = PhaseOf(e)
    PROVE  /\ Asked(p, rs, ph, mm, left)
           /\ Returning(cv, list, e, s, f, Looped(p, rs, ph, mm), left)
<1>5. PICK looped : looped = Looped(p, rs, ph, mm)
    OBVIOUS
<1>0. /\ N \in Nat \ {0} /\ e # 0 /\ rs \in Registers /\ left \in 0 .. BranchLimit
      /\ Typed(cv, e, j, s, f) /\ Sheltered(cv, e, s, rs)
      /\ Where(cv, list, e, j, s, f, rs, left) /\ j \in {20, 32} /\ j \in Nat /\ e \in Segment
    <2>1. N \in Nat \ {0} /\ e # 0 /\ e \in Segment
        BY NIsNat DEF Segment
    <2>2. j \in {20, 32}
        BY DEF Jump
    <2> QED
        BY <2>1, <2>2 DEF At
<1>1. PICK T : Led(cv, list, e, j, T, s, f, rs, left)
    <2>1. j >= 2 /\ j < Begin(PhaseOf(e), 10)
        BY <1>0, Arithmetics
    <2> QED
        BY <1>0, <2>1, WhereInside
<1>2. /\ Asked(p, rs, ph, mm, left)
      /\ looped \in Registers /\ left - 1 \in 0 .. BranchLimit
      /\ Behind(s, f, looped, left - 1) /\ Sheltered(cv, e, s, looped)
      /\ s.x[rbp] = BranchLimit - (left - 1)
    <2>1. Asked(p, rs, ph, mm, left) /\ Repeated(cv, e, s, f, Looped(p, rs, ph, mm), left)
        BY <1>0, <1>1, LedRepeats
    <2> QED
        BY <1>5, <2>1 DEF Repeated
<1>3. Typed(cv, e, 1, s, f)
    <2>1. Sp(cv, e, 1) = Sp(cv, e, j)
        <3>1. CASE e <= N
            <4>1. j = 20
                BY <3>1 DEF Jump
            <4> QED
                BY <1>0, <3>1, <4>1 DEF Sp
        <3>2. CASE ~(e <= N)
            BY <1>0, <3>2 DEF Sp
        <3> QED
            BY <3>1, <3>2
    <2> QED
        BY <1>0, <2>1 DEF Typed
<1>4. Where(cv, list, e, 1, s, f, looped, left - 1)
    <2>1. 1 # 0 /\ ~(1 >= 2) /\ ~(1 >= Begin(PhaseOf(e), 10)) /\ 1 \in Nat
        BY Arithmetics
    <2> QED
        BY <1>2, <2>1, WhereInside
<1> QED
    BY <1>5, <1>0, <1>2, <1>3, <1>4 DEF At, Behind, Returning

-----------------------------------------------------------------------------
(* The inductive invariant.                                                *)

(* The buffer holds what hashwx_compile_x86 made of the programs.          *)
Compiled ==
    /\ program_list \in ProgramLists /\ abi \in Abi
    /\ buffer = hashwx_compile_x86(abi, program_list)

(* The processor is before instruction j + 1 of segment e.                 *)
Place(cv, list, e, j, here, s, f, rs, left) ==
    /\ j \in 0 .. Width(cv, e) /\ (j = Width(cv, e) => e = 2 * N + 1)
    /\ here = Pos(cv, list, e, j)
    /\ At(cv, list, e, j, s, f, rs, left)

(* The inductive invariant: the processor is at a place of the segment     *)
(* entered last, with the registers and the loops of HashwxVM.             *)
IInv ==
    /\ Compiled
    /\ entered \in Segment
    /\ \E j : Place(abi, program_list, entered, j, pc, St, zf, start, budget)

(* The instruction at a place.                                             *)
LEMMA Here ==
    ASSUME Compiled, entered \in Segment,
           NEW j, Place(abi, program_list, entered, j, pc, St, zf, start, budget)
    PROVE  /\ j \in 0 .. Width(abi, entered) /\ Width(abi, entered) \in Nat \ {0} /\ j \in Nat
           /\ j < Width(abi, entered) =>
                 /\ Running /\ isn = Isn(abi, program_list, entered, j + 1) /\ pc \in Nat
                 /\ pc \in DOMAIN buffer.code /\ isn.len \in Nat \ {0}
                 /\ pc + isn.len = Pos(abi, program_list, entered, j + 1)
           /\ j = Width(abi, entered) => ~Running /\ entered = 2 * N + 1
<1>1. /\ program_list \in ProgramLists /\ abi \in Abi
      /\ buffer = hashwx_compile_x86(abi, program_list)
    BY DEF Compiled
<1>2. /\ j \in 0 .. Width(abi, entered) /\ (j = Width(abi, entered) => entered = 2 * N + 1)
      /\ pc = Pos(abi, program_list, entered, j)
    BY DEF Place
<1>3. Width(abi, entered) \in Nat \ {0} /\ j \in Nat
    BY <1>1, <1>2, Widths
<1>4. ASSUME j < Width(abi, entered)
      PROVE  /\ Running /\ isn = Isn(abi, program_list, entered, j + 1) /\ pc \in Nat
             /\ pc \in DOMAIN buffer.code /\ isn.len \in Nat \ {0}
             /\ pc + isn.len = Pos(abi, program_list, entered, j + 1)
    <2>1. j \in 0 .. Width(abi, entered) - 1
        BY <1>3, <1>4
    <2>2. /\ pc \in DOMAIN buffer.code /\ pc # buffer.pos
          /\ buffer.code[pc] = Isn(abi, program_list, entered, j + 1)
          /\ pc \in Nat /\ Isn(abi, program_list, entered, j + 1).len \in Nat \ {0}
          /\ pc + Isn(abi, program_list, entered, j + 1).len = Pos(abi, program_list, entered, j + 1)
        BY <1>1, <1>2, <2>1, Fetch
    <2> QED
        BY <2>2 DEF Running, isn
<1>5. ASSUME j = Width(abi, entered) PROVE ~Running /\ entered = 2 * N + 1
    <2>1. entered = 2 * N + 1
        BY <1>2, <1>5
    <2>2. Pos(abi, program_list, entered, Width(abi, entered)) = buffer.pos
        BY <1>1, <2>1, SegmentEnds
    <2> QED
        BY <1>2, <1>5, <2>1, <2>2 DEF Running
<1> QED
    BY <1>2, <1>3, <1>4, <1>5

(* The places where passes meet.                                           *)
LEMMA Meeting ==
    ASSUME Compiled, NEW e \in Segment, NEW j \in 0 .. Width(abi, e) - 1,
           NEW here, here = Pos(abi, program_list, e, j)
    PROVE  /\ here # buffer.pos
           /\ buffer.code[here].op \in {"test_bc", "unwind"} <=> e # 0 /\ j = 0
<1>1. /\ program_list \in ProgramLists /\ abi \in Abi
      /\ buffer = hashwx_compile_x86(abi, program_list)
    BY DEF Compiled
<1>2. here # buffer.pos /\ buffer.code[here] = Isn(abi, program_list, e, j + 1)
    BY <1>1, Fetch
<1>3. PICK in : in = Isn(abi, program_list, e, j + 1)
    OBVIOUS
<1>4. /\ in.op = "unwind" <=> e = 2 * N + 1 /\ j = 0
      /\ in.op = "test_bc" <=> e \in 1 .. 2 * N /\ j = 0
    BY <1>1, <1>3, WhoWrites
<1>5. e # 0 <=> e = 2 * N + 1 \/ e \in 1 .. 2 * N
    BY NIsNat DEF Segment
<1> QED
    BY <1>2, <1>3, <1>4, <1>5

(* A step inside a segment.                                                *)
LEMMA Within ==
    ASSUME Compiled, HNext, entered \in Segment,
           NEW j, Place(abi, program_list, entered, j, pc, St, zf, start, budget),
           j < Width(abi, entered), Moves(isn, St, zf, St', zf'), pc' = pc + isn.len, UNCHANGED input,
           j + 1 < Width(abi, entered) \/ entered = 2 * N + 1
    PROVE  /\ IInv' /\ start' = start /\ budget' = budget /\ entered' = entered
           /\ entered # 0 => MemoryAt(entered, St'.stack) = MemoryAt(entered, St.stack)
<1>1. /\ program_list' = program_list /\ abi' = abi /\ buffer' = buffer
      /\ program_list \in ProgramLists /\ abi \in Abi /\ Compiled'
    BY DEF Compiled, input
<1>2. /\ j \in Nat /\ Width(abi, entered) \in Nat \ {0}
      /\ isn = Isn(abi, program_list, entered, j + 1) /\ pc \in Nat /\ isn.len \in Nat \ {0}
      /\ pc' = Pos(abi, program_list, entered, j + 1)
    BY Here
<1>3. j \in 0 .. Width(abi, entered) - 1 /\ j + 1 \in 0 .. Width(abi, entered)
      /\ (j + 1 = Width(abi, entered) => entered = 2 * N + 1)
    BY <1>2
<1>4. pc' > pc
    BY <1>2
<1>5. pc' # buffer.pos => buffer.code[pc'].op \notin {"test_bc", "unwind"}
    <2>1. CASE j + 1 < Width(abi, entered)
        <3>1. j + 1 \in 0 .. Width(abi, entered) - 1 /\ j + 1 # 0
            BY <1>2, <2>1
        <3> QED
            BY <1>2, <3>1, Meeting
    <2>2. CASE j + 1 = Width(abi, entered)
        <3>1. pc' = buffer.pos
            BY <1>1, <1>2, <1>3, <2>2, SegmentEnds DEF Compiled
        <3> QED
            BY <3>1
    <2> QED
        BY <1>2, <1>3, <2>1, <2>2
<1>6. start' = start /\ budget' = budget /\ entered' = entered
    <2>1. ~(pc' < pc)
        BY <1>2
    <2> QED
        BY <1>5, <2>1 DEF HNext
<1>7. PICK s2, f2 : s2 = St' /\ f2 = zf'
    OBVIOUS
<1>8. /\ At(abi, program_list, entered, j + 1, s2, f2, start, budget)
      /\ entered # 0 => MemoryAt(entered, s2.stack) = MemoryAt(entered, St.stack)
    <2>1. At(abi, program_list, entered, j, St, zf, start, budget)
        BY DEF Place
    <2>2. Moves(isn, St, zf, s2, f2)
        BY <1>7
    <2> QED
        BY <1>1, <1>2, <1>3, <2>1, <2>2, AtMoves
<1>9. Place(abi', program_list', entered', j + 1, pc', St', zf', start', budget')
    BY <1>1, <1>2, <1>3, <1>6, <1>7, <1>8 DEF Place
<1> QED
    BY <1>1, <1>6, <1>7, <1>8, <1>9 DEF IInv

(* The registers the machine holds.                                        *)
LEMMA CurrentIs ==
    ASSUME NEW y, NEW rs \in Registers, Holds(y, rs)
    PROVE  Current(y) = rs
BY DEF Current, Holds, Registers

(* The branch is taken.                                                    *)
LEMMA Repeats ==
    ASSUME Compiled, HNext, entered \in Segment,
           NEW j, Place(abi, program_list, entered, j, pc, St, zf, start, budget),
           j < Width(abi, entered), isn.op = "jz", zf = TRUE, zf' = TRUE, St' = St,
           pc' = pc + isn.len - isn.back, UNCHANGED input,
           NEW mm, mm = MemoryAt(entered, St.stack),
           NEW p, p = ProgramOf(program_list, entered), NEW ph, ph = PhaseOf(entered)
    PROVE  /\ IInv' /\ entered \in 1 .. 2 * N /\ entered' = entered
           /\ Asked(p, start, ph, mm, budget)
           /\ budget' = budget - 1 /\ start' = Looped(p, start, ph, mm)
<1>1. /\ program_list' = program_list /\ abi' = abi /\ buffer' = buffer
      /\ program_list \in ProgramLists /\ abi \in Abi /\ Compiled'
    BY DEF Compiled, input
<1>2. /\ j \in 0 .. Width(abi, entered) - 1 /\ j \in Nat /\ Width(abi, entered) \in Nat
      /\ isn = Isn(abi, program_list, entered, j + 1) /\ pc \in Nat
    <2>1. /\ j \in Nat /\ Width(abi, entered) \in Nat \ {0}
          /\ isn = Isn(abi, program_list, entered, j + 1) /\ pc \in Nat
        BY Here
    <2> QED
        BY <2>1
<1>3. entered \in 1 .. 2 * N /\ j = Jump(entered)
    BY <1>1, <1>2, WhoWrites
<1>4. pc = Pos(abi, program_list, entered, j) /\ At(abi, program_list, entered, j, St, zf, start, budget)
    BY DEF Place
<1>5. pc' = Pos(abi, program_list, entered, 1) /\ pc' < pc
    <2>1. isn = [op |-> "jz", len |-> 2, back |-> Back(PhaseOf(entered))]
          /\ Pos(abi, program_list, entered, j) + 2 - isn.back = Pos(abi, program_list, entered, 1)
          /\ Pos(abi, program_list, entered, 1) < Pos(abi, program_list, entered, j)
        <3>1. PICK at : at = Isn(abi, program_list, entered, Jump(entered) + 1)
            OBVIOUS
        <3>2. /\ at = [op |-> "jz", len |-> 2, back |-> Back(PhaseOf(entered))]
              /\ Pos(abi, program_list, entered, Jump(entered)) + 2 - at.back
                    = Pos(abi, program_list, entered, 1)
              /\ Pos(abi, program_list, entered, 1) < Pos(abi, program_list, entered, Jump(entered))
            BY <1>1, <1>3, <3>1, JumpLands
        <3> QED
            BY <1>2, <1>3, <3>1, <3>2
    <2> QED
        BY <1>4, <2>1
<1>6. /\ start' = Current(x') /\ budget' = BranchLimit - x'[rbp] /\ entered' = entered
    <2>1. ~(pc' > pc) /\ ~(pc' >= pc)
        <3>1. Pos(abi, program_list, entered, 1) \in Nat
            <4>1. 1 \in 0 .. Width(abi, entered) - 1
                BY <1>2, <1>3 DEF Jump
            <4> QED
                BY <1>1, <4>1, Fetch
        <3> QED
            BY <1>2, <1>5, <3>1
    <2> QED
        BY <2>1 DEF HNext, NewPass
<1>7. PICK looped : looped = Looped(p, start, ph, mm)
    OBVIOUS
<1>8. /\ At(abi, program_list, entered, 1, St, zf, looped, budget - 1)
      /\ Asked(p, start, ph, mm, budget) /\ looped \in Registers
      /\ Holds(St.x, looped) /\ budget - 1 \in 0 .. BranchLimit
      /\ St.x[rbp] = BranchLimit - (budget - 1)
    <2>1. PICK f, s, e, rs, left : f = zf /\ s = St /\ e = entered /\ rs = start /\ left = budget
        OBVIOUS
    <2>2. /\ At(abi, program_list, e, j, s, f, rs, left) /\ Taken(f)
          /\ e \in 1 .. 2 * N /\ j = Jump(e) /\ mm = MemoryAt(e, s.stack)
          /\ p = ProgramOf(program_list, e) /\ ph = PhaseOf(e) /\ looped = Looped(p, rs, ph, mm)
        BY <1>3, <1>4, <1>7, <2>1 DEF Taken
    <2>3. /\ Asked(p, rs, ph, mm, left)
          /\ Returning(abi, program_list, e, s, f, Looped(p, rs, ph, mm), left)
        BY <1>1, <2>2, AtRepeats
    <2> QED
        BY <1>7, <2>1, <2>3 DEF Returning
<1>9. x' = St.x
    BY DEF St
<1>10. start' = looped
    BY <1>6, <1>8, <1>9, CurrentIs
<1>11. budget' = budget - 1
    <2>1. budget - 1 \in Int /\ BranchLimit \in Nat
        BY <1>8, SizesAssumption
    <2>2. BranchLimit - (BranchLimit - (budget - 1)) = budget - 1
        BY <2>1
    <2> QED
        BY <1>6, <1>8, <1>9, <2>2
<1>12. Place(abi', program_list', entered', 1, pc', St', zf', start', budget')
    <2>1. 1 \in 0 .. Width(abi, entered) /\ 1 # Width(abi, entered)
        BY <1>2, <1>3 DEF Jump
    <2> QED
        BY <1>1, <1>5, <1>6, <1>8, <1>10, <1>11, <2>1 DEF Place
<1>13. IInv'
    BY <1>1, <1>6, <1>12 DEF IInv
<1> QED
    BY <1>3, <1>6, <1>7, <1>8, <1>10, <1>11, <1>13

(* The last instruction of a segment.                                      *)
LEMMA Crosses ==
    ASSUME Compiled, HNext, entered \in 0 .. 2 * N,
           NEW j, Place(abi, program_list, entered, j, pc, St, zf, start, budget),
           j + 1 = Width(abi, entered), Moves(isn, St, zf, St', zf'), pc' = pc + isn.len,
           UNCHANGED input, NEW mm, mm = MemoryAt(entered, St.stack)
    PROVE  /\ IInv' /\ entered' = entered + 1
           /\ start' = EndOf(program_list, entered, start, mm) /\ budget' = LeftBy(entered, budget)
           /\ entered # 0 => Leaves(program_list, entered, St, St', start, mm, budget)
<1>0. N \in Nat \ {0} /\ entered \in Segment /\ entered + 1 \in Segment /\ entered + 1 # 0
    BY NIsNat DEF Segment
<1>1. /\ program_list' = program_list /\ abi' = abi /\ buffer' = buffer
      /\ program_list \in ProgramLists /\ abi \in Abi /\ Compiled'
    BY DEF Compiled, input
<1>2. j \in Nat /\ Width(abi, entered) \in Nat \ {0}
    BY <1>0, Here
<1>3. j < Width(abi, entered) /\ j = Width(abi, entered) - 1
    BY <1>2
<1>4. /\ isn = Isn(abi, program_list, entered, j + 1) /\ pc \in Nat /\ isn.len \in Nat \ {0}
      /\ pc' = Pos(abi, program_list, entered, j + 1)
    BY <1>0, <1>3, Here
<1>5. PICK g : g = entered + 1
    OBVIOUS
<1>6. pc' = Pos(abi, program_list, g, 0) /\ pc' > pc
    <2>1. entered # 2 * N + 1
        BY <1>0
    <2>2. Pos(abi, program_list, entered, Width(abi, entered)) = Pos(abi, program_list, entered + 1, 0)
        BY <1>0, <1>1, <2>1, SegmentEnds
    <2> QED
        BY <1>4, <1>5, <2>2
<1>7. g \in Segment /\ g # 0 /\ Width(abi, g) \in Nat \ {0} /\ 0 \in 0 .. Width(abi, g) - 1
      /\ 0 \in 0 .. Width(abi, g) /\ 0 # Width(abi, g)
    <2>1. Width(abi, g) \in Nat \ {0}
        BY <1>0, <1>1, <1>5, Widths
    <2> QED
        BY <1>0, <1>5, <2>1
<1>8. pc' # buffer.pos /\ buffer.code[pc'].op \in {"test_bc", "unwind"}
    BY <1>6, <1>7, Meeting
<1>9. start' = Current(x') /\ budget' = BranchLimit - x'[rbx] /\ entered' = g
    <2>1. ~(pc' < pc)
        BY <1>4
    <2> QED
        BY <1>5, <1>8, <2>1 DEF HNext, NewPass
<1>10. PICK s2, f2 : s2 = St' /\ f2 = zf'
    OBVIOUS
<1>11. PICK end, left2 : end = EndOf(program_list, entered, start, mm) /\ left2 = LeftBy(entered, budget)
    OBVIOUS
<1>12. /\ At(abi, program_list, entered + 1, 0, s2, f2, end, left2)
       /\ end \in Registers /\ Opening(s2, end, left2) /\ left2 \in 0 .. BranchLimit
       /\ entered # 0 => Leaves(program_list, entered, St, s2, start, mm, budget)
    <2>1. At(abi, program_list, entered, j, St, zf, start, budget)
        BY DEF Place
    <2>2. Moves(isn, St, zf, s2, f2)
        BY <1>10
    <2>3. /\ At(abi, program_list, entered + 1, 0, s2, f2, end, LeftBy(entered, budget))
          /\ end \in Registers /\ Opening(s2, end, LeftBy(entered, budget))
          /\ LeftBy(entered, budget) \in 0 .. BranchLimit
          /\ entered # 0 => Leaves(program_list, entered, St, s2, start, mm, budget)
        BY <1>1, <1>3, <1>4, <1>11, <2>1, <2>2, AtCrosses
    <2> QED
        BY <1>11, <2>3
<1>13. Holds(s2.x, end) /\ s2.x[rbx] = BranchLimit - left2 /\ x' = s2.x
    BY <1>10, <1>12 DEF Opening, St
<1>14. start' = end
    BY <1>9, <1>12, <1>13, CurrentIs
<1>15. budget' = left2
    <2>1. left2 \in Int /\ BranchLimit \in Nat
        BY <1>12, SizesAssumption
    <2>2. BranchLimit - (BranchLimit - left2) = left2
        BY <2>1
    <2> QED
        BY <1>9, <1>13, <2>2
<1>16. Place(abi', program_list', entered', 0, pc', St', zf', start', budget')
    BY <1>1, <1>5, <1>6, <1>7, <1>9, <1>10, <1>12, <1>14, <1>15 DEF Place
<1>17. IInv'
    BY <1>1, <1>7, <1>9, <1>16 DEF IInv
<1> QED
    BY <1>5, <1>9, <1>10, <1>11, <1>12, <1>14, <1>15, <1>17

-----------------------------------------------------------------------------
(* HashwxVM moves as the processor does.                                   *)

(* HashwxVM's operators on instructions are those of HashwxIsa.            *)
LEMMA SameOperators ==
    ASSUME NEW in, NEW rs, NEW s, NEW ph, NEW mm
    PROVE  /\ VM!Apply(in, rs, s) = Apply(in, rs, s)
           /\ VM!Second(in, rs, ph, mm) = Second(in, rs, ph, mm)
<1>1. \A o, d, i : VM!Mixed(o, d, i) = Mixed(o, d, i)
    BY DEF VM!Mixed, Mixed, VM!MULOR, VM!MULXOR, MULOR, MULXOR
<1>2. \A o, d, i : VM!Shifted(o, d, i) = Shifted(o, d, i)
    BY DEF VM!Shifted, Shifted, VM!XORROR, VM!SUBROR, VM!XORASR, VM!SUBASR, XORROR, SUBROR, XORASR, SUBASR
<1>3. \A o, d, i : VM!Combined(o, d, i) = Combined(o, d, i)
    BY DEF VM!Combined, Combined, VM!XORROR, VM!XORASR, VM!XORLSR, VM!ADDROR, VM!ADDASR, VM!ADDLSR,
           XORROR, XORASR, XORLSR, ADDROR, ADDASR, ADDLSR
<1>4. VM!MulOps = MulOps /\ VM!RMCG = RMCG
    BY DEF VM!MulOps, MulOps, VM!MULOR, MULOR, VM!MULADD, MULADD, VM!RMCG, RMCG
<1>5. \A o, d, i : VM!Operate(o, d, i, s) = Operate(o, d, i, s)
    BY <1>1, <1>2, <1>3, <1>4 DEF VM!Operate, Operate
<1> QED
    BY <1>4, <1>5 DEF VM!Apply, Apply, VM!Second, Second

(* What HashwxVM computes under the mapping.                               *)
LEMMA VmPass ==
    ASSUME NEW mm, mm = Memory, NEW ph, ph = Phase
    PROVE  LET p == program_list[Prog]
           IN  /\ VM!Pass = Looped(p, start, ph, mm)
               /\ VM!Flag = Flagged(p, start, ph, mm)
               /\ VM!Exec(8, VM!Pass) = Ended(p, start, ph, mm)
<1> DEFINE p == program_list[Prog]
<1>1. ASSUME NEW k, NEW rs PROVE VM!Exec(k, rs) = Do(p, k, rs, ph, mm)
    BY SameOperators DEF VM!Exec, Do
<1> HIDE DEF p
<1>2. VM!Pass = Looped(p, start, ph, mm)
    BY <1>1 DEF VM!Pass, Looped
<1>3. VM!Flag = Flagged(p, start, ph, mm)
    BY <1>1 DEF VM!Flag, Flagged, p
<1>4. VM!Exec(8, VM!Pass) = Ended(p, start, ph, mm)
    BY <1>1, <1>2 DEF Ended
<1> QED
    BY <1>2, <1>3, <1>4 DEF p

-----------------------------------------------------------------------------
(* The mapping at a segment.                                               *)
PhaseAt(e) == IF e <= N THEN "reg" ELSE IF e <= 2 * N THEN "mem" ELSE "done"
ProgAt(e) == IF e <= N THEN Done(e) ELSE Done(e) - N

(* The mapping is that of the segment entered last.                        *)
LEMMA MapsTo ==
    /\ entered \in Segment
           => Phase = PhaseAt(entered) /\ Prog = ProgAt(entered) /\ Memory = MemoryAt(entered, stack)
    /\ entered' \in Segment
           => Phase' = PhaseAt(entered') /\ Prog' = ProgAt(entered')
              /\ Memory' = MemoryAt(entered', stack')
<1>1. ASSUME entered \in Segment
      PROVE  Phase = PhaseAt(entered) /\ Prog = ProgAt(entered) /\ Memory = MemoryAt(entered, stack)
    <2>1. N = NumPrograms /\ N \in Nat \ {0} /\ entered \in 0 .. 2 * N + 1
        BY <1>1, NIsNat DEF Segment, N
    <2>2. Phase = PhaseAt(entered)
        BY <2>1 DEF Phase, Reached, PhaseAt
    <2>3. Prog = ProgAt(entered)
        BY <2>1, <2>2 DEF Prog, Reached, PhaseAt, ProgAt, Done
    <2>4. Phase = "reg" => Prog = Done(entered)
        BY <2>1, <2>2, <2>3 DEF ProgAt, PhaseAt
    <2>5. Phase = "reg" <=> entered <= N
        BY <2>1, <2>2 DEF PhaseAt
    <2>6. Memory = MemoryAt(entered, stack)
        BY <2>4, <2>5 DEF Memory, MemoryAt
    <2> QED
        BY <2>2, <2>3, <2>6
<1>2. ASSUME entered' \in Segment
      PROVE  Phase' = PhaseAt(entered') /\ Prog' = ProgAt(entered')
             /\ Memory' = MemoryAt(entered', stack')
    <2>1. PICK e, r : e = entered' /\ r = Reached'
        OBVIOUS
    <2>2. N = NumPrograms /\ N \in Nat \ {0} /\ e \in 0 .. 2 * N + 1
        BY <1>2, <2>1, NIsNat DEF Segment, N
    <2>3. r = Done(e)
        BY <2>1 DEF Reached, Done
    <2>4. Phase' = IF r = 2 * N THEN "done" ELSE IF r < N THEN "reg" ELSE "mem"
        BY <2>1, <2>2 DEF Phase
    <2>5. Phase' = PhaseAt(e)
        BY <2>2, <2>3, <2>4 DEF Done, PhaseAt
    <2>6. Prog' = IF Phase' = "reg" THEN r ELSE r - N
        BY <2>1, <2>2, <2>5 DEF Prog, PhaseAt
    <2>7. Prog' = ProgAt(e) /\ (Phase' = "reg" <=> e <= N) /\ (e <= N => Prog' = Done(e))
        BY <2>2, <2>3, <2>5, <2>6 DEF PhaseAt, ProgAt
    <2>8. Memory' = MemoryAt(e, stack')
        BY <2>7 DEF Memory, MemoryAt
    <2> QED
        BY <2>1, <2>5, <2>7, <2>8
<1> QED
    BY <1>1, <1>2

(* What a program stores at its end is what HashwxVM stores.               *)
LEMMA MemoryStored ==
    ASSUME NEW e \in 1 .. N, NEW g, NEW E, Stored(e, g, E)
    PROVE  MemoryAt(e + 1, g) = Store(MemoryAt(e, g), e - 1, E)
<1>1. N \in Nat \ {0} /\ e \in Nat /\ e <= N /\ MemSize = 8 * N /\ Top(e) = MemSize - 8 * (e - 1)
    BY NIsNat DEF MemSize, N, Top
<1>2. Done(e) = e - 1 /\ Done(e + 1) = e
    BY <1>1 DEF Done
<1>3. \A a \in 0 .. MemSize - 1 :
          a \in Block(e - 1) <=> a >= MemSize - 8 * e /\ a < MemSize - 8 * (e - 1)
    BY <1>1 DEF Block
<1>4. ASSUME NEW a \in 0 .. MemSize - 1, a \in Block(e - 1)
      PROVE  g[a] = E[MemSize - 1 - 8 * (e - 1) - a]
    <2>1. PICK i : i = Top(e) - a
        OBVIOUS
    <2>2. i \in 1 .. 8 /\ Top(e) - i = a /\ i - 1 = MemSize - 1 - 8 * (e - 1) - a
        BY <1>1, <1>3, <1>4, <2>1
    <2> QED
        BY <2>2 DEF Stored
<1>5. e = N => \A a \in 0 .. MemSize - 1 : a >= MemSize - 8 * e
    BY <1>1
<1>6. MemoryAt(e + 1, g) =
          [a \in 0 .. MemSize - 1 |-> IF a < MemSize - 8 * e THEN Uninit ELSE g[a]]
    <2>1. ASSUME NEW a \in 0 .. MemSize - 1
          PROVE  e + 1 <= N /\ a < MemSize - 8 * e <=> a < MemSize - 8 * e
        BY <1>1, <1>5
    <2> QED
        BY <1>2, <2>1 DEF MemoryAt
<1>7. MemoryAt(e, g) =
          [a \in 0 .. MemSize - 1 |-> IF a < MemSize - 8 * (e - 1) THEN Uninit ELSE g[a]]
    BY <1>1, <1>2 DEF MemoryAt
<1>8. ASSUME NEW a \in 0 .. MemSize - 1
      PROVE  (IF a < MemSize - 8 * e THEN Uninit ELSE g[a])
                 = IF a \in Block(e - 1) THEN E[MemSize - 1 - 8 * (e - 1) - a] ELSE MemoryAt(e, g)[a]
    <2>1. CASE a \in Block(e - 1)
        BY <1>1, <1>3, <1>4, <2>1
    <2>2. CASE a < MemSize - 8 * e
        BY <1>1, <1>3, <1>7, <2>2
    <2>3. CASE a >= MemSize - 8 * (e - 1)
        BY <1>1, <1>3, <1>7, <2>3
    <2> QED
        BY <1>1, <1>3, <2>1, <2>2, <2>3
<1> QED
    BY <1>6, <1>8 DEF Store

(* The code begins at the beginning of the buffer.                         *)
LEMMA PosBegins ==
    ASSUME NEW cv \in Abi, NEW list \in ProgramLists
    PROVE  Pos(cv, list, 0, 0) = 0
<1>1. PICK b, m : b = hashwx_compile_x86(cv, list) /\ m = Meet(cv, N, 2 * N + 2)
    OBVIOUS
<1>2. Laid(b, Code(cv, list), Offset(Code(cv, list)), m)
    BY <1>1, NIsNat, ListsListed, BufferLaid
<1>3. Offset(Code(cv, list))[1] = 0
    BY <1>2 DEF Laid, Spread
<1>4. Meet(cv, N, 0) + 0 + 1 = 1
    BY DEF Meet
<1> QED
    BY <1>3, <1>4 DEF Pos

(* The invariant holds when the function is called, and HashwxVM begins.   *)
LEMMA InitIInv == HInit => IInv /\ VM!Init
<1> SUFFICES ASSUME HInit PROVE IInv /\ VM!Init
    OBVIOUS
<1>0. /\ program_list \in ProgramLists /\ abi \in Abi
      /\ buffer = hashwx_compile_x86(abi, program_list)
      /\ pc = 0 /\ x = Entry(abi) /\ zf = Uninit
      /\ stack = [a \in 0 .. Depth - 1 |-> Uninit]
      /\ start = io /\ budget = BranchLimit /\ entered = 0
    BY DEF HInit, Init
<1>1. PICK draw \in Draws : io = FirstRegisters(draw)
    BY DEF HInit, Init
<1>2. Compiled /\ entered \in Segment
    BY <1>0, NIsNat DEF Compiled, Segment
<1>3. io \in Registers
    <2>1. \A r \in 0 .. 7 : draw[r] \in Word
        BY InputsAssumption DEF Dst
    <2>2. ASSUME NEW r \in Reg PROVE io[r] \in Word
        BY <1>1, <2>1, WordAssumption DEF FirstRegisters, Reg
    <2>3. io = [r \in Reg |-> io[r]]
        BY <1>1 DEF FirstRegisters
    <2> QED
        BY <2>2, <2>3 DEF Registers
<1>4. /\ Saves(abi) = Len(SavedRegs(abi)) /\ Saves(abi) \in {6, 8} /\ First(abi) \in {0, 1}
      /\ Depth = Deep(abi) /\ MemSize \in Nat
    <2>1. Saves(abi) \in {6, 8} /\ First(abi) \in {0, 1}
        BY <1>0, <1>2, Widths
    <2>2. Saves(abi) = Len(SavedRegs(abi))
        BY <1>0, SavedRegsAre DEF SavedIs
    <2> QED
        BY <2>1, <2>2, NIsNat DEF Depth, Saved, Deep, MemSize, N
<1>5. Typed(abi, 0, 0, St, zf)
    <2>1. DOMAIN x = 0 .. 15
        BY <1>0 DEF Entry
    <2>2. rsp = 4 /\ rcx = 1 /\ rdi = 7
        BY DEF rsp, rcx, rdi
    <2>3. x[rsp] = 8 * (MemSize + Len(SavedRegs(abi)))
        BY <1>0, <2>2 DEF Entry
    <2>4. Sp(abi, 0, 0) = Deep(abi)
        BY <1>4 DEF Sp
    <2> QED
        BY <1>0, <1>3, <1>4, <2>1, <2>3, <2>4 DEF Typed, St, Deep
<1>6. Entering(abi, 0, St, start, budget)
    <2>1. ASSUME NEW k \in 1 .. Saves(abi) PROVE x[SavedRegs(abi)[k]] = Caller[SavedRegs(abi)[k]]
        <3>1. PICK n : n = SavedRegs(abi)[k]
            OBVIOUS
        <3>2. n \in 0 .. 15 /\ n # rcx /\ n # rsp
            BY <1>0, <3>1, SavedDiffer
        <3>3. abi # "win" => n # rdi
            <4>1. CASE abi = "sysv"
                <5>1. SavedIs(abi) /\ Saves(abi) = 6 /\ k \in 1 .. 6
                    BY <1>0, <4>1, SavedRegsAre DEF Saves
                <5> QED
                    BY <3>1, <5>1 DEF SavedIs, rbx, rbp, rdi
            <4> QED
                BY <1>0, <4>1 DEF Abi
        <3>4. n # IF abi = "win" THEN rcx ELSE rdi
            BY <3>2, <3>3
        <3>5. \E q \in 1 .. Len(SavedRegs(abi)) : SavedRegs(abi)[q] = n
            BY <1>4, <3>1
        <3> QED
            BY <1>0, <3>1, <3>2, <3>4, <3>5 DEF Entry
    <2>2. \A k \in 1 .. Saves(abi) : ~(First(abi) + k <= 0)
        BY <1>4
    <2>3. \A k \in 1 .. 10 : ~(First(abi) + Saves(abi) + k <= 0)
        BY <1>4
    <2>4. 0 # First(abi) + Saves(abi) + 11
        BY <1>4
    <2> QED
        BY <1>0, <2>1, <2>2, <2>3, <2>4 DEF Entering, St
<1>7. At(abi, program_list, 0, 0, St, zf, start, budget)
    <2>1. ~(0 \in 1 .. 2 * N) /\ 0 # 2 * N + 1
        BY NIsNat
    <2>2. budget \in 0 .. BranchLimit
        BY <1>0, SizesAssumption
    <2> QED
        BY <1>0, <1>3, <1>5, <1>6, <2>1, <2>2 DEF At, Where
<1>8. Place(abi, program_list, entered, 0, pc, St, zf, start, budget)
    <2>1. Width(abi, 0) \in Nat \ {0}
        BY <1>0, <1>2, Widths
    <2>2. Pos(abi, program_list, 0, 0) = 0
        BY <1>0, <1>2, PosBegins
    <2> QED
        BY <1>0, <1>7, <2>1, <2>2 DEF Place
<1>9. IInv
    BY <1>2, <1>8 DEF IInv
<1>10. VM!Init
    <2>1. Phase = "reg" /\ Prog = 0 /\ Memory = MemoryAt(0, stack)
        BY <1>0, <1>2, NIsNat, MapsTo DEF PhaseAt, ProgAt, Done
    <2>2. Memory = [a \in 0 .. MemSize - 1 |-> Uninit]
        BY <2>1, NIsNat DEF MemoryAt, Done, MemSize, N
    <2>3. start = VM!FirstRegisters(draw)
        BY <1>0, <1>1 DEF FirstRegisters, VM!FirstRegisters, Reg, VM!Reg
    <2> QED
        BY <1>0, <1>1, <2>1, <2>2, <2>3 DEF VM!Init, VM!MemSize, MemSize
<1> QED
    BY <1>9, <1>10

(* HashwxVM does not move.                                                 *)
LEMMA Stutters ==
    ASSUME program_list' = program_list, start' = start, budget' = budget,
           Phase' = Phase, Prog' = Prog, Memory' = Memory
    PROVE  [VM!Next]_VM!vars
BY DEF VM!vars

(* The program the mapping names is that of the segment.                   *)
LEMMA SameProgram ==
    ASSUME entered \in 1 .. 2 * N
    PROVE  /\ Phase = PhaseOf(entered) /\ program_list[Prog] = ProgramOf(program_list, entered)
           /\ Memory = MemoryAt(entered, St.stack) /\ Phase # "done" /\ entered \in Segment
<1>1. N \in Nat \ {0} /\ entered \in Segment /\ entered # 0
    BY NIsNat DEF Segment
<1>2. Phase = PhaseAt(entered) /\ Prog = ProgAt(entered) /\ Memory = MemoryAt(entered, stack)
    BY <1>1, MapsTo
<1>3. Phase = PhaseOf(entered) /\ Phase # "done"
    BY <1>1, <1>2 DEF PhaseAt, PhaseOf
<1>4. Done(entered) = entered - 1
    BY <1>1 DEF Done
<1>5. program_list[Prog] = ProgramOf(program_list, entered)
    <2>1. CASE entered <= N
        BY <1>2, <1>4, <2>1 DEF ProgAt, ProgramOf
    <2>2. CASE ~(entered <= N)
        <3>1. entered - 1 - N = entered - N - 1
            BY <1>1
        <3> QED
            BY <1>2, <1>4, <2>2, <3>1 DEF ProgAt, ProgramOf
    <2> QED
        BY <2>1, <2>2
<1>6. St.stack = stack
    BY DEF St
<1> QED
    BY <1>1, <1>2, <1>3, <1>5, <1>6

(* A taken branch is a Loop of HashwxVM.                                   *)
LEMMA VMLoops ==
    ASSUME entered \in 1 .. 2 * N, program_list' = program_list, entered' = entered, St' = St,
           NEW mm, mm = MemoryAt(entered, St.stack),
           NEW p, p = ProgramOf(program_list, entered), NEW ph, ph = PhaseOf(entered),
           Asked(p, start, ph, mm, budget),
           budget' = budget - 1, start' = Looped(p, start, ph, mm)
    PROVE  VM!Loop
<1>1. /\ Phase = ph /\ program_list[Prog] = p /\ Memory = mm /\ Phase # "done"
      /\ entered \in Segment
    BY SameProgram
<1>2. Phase' = Phase /\ Prog' = Prog /\ Memory' = Memory
    <2>1. stack' = stack
        BY DEF St
    <2> QED
        BY <1>1, <2>1, MapsTo
<1>3. VM!Pass = Looped(p, start, ph, mm) /\ VM!Flag = Flagged(p, start, ph, mm)
    BY <1>1, VmPass
<1>4. VM!Again
    BY <1>3 DEF VM!Again, Asked
<1> QED
    BY <1>1, <1>2, <1>3, <1>4 DEF VM!Loop

(* The last instruction of a program of the first phase is a FinishReg.    *)
LEMMA VMFinishesReg ==
    ASSUME entered \in 1 .. N, program_list' = program_list, entered' = entered + 1,
           NEW mm, mm = MemoryAt(entered, St.stack), MemoryAt(entered, St'.stack) = mm,
           Leaves(program_list, entered, St, St', start, mm, budget),
           start' = EndOf(program_list, entered, start, mm), budget' = LeftBy(entered, budget)
    PROVE  VM!FinishReg
<1>0. N \in Nat \ {0} /\ N = NumPrograms /\ entered \in 1 .. 2 * N /\ entered # 0
      /\ entered + 1 \in Segment /\ entered <= N /\ entered \in Nat
    BY NIsNat DEF Segment, N
<1>1. PICK p, ph, E : p = ProgramOf(program_list, entered) /\ ph = PhaseOf(entered) /\ E = start'
    OBVIOUS
<1>2. /\ Phase = ph /\ program_list[Prog] = p /\ Memory = mm /\ ph = "reg"
      /\ entered \in Segment
    BY <1>0, <1>1, SameProgram DEF PhaseOf
<1>3. E = Ended(p, start, ph, mm) /\ ~Asked(p, start, ph, mm, budget) /\ Stored(entered, St'.stack, E)
    BY <1>0, <1>1 DEF EndOf, Leaves
<1>4. VM!Flag = Flagged(p, start, ph, mm) /\ VM!Exec(8, VM!Pass) = E
    BY <1>2, <1>3, VmPass
<1>5. ~VM!Again
    BY <1>3, <1>4 DEF VM!Again, Asked
<1>6. Prog = entered - 1
    BY <1>0, <1>2, MapsTo DEF ProgAt, Done
<1>7. /\ Phase' = PhaseAt(entered + 1) /\ Prog' = ProgAt(entered + 1)
      /\ Memory' = MemoryAt(entered + 1, stack')
    BY <1>0, MapsTo
<1>8. Memory' = VM!Store(Memory, Prog, start')
    <2>1. PICK g : g = St'.stack
        OBVIOUS
    <2>2. MemoryAt(entered + 1, g) = Store(MemoryAt(entered, g), entered - 1, E)
        BY <1>3, <2>1, MemoryStored
    <2>3. St'.stack = stack'
        BY DEF St
    <2>4. Memory' = Store(Memory, Prog, E)
        BY <1>2, <1>6, <1>7, <2>1, <2>2, <2>3
    <2>5. \A h, i, r : VM!Store(h, i, r) = Store(h, i, r)
        BY DEF VM!Store, Store, VM!Block, Block, VM!MemSize, MemSize
    <2> QED
        BY <1>1, <2>4, <2>5
<1>9. CASE entered < N
    <2>1. Phase' = "reg" /\ Prog' = Prog + 1 /\ budget' = budget /\ Prog < NumPrograms - 1
        BY <1>0, <1>6, <1>7, <1>9 DEF PhaseAt, ProgAt, Done, LeftBy
    <2> QED
        BY <1>1, <1>2, <1>4, <1>5, <1>8, <2>1 DEF VM!FinishReg
<1>10. CASE entered = N
    <2>1. Phase' = "mem" /\ Prog' = 0 /\ budget' = BranchLimit /\ Prog = NumPrograms - 1
        BY <1>0, <1>6, <1>7, <1>10 DEF PhaseAt, ProgAt, Done, LeftBy
    <2> QED
        BY <1>1, <1>2, <1>4, <1>5, <1>8, <2>1 DEF VM!FinishReg
<1> QED
    BY <1>0, <1>9, <1>10

(* The last instruction of a program of the second phase is a FinishMem.   *)
LEMMA VMFinishesMem ==
    ASSUME entered \in N + 1 .. 2 * N, program_list' = program_list, entered' = entered + 1,
           NEW mm, mm = MemoryAt(entered, St.stack),
           Leaves(program_list, entered, St, St', start, mm, budget),
           start' = EndOf(program_list, entered, start, mm), budget' = LeftBy(entered, budget)
    PROVE  VM!FinishMem
<1>0. N \in Nat \ {0} /\ N = NumPrograms /\ entered \in 1 .. 2 * N /\ entered # 0 /\ entered # N
      /\ entered + 1 \in Segment /\ ~(entered <= N) /\ ~(entered + 1 <= N) /\ entered \in Nat
    BY NIsNat DEF Segment, N
<1>1. PICK p, ph, E : p = ProgramOf(program_list, entered) /\ ph = PhaseOf(entered) /\ E = start'
    OBVIOUS
<1>2. /\ Phase = ph /\ program_list[Prog] = p /\ Memory = mm /\ ph = "mem"
      /\ entered \in Segment
    BY <1>0, <1>1, SameProgram DEF PhaseOf
<1>3. E = Ended(p, start, ph, mm) /\ ~Asked(p, start, ph, mm, budget) /\ St'.stack = St.stack
      /\ budget' = budget
    BY <1>0, <1>1 DEF EndOf, Leaves, LeftBy
<1>4. VM!Flag = Flagged(p, start, ph, mm) /\ VM!Exec(8, VM!Pass) = E
    BY <1>2, <1>3, VmPass
<1>5. ~VM!Again
    BY <1>3, <1>4 DEF VM!Again, Asked
<1>6. Prog = entered - 1 - N /\ Memory = MemoryAt(entered, stack)
    BY <1>0, <1>2, MapsTo DEF ProgAt, Done
<1>7. /\ Phase' = PhaseAt(entered + 1) /\ Prog' = ProgAt(entered + 1)
      /\ Memory' = MemoryAt(entered + 1, stack')
    BY <1>0, MapsTo
<1>8. Memory' = Memory
    <2>1. stack' = stack
        BY <1>3 DEF St
    <2>2. MemoryAt(entered + 1, stack) = MemoryAt(entered, stack)
        BY <1>0 DEF MemoryAt
    <2> QED
        BY <1>6, <1>7, <2>1, <2>2
<1>9. Prog' = Prog + 1 /\ Phase' = IF Prog = NumPrograms - 1 THEN "done" ELSE "mem"
    BY <1>0, <1>6, <1>7 DEF PhaseAt, ProgAt, Done
<1> QED
    BY <1>1, <1>2, <1>3, <1>4, <1>5, <1>8, <1>9 DEF VM!FinishMem

(* Every step keeps the invariant and is a step of HashwxVM or none.       *)
LEMMA NextIInv == IInv /\ [HNext]_hvars => IInv' /\ [VM!Next]_VM!vars
<1> SUFFICES ASSUME IInv, [HNext]_hvars PROVE IInv' /\ [VM!Next]_VM!vars
    OBVIOUS
<1>1. Compiled /\ entered \in Segment /\ N \in Nat \ {0} /\ entered \in 0 .. 2 * N + 1
    BY NIsNat DEF IInv, Segment
<1>2. PICK j : Place(abi, program_list, entered, j, pc, St, zf, start, budget)
    BY DEF IInv
<1>3. CASE UNCHANGED hvars
    <2>1. St' = St /\ Compiled'
        BY <1>1, <1>3 DEF hvars, vars, input, St, Compiled
    <2>2. IInv'
        BY <1>1, <1>2, <1>3, <2>1 DEF IInv, hvars, vars, input
    <2>3. Phase' = Phase /\ Prog' = Prog /\ Memory' = Memory
        BY <1>1, <1>3, MapsTo DEF hvars, vars
    <2> QED
        BY <1>3, <2>2, <2>3, Stutters DEF hvars, vars, input
<1>4. CASE HNext
    <2>1. /\ j \in 0 .. Width(abi, entered) /\ Width(abi, entered) \in Nat \ {0} /\ j \in Nat
          /\ j < Width(abi, entered) =>
                 Running /\ isn = Isn(abi, program_list, entered, j + 1)
          /\ j = Width(abi, entered) => ~Running /\ entered = 2 * N + 1
        BY <1>1, <1>2, Here
    <2>2. Next
        BY <1>4 DEF HNext
    <2>3. CASE j = Width(abi, entered)
        <3>1. ~Running
            BY <2>1, <2>3
        <3>2. Returned
            BY <2>2, <3>1 DEF Next, PushPop, Move, StoreBack, Arithmetic, Test, JumpTaken,
                              JumpNotTaken, Return, Op
        <3>3. UNCHANGED vars /\ pc' = buffer.pos /\ pc' = pc
            BY <3>1, <3>2 DEF Returned, vars, Running
        <3>4. UNCHANGED <<start, budget, entered>>
            <4>1. ~(pc' < pc) /\ ~(pc' > pc)
                <5>1. pc \in Nat
                    <6>1. pc = Pos(abi, program_list, entered, Width(abi, entered))
                        BY <1>2, <2>3 DEF Place
                    <6>2. PICK i : i = Width(abi, entered) - 1
                        OBVIOUS
                    <6>3. i \in 0 .. Width(abi, entered) - 1 /\ i + 1 = Width(abi, entered)
                        BY <2>1, <6>2
                    <6>4. Pos(abi, program_list, entered, i + 1) \in Nat
                        BY <1>1, <6>3, Fetch DEF Compiled
                    <6> QED
                        BY <6>1, <6>3, <6>4
                <5> QED
                    BY <3>3, <5>1
            <4> QED
                BY <1>4, <4>1 DEF HNext
        <3> QED
            BY <1>3, <3>3, <3>4 DEF hvars
    <2>4. ASSUME j < Width(abi, entered)
          PROVE  /\ Running /\ UNCHANGED input /\ program_list' = program_list
                 /\ \/ pc' = pc + isn.len /\ Moves(isn, St, zf, St', zf')
                    \/ /\ isn.op = "jz" /\ zf = TRUE /\ zf' = TRUE /\ St' = St
                       /\ pc' = pc + isn.len - isn.back
        <3>1. Running
            BY <2>1, <2>4
        <3> QED
            BY <2>2, <3>1, StepMoves DEF input
    <2>5. PICK mm : mm = MemoryAt(entered, St.stack)
        OBVIOUS
    <2>6. CASE /\ j < Width(abi, entered) /\ isn.op = "jz" /\ zf = TRUE /\ zf' = TRUE
               /\ St' = St /\ pc' = pc + isn.len - isn.back
        <3>1. PICK p, ph : p = ProgramOf(program_list, entered) /\ ph = PhaseOf(entered)
            OBVIOUS
        <3>2. /\ IInv' /\ entered \in 1 .. 2 * N /\ entered' = entered
              /\ Asked(p, start, ph, mm, budget)
              /\ budget' = budget - 1 /\ start' = Looped(p, start, ph, mm)
            BY <1>1, <1>2, <1>4, <2>4, <2>5, <2>6, <3>1, Repeats
        <3>3. VM!Loop
            BY <2>4, <2>5, <2>6, <3>1, <3>2, VMLoops
        <3> QED
            BY <3>2, <3>3 DEF VM!Next
    <2>7. CASE /\ j < Width(abi, entered) /\ pc' = pc + isn.len /\ Moves(isn, St, zf, St', zf')
               /\ j + 1 < Width(abi, entered) \/ entered = 2 * N + 1
        <3>1. /\ IInv' /\ start' = start /\ budget' = budget /\ entered' = entered
              /\ entered # 0 => MemoryAt(entered, St'.stack) = MemoryAt(entered, St.stack)
            BY <1>1, <1>2, <1>4, <2>4, <2>7, Within
        <3>2. St.stack = stack /\ St'.stack = stack'
            BY DEF St
        <3>3. MemoryAt(entered, stack') = MemoryAt(entered, stack)
            <4>1. CASE entered = 0
                <5>1. 0 <= N /\ Done(0) = 0 /\ \A a \in 0 .. MemSize - 1 : a < MemSize - 8 * 0
                    BY NIsNat DEF Done, MemSize, N
                <5> QED
                    BY <4>1, <5>1 DEF MemoryAt
            <4>2. CASE entered # 0
                BY <3>1, <3>2, <4>2
            <4> QED
                BY <4>1, <4>2
        <3>4. Phase' = Phase /\ Prog' = Prog /\ Memory' = Memory
            BY <1>1, <3>1, <3>3, MapsTo
        <3> QED
            BY <2>4, <2>7, <3>1, <3>4, Stutters
    <2>8. CASE /\ j + 1 = Width(abi, entered) /\ pc' = pc + isn.len /\ Moves(isn, St, zf, St', zf')
               /\ entered # 2 * N + 1
        <3>0. entered \in 0 .. 2 * N /\ j < Width(abi, entered) /\ j \in 0 .. Width(abi, entered) - 1
            BY <1>1, <2>1, <2>8
        <3>1. /\ IInv' /\ entered' = entered + 1
              /\ start' = EndOf(program_list, entered, start, mm) /\ budget' = LeftBy(entered, budget)
              /\ entered # 0 => Leaves(program_list, entered, St, St', start, mm, budget)
            BY <1>1, <1>2, <1>4, <2>4, <2>5, <2>8, <3>0, Crosses
        <3>2. CASE entered = 0
            <4>1. 1 \in Segment /\ entered' = 1 /\ 0 # N
                BY <1>1, <3>1, <3>2 DEF Segment
            <4>2. start' = start /\ budget' = budget
                BY <3>1, <3>2, <4>1 DEF EndOf, LeftBy
            <4>3. Phase = "reg" /\ Prog = 0 /\ Phase' = "reg" /\ Prog' = 0
                BY <1>1, <3>2, <4>1, MapsTo DEF PhaseAt, ProgAt, Done
            <4>4. \A g : MemoryAt(0, g) = [a \in 0 .. MemSize - 1 |-> Uninit]
                BY NIsNat DEF MemoryAt, Done, MemSize, N
            <4>5. \A g : MemoryAt(1, g) = [a \in 0 .. MemSize - 1 |-> Uninit]
                BY NIsNat DEF MemoryAt, Done, MemSize, N
            <4>6. Memory = MemoryAt(0, stack) /\ Memory' = MemoryAt(1, stack')
                BY <1>1, <3>2, <4>1, MapsTo
            <4>7. Memory' = Memory
                BY <4>4, <4>5, <4>6
            <4> QED
                BY <2>4, <3>0, <3>1, <4>2, <4>3, <4>7, Stutters
        <3>3. CASE entered \in 1 .. N
            <4>1. MemoryAt(entered, St'.stack) = mm
                <5>1. /\ entered \in Segment \ {0} /\ Typed(abi, entered, j, St, zf)
                      /\ Sheltered(abi, entered, St, start)
                    BY <1>1, <1>2, <3>3 DEF Place, At
                <5>2. program_list \in ProgramLists /\ abi \in Abi
                      /\ isn = Isn(abi, program_list, entered, j + 1)
                    BY <1>1, <2>1, <3>0 DEF Compiled
                <5> QED
                    BY <2>5, <2>8, <3>0, <5>1, <5>2, ShelteredMoves
            <4>2. Leaves(program_list, entered, St, St', start, mm, budget)
                BY <3>1, <3>3
            <4>3. VM!FinishReg
                BY <2>4, <2>5, <3>0, <3>1, <3>3, <4>1, <4>2, VMFinishesReg
            <4> QED
                BY <3>1, <4>3 DEF VM!Next
        <3>4. CASE entered \in N + 1 .. 2 * N
            <4>1. Leaves(program_list, entered, St, St', start, mm, budget)
                BY <1>1, <3>1, <3>4
            <4>2. VM!FinishMem
                BY <2>4, <2>5, <3>0, <3>1, <3>4, <4>1, VMFinishesMem
            <4> QED
                BY <3>1, <4>2 DEF VM!Next
        <3> QED
            BY <1>1, <3>0, <3>2, <3>3, <3>4
    <2>9. j = Width(abi, entered) \/ j < Width(abi, entered)
        BY <2>1
    <2>10. j < Width(abi, entered) => j + 1 < Width(abi, entered) \/ j + 1 = Width(abi, entered)
        BY <2>1
    <2>11. CASE j < Width(abi, entered)
        BY <2>4, <2>6, <2>7, <2>8, <2>10, <2>11
    <2> QED
        BY <2>3, <2>9, <2>11
<1> QED
    BY <1>3, <1>4

-----------------------------------------------------------------------------
(* The theorems.                                                           *)

(* The code has come to its end.                                           *)
LEMMA AtTheEnd ==
    ASSUME IInv, ~Running
    PROVE  /\ Leaving(abi, Saves(abi) + 10, St, start) /\ Saves(abi) \in {6, 8} /\ abi \in Abi
           /\ x[rsp] = 8 * Deep(abi)
           /\ io[8] = start[8] /\ io[9] = start[9]
<1>1. Compiled /\ entered \in Segment /\ abi \in Abi /\ N \in Nat \ {0}
    BY NIsNat DEF IInv, Compiled
<1>2. PICK j : Place(abi, program_list, entered, j, pc, St, zf, start, budget)
    BY DEF IInv
<1>3. j = Width(abi, entered) /\ entered = 2 * N + 1
    <2>1. /\ j \in 0 .. Width(abi, entered) /\ Width(abi, entered) \in Nat \ {0} /\ j \in Nat
          /\ j < Width(abi, entered) => Running
          /\ j = Width(abi, entered) => entered = 2 * N + 1
        BY <1>1, <1>2, Here
    <2> QED
        BY <2>1
<1>4. Width(abi, entered) = Saves(abi) + 10 /\ Saves(abi) \in {6, 8}
    BY <1>1, <1>3, Widths
<1>5. /\ At(abi, program_list, entered, j, St, zf, start, budget) /\ entered # 0
      /\ ~(entered <= N) /\ ~(entered <= 2 * N)
    BY <1>1, <1>2, <1>3 DEF Place
<1>6. Leaving(abi, j, St, start)
    BY <1>3, <1>5 DEF At, Where
<1>7. x[rsp] = 8 * Deep(abi)
    <2>1. Sp(abi, entered, j) = Deep(abi)
        BY <1>3, <1>4, <1>5 DEF Sp
    <2>2. St.x[rsp] = 8 * Sp(abi, entered, j)
        BY <1>5 DEF At, Typed
    <2> QED
        BY <2>1, <2>2 DEF St
<1>8. io[8] = start[8] /\ io[9] = start[9]
    <2>1. Sheltered(abi, entered, St, start)
        BY <1>5 DEF At
    <2> QED
        BY <2>1 DEF Sheltered, St
<1> QED
    BY <1>1, <1>3, <1>4, <1>6, <1>7, <1>8

(* The cells of the stack are those of the machine.                        *)
LEMMA DepthIs ==
    ASSUME abi \in Abi
    PROVE  Depth = Deep(abi) /\ Saved = Saves(abi)
BY SavedRegsAre DEF SavedIs, Depth, Saved, Deep

(* The invariant types the machine.                                        *)
LEMMA TypeHolds == IInv => TypeOK
<1> SUFFICES ASSUME IInv PROVE TypeOK
    OBVIOUS
<1>1. Compiled /\ entered \in Segment /\ abi \in Abi /\ program_list \in ProgramLists
    BY DEF IInv, Compiled
<1>2. PICK j : Place(abi, program_list, entered, j, pc, St, zf, start, budget)
    BY DEF IInv
<1>3. j \in 0 .. Width(abi, entered)
    BY <1>1, <1>2, Here
<1>4. pc \in DOMAIN buffer.code \cup {buffer.pos}
    <2>1. CASE j < Width(abi, entered)
        BY <1>1, <1>2, <2>1, Here
    <2>2. CASE j = Width(abi, entered)
        <3>1. ~Running
            BY <1>1, <1>2, <2>2, Here
        <3> QED
            BY <3>1 DEF Running
    <2>3. j < Width(abi, entered) \/ j = Width(abi, entered)
        <3>1. j \in Nat /\ Width(abi, entered) \in Nat
            BY <1>1, <1>2, Here
        <3> QED
            BY <1>3, <3>1
    <2> QED
        BY <2>1, <2>2, <2>3
<1>5. Typed(abi, entered, j, St, zf)
    BY <1>2 DEF Place, At
<1>6. x[rsp] \in {8 * a : a \in 0 .. Depth}
    <2>1. Sp(abi, entered, j) \in 0 .. Deep(abi)
        BY <1>1, <1>3, SpTyped
    <2>2. x[rsp] = 8 * Sp(abi, entered, j)
        BY <1>5 DEF Typed, St
    <2> QED
        BY <1>1, <2>1, <2>2, DepthIs
<1>7. /\ DOMAIN x = 0 .. 15 /\ zf \in BOOLEAN \cup {Uninit}
      /\ DOMAIN stack = 0 .. Depth - 1 /\ io \in Registers
    BY <1>1, <1>5, DepthIs DEF Typed, St
<1> QED
    BY <1>1, <1>4, <1>6, <1>7 DEF TypeOK

(* TypeOK: the processor fetches at the first byte of an instruction, and  *)
(* the stack pointer stays in the cells of this call.                      *)
THEOREM TypeCorrect == HSpec => []TypeOK
<1> QED
    BY InitIInv, NextIInv, TypeHolds, PTL DEF HSpec

(* ConventionKept: in either convention, whatever the programs, the        *)
(* function gives the caller its stack pointer and the registers it must   *)
(* keep.                                                                   *)
THEOREM ConventionAlwaysKept == HSpec => []ConventionKept
<1>1. IInv => ConventionKept
    <2> SUFFICES ASSUME IInv, ~Running
                 PROVE  x[rsp] = 8 * Depth /\ \A n \in CalleeSaved : x[n] = Caller[n]
        BY DEF ConventionKept
    <2>1. /\ Leaving(abi, Saves(abi) + 10, St, start) /\ Saves(abi) \in {6, 8} /\ abi \in Abi
          /\ x[rsp] = 8 * Deep(abi)
        BY AtTheEnd
    <2>2. Depth = Deep(abi) /\ Saved = Saves(abi)
        BY <2>1, DepthIs
    <2>3. ASSUME NEW i \in 1 .. Saves(abi) PROVE x[SavedRegs(abi)[i]] = Caller[SavedRegs(abi)[i]]
        <3>1. PICK k : k = Saves(abi) + 1 - i
            OBVIOUS
        <3>2. k \in 1 .. Saves(abi) /\ 9 + k <= Saves(abi) + 10 /\ Saves(abi) + 1 - k = i
            BY <2>1, <3>1
        <3>3. St.x[SavedRegs(abi)[Saves(abi) + 1 - k]] = Caller[SavedRegs(abi)[Saves(abi) + 1 - k]]
            BY <2>1, <3>2 DEF Leaving
        <3> QED
            BY <3>2, <3>3 DEF St
    <2> QED
        BY <2>1, <2>2, <2>3 DEF CalleeSaved
<1> QED
    BY <1>1, InitIInv, NextIInv, PTL DEF HSpec

(* ResultReturned: whatever the programs, the word and its primitives, the *)
(* caller finds in r[] the registers the last pass left.                   *)
THEOREM ResultCorrect == HSpec => []ResultReturned
<1>1. IInv => ResultReturned
    <2> SUFFICES ASSUME IInv, ~Running, NEW q \in Reg PROVE io[q] = start[q]
        BY DEF ResultReturned
    <2>1. /\ Leaving(abi, Saves(abi) + 10, St, start) /\ Saves(abi) \in {6, 8}
          /\ io[8] = start[8] /\ io[9] = start[9]
        BY AtTheEnd
    <2>2. CASE q \in 0 .. 7
        <3>1. PICK k : k = q + 1
            OBVIOUS
        <3>2. k \in 1 .. 8 /\ 1 + k <= Saves(abi) + 10 /\ k - 1 = q
            BY <2>1, <2>2, <3>1
        <3>3. St.io[k - 1] = start[k - 1]
            BY <2>1, <3>2 DEF Leaving
        <3> QED
            BY <3>2, <3>3 DEF St
    <2> QED
        BY <2>1, <2>2 DEF Reg
<1> QED
    BY <1>1, InitIInv, NextIInv, PTL DEF HSpec

(* Implements: whatever the programs, the compiled function runs the       *)
(* passes HashwxVM runs, a pass for a step.                                *)
THEOREM Refinement == HSpec => Implements
<1> QED
    BY InitIInv, NextIInv, PTL DEF HSpec, Implements, VM!Spec
===============================================================================
