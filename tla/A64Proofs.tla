------------------------------ MODULE A64Proofs -------------------------------
(***************************************************************************)
(* Proofs about the code of compiler_a64.c and the processor running it,   *)
(* for any word, any primitives and any number of programs: where its      *)
(* instructions are, what each of them does, that the order the compiler   *)
(* gives the instructions of a pass computes what HashwxVM computes, and   *)
(* so the inductive invariant IInv, which says how far a run of the        *)
(* segment entered last has come.                                          *)
(***************************************************************************)
EXTENDS A64Machine, LibraryProofs

-----------------------------------------------------------------------------
(* Where the instructions of the function are.                             *)

(* How long the pieces of a program are.                                   *)
LEMMA RegPassIs == \A p : Listing(reg_pass(p), 18) /\ Len(reg_pass(p)) = 18
BY DEF Listing, reg_pass

LEMMA RegEndIs == \A p : Listing(reg_end(p), 6)
BY DEF Listing, reg_end

LEMMA MemPassIs == \A p : Listing(mem_pass(p), 31) /\ Len(mem_pass(p)) = 31
BY DEF Listing, mem_pass

(* A program of the first phase: what is at each place of its code.        *)
LEMMA RegCode ==
    ASSUME NEW p
    PROVE  LET c == compile_program_reg(p)
           IN  /\ Listing(c, 26)
               /\ c[1] = Sp(-64)
               /\ \A o \in 1 .. 18 : c[1 + o] = reg_pass(p)[o]
               /\ c[20] = [op |-> "beq", back |-> 18]
               /\ \A o \in 1 .. 6 : c[20 + o] = reg_end(p)[o]
<1> DEFINE a == <<Sp(-64)>>
           b == <<emit_beq(1 + Len(reg_pass(p)), 1)>>
<1>1. Listing(a, 1) /\ a[1] = Sp(-64)
    BY DEF Listing
<1>2. Listing(b, 1) /\ b[1] = [op |-> "beq", back |-> 18]
    <2>1. (1 + Len(reg_pass(p))) - 1 = 18
        BY RegPassIs
    <2>2. b[1] = [op |-> "beq", back |-> 18]
        BY <2>1 DEF emit_beq
    <2> QED
        BY <2>2 DEF Listing
<1>3. compile_program_reg(p) = ((a \o reg_pass(p)) \o b) \o reg_end(p)
    BY DEF compile_program_reg
<1> HIDE DEF a, b
<1>4. Appended(a, 1, reg_pass(p), 18)
    BY <1>1, RegPassIs, Concat
<1>5. Appended(a \o reg_pass(p), 19, b, 1)
    <2>1. Listing(a \o reg_pass(p), 19)
        BY <1>4 DEF Appended
    <2> QED
        BY <1>2, <2>1, Concat
<1>6. Appended((a \o reg_pass(p)) \o b, 20, reg_end(p), 6)
    <2>1. Listing((a \o reg_pass(p)) \o b, 20)
        BY <1>5 DEF Appended
    <2> QED
        BY <2>1, RegEndIs, Concat
<1>7. /\ Listing(compile_program_reg(p), 26)
      /\ \A i \in 1 .. 20 : compile_program_reg(p)[i] = ((a \o reg_pass(p)) \o b)[i]
      /\ \A i \in 1 .. 6 : compile_program_reg(p)[20 + i] = reg_end(p)[i]
    <2>1. 20 + 6 = 26
        OBVIOUS
    <2> QED
        BY <1>3, <1>6, <2>1 DEF Appended
<1>8. /\ \A i \in 1 .. 19 : ((a \o reg_pass(p)) \o b)[i] = (a \o reg_pass(p))[i]
      /\ ((a \o reg_pass(p)) \o b)[20] = b[1]
    <2>1. 19 + 1 = 20 /\ 1 \in 1 .. 1
        OBVIOUS
    <2> QED
        BY <1>5, <2>1 DEF Appended
<1>9. /\ (a \o reg_pass(p))[1] = a[1]
      /\ \A i \in 1 .. 18 : (a \o reg_pass(p))[1 + i] = reg_pass(p)[i]
    <2>1. 1 \in 1 .. 1
        OBVIOUS
    <2> QED
        BY <1>4, <2>1 DEF Appended
<1> DEFINE c == compile_program_reg(p)
           u == (a \o reg_pass(p)) \o b
           v == a \o reg_pass(p)
<1> HIDE DEF c, u, v
<1>10. \A i \in 1 .. 20 : c[i] = u[i]
    BY <1>7 DEF c, u
<1>11. (\A i \in 1 .. 19 : u[i] = v[i]) /\ u[20] = b[1]
    BY <1>8 DEF u, v
<1>12. v[1] = a[1] /\ \A i \in 1 .. 18 : v[1 + i] = reg_pass(p)[i]
    BY <1>9 DEF v
<1>13. c[1] = a[1] /\ c[20] = b[1]
    BY <1>10, <1>11, <1>12
<1>14. ASSUME NEW o \in 1 .. 18 PROVE c[1 + o] = reg_pass(p)[o]
    <2>1. 1 + o \in 1 .. 19 /\ 1 + o \in 1 .. 20
        OBVIOUS
    <2> QED
        BY <1>10, <1>11, <1>12, <2>1
<1> QED
    BY <1>1, <1>2, <1>7, <1>13, <1>14 DEF c

(* A program of the second phase, the same.                                *)
LEMMA MemCode ==
    ASSUME NEW p
    PROVE  LET c == compile_program_mem(p)
           IN  /\ Listing(c, 34)
               /\ \A o \in 1 .. 31 : c[o] = mem_pass(p)[o]
               /\ c[32] = [op |-> "beq", back |-> 31]
               /\ c[33] = emit_pre_xas(p[8])
               /\ c[34] = emit_xas(p[8], 17)
<1> DEFINE b == <<emit_beq(Len(mem_pass(p)), 0)>>
<1>1. Listing(mem_end(p), 2) /\ mem_end(p)[1] = emit_pre_xas(p[8]) /\ mem_end(p)[2] = emit_xas(p[8], 17)
    BY DEF Listing, mem_end
<1>2. Listing(b, 1) /\ b[1] = [op |-> "beq", back |-> 31]
    <2>1. Len(mem_pass(p)) - 0 = 31
        BY MemPassIs
    <2>2. b[1] = [op |-> "beq", back |-> 31]
        BY <2>1 DEF emit_beq
    <2> QED
        BY <2>2 DEF Listing
<1>3. compile_program_mem(p) = (mem_pass(p) \o b) \o mem_end(p)
    BY DEF compile_program_mem
<1> HIDE DEF b
<1>4. Appended(mem_pass(p), 31, b, 1)
    BY <1>2, MemPassIs, Concat
<1>5. Appended(mem_pass(p) \o b, 32, mem_end(p), 2)
    <2>1. Listing(mem_pass(p) \o b, 32)
        BY <1>4 DEF Appended
    <2> QED
        BY <1>1, <2>1, Concat
<1> DEFINE c == compile_program_mem(p)
           u == mem_pass(p) \o b
<1> HIDE DEF c, u
<1>6. Appended(u, 32, mem_end(p), 2) /\ c = u \o mem_end(p) /\ Appended(mem_pass(p), 31, b, 1)
    BY <1>3, <1>4, <1>5 DEF c, u
<1>7. /\ Listing(c, 34)
      /\ \A i \in 1 .. 32 : c[i] = u[i]
      /\ c[33] = mem_end(p)[1]
      /\ c[34] = mem_end(p)[2]
    <2>1. 32 + 2 = 34 /\ 32 + 1 = 33 /\ 1 \in 1 .. 2 /\ 2 \in 1 .. 2
        OBVIOUS
    <2> QED
        BY <1>6, <2>1 DEF Appended
<1>8. /\ \A i \in 1 .. 31 : u[i] = mem_pass(p)[i]
      /\ u[32] = b[1]
    <2>1. 31 + 1 = 32 /\ 1 \in 1 .. 1
        OBVIOUS
    <2> QED
        BY <1>6, <2>1 DEF Appended, u
<1>9. c[32] = b[1] /\ \A o \in 1 .. 31 : c[o] = mem_pass(p)[o]
    BY <1>7, <1>8
<1> QED
    BY <1>1, <1>2, <1>7, <1>9 DEF c

(* The five sections of the function c, for m programs.                    *)
Sections(c, programs, m) ==
    /\ Listing(c, 16 + 60 * m) /\ Len(c) = 16 + 60 * m
    /\ \A o \in 1 .. 9 : c[o] = code_prologue[o]
    /\ \A k \in 1 .. m, o \in 1 .. 26 :
          c[9 + 26 * (k - 1) + o] = compile_program_reg(programs[k - 1])[o]
    /\ c[10 + 26 * m] = Mov(9, N(0))
    /\ \A k \in 1 .. m, o \in 1 .. 34 :
          c[10 + 26 * m + 34 * (k - 1) + o] = compile_program_mem(programs[k - 1])[o]
    /\ \A o \in 1 .. 6 : c[10 + 60 * m + o] = code_epilogue[o]

(* The function is its sections one after the other.                       *)
LEMMA FunctionCode ==
    ASSUME NEW programs, NEW n \in Nat \ {0}
    PROVE  Sections(hashwx_compile_a64(programs, n), programs, n)
<1> DEFINE regs == [k \in 1 .. n |-> compile_program_reg(programs[k - 1])]
           mems == [k \in 1 .. n |-> compile_program_mem(programs[k - 1])]
           R == FlattenSeq(regs)
           M == FlattenSeq(mems)
           a == code_prologue \o R
           b == a \o code_clear_bc
           d == b \o M
<1>1. Listing(code_prologue, 9) /\ Listing(code_epilogue, 6) /\ Listing(code_clear_bc, 1)
      /\ code_clear_bc[1] = Mov(9, N(0))
    BY DEF Listing, code_prologue, code_epilogue, code_clear_bc
<1>2. Blocks(regs, n, 26)
    <2>1. \A k \in 1 .. n : regs[k] = compile_program_reg(programs[k - 1])
        OBVIOUS
    <2>2. Listing(regs, n)
        BY DEF Listing
    <2> HIDE DEF regs
    <2> QED
        BY <2>1, <2>2, RegCode DEF Blocks
<1>3. Blocks(mems, n, 34)
    <2>1. \A k \in 1 .. n : mems[k] = compile_program_mem(programs[k - 1])
        OBVIOUS
    <2>2. Listing(mems, n)
        BY DEF Listing
    <2> HIDE DEF mems
    <2> QED
        BY <2>1, <2>2, MemCode DEF Blocks
<1>4. /\ Listing(R, 26 * n)
      /\ \A k \in 1 .. n, o \in 1 .. 26 :
            R[26 * (k - 1) + o] = compile_program_reg(programs[k - 1])[o]
    <2>1. /\ Listing(R, n * 26)
          /\ \A k \in 1 .. n, o \in 1 .. 26 : R[(k - 1) * 26 + o] = regs[k][o]
        <3> HIDE DEF regs
        <3>1. Flattened(FlattenSeq(regs), regs, n, 26)
            BY <1>2, FlattenSeqBlocks
        <3> QED
            BY <3>1 DEF Flattened
    <2>2. n * 26 = 26 * n /\ \A k \in 1 .. n : (k - 1) * 26 = 26 * (k - 1)
        OBVIOUS
    <2>3. \A k \in 1 .. n : regs[k] = compile_program_reg(programs[k - 1])
        OBVIOUS
    <2> HIDE DEF regs, R
    <2> QED
        BY <2>1, <2>2, <2>3
<1>5. /\ Listing(M, 34 * n)
      /\ \A k \in 1 .. n, o \in 1 .. 34 :
            M[34 * (k - 1) + o] = compile_program_mem(programs[k - 1])[o]
    <2>1. /\ Listing(M, n * 34)
          /\ \A k \in 1 .. n, o \in 1 .. 34 : M[(k - 1) * 34 + o] = mems[k][o]
        <3> HIDE DEF mems
        <3>1. Flattened(FlattenSeq(mems), mems, n, 34)
            BY <1>3, FlattenSeqBlocks
        <3> QED
            BY <3>1 DEF Flattened
    <2>2. n * 34 = 34 * n /\ \A k \in 1 .. n : (k - 1) * 34 = 34 * (k - 1)
        OBVIOUS
    <2>3. \A k \in 1 .. n : mems[k] = compile_program_mem(programs[k - 1])
        OBVIOUS
    <2> HIDE DEF mems, M
    <2> QED
        BY <2>1, <2>2, <2>3
<1>6. hashwx_compile_a64(programs, n) = d \o code_epilogue
    BY DEF hashwx_compile_a64
<1> HIDE DEF regs, mems, R, M
<1>7. Appended(code_prologue, 9, R, 26 * n)
    BY <1>1, <1>4, Concat
<1> HIDE DEF a
<1>8. Listing(a, 9 + 26 * n) /\ Appended(a, 9 + 26 * n, code_clear_bc, 1)
    <2>1. Listing(a, 9 + 26 * n)
        BY <1>7 DEF Appended, a
    <2> QED
        BY <1>1, <2>1, Concat
<1> HIDE DEF b
<1>9. Listing(b, 10 + 26 * n) /\ Appended(b, 10 + 26 * n, M, 34 * n)
    <2>1. Listing(b, 10 + 26 * n)
        <3>1. Listing(b, 9 + 26 * n + 1) /\ 9 + 26 * n + 1 = 10 + 26 * n
            BY <1>8 DEF Appended, b
        <3> QED
            BY <3>1
    <2> QED
        BY <1>5, <2>1, Concat
<1> HIDE DEF d
<1>10. Listing(d, 10 + 60 * n) /\ Appended(d, 10 + 60 * n, code_epilogue, 6)
    <2>1. Listing(d, 10 + 60 * n)
        <3>1. Listing(d, 10 + 26 * n + 34 * n) /\ 10 + 26 * n + 34 * n = 10 + 60 * n
            BY <1>9 DEF Appended, d
        <3> QED
            BY <3>1
    <2> QED
        BY <1>1, <2>1, Concat
<1> DEFINE c == hashwx_compile_a64(programs, n)
<1>11. /\ Listing(c, 16 + 60 * n) /\ Len(c) = 16 + 60 * n
       /\ \A i \in 1 .. 10 + 60 * n : c[i] = d[i]
       /\ \A o \in 1 .. 6 : c[10 + 60 * n + o] = code_epilogue[o]
    <2>1. 10 + 60 * n + 6 = 16 + 60 * n
        OBVIOUS
    <2> QED
        BY <1>6, <1>10, <2>1 DEF Appended
<1> HIDE DEF c
<1>12. /\ \A i \in 1 .. 10 + 26 * n : d[i] = b[i]
       /\ \A i \in 1 .. 34 * n : d[10 + 26 * n + i] = M[i]
    BY <1>9 DEF Appended, d
<1>13. /\ \A i \in 1 .. 9 + 26 * n : b[i] = a[i]
       /\ b[9 + 26 * n + 1] = Mov(9, N(0))
    <2>1. 1 \in 1 .. 1
        OBVIOUS
    <2> QED
        BY <1>1, <1>8, <2>1 DEF Appended, b
<1>14. /\ \A i \in 1 .. 9 : a[i] = code_prologue[i]
       /\ \A i \in 1 .. 26 * n : a[9 + i] = R[i]
    BY <1>7 DEF Appended, a
<1>15. \A o \in 1 .. 9 : c[o] = code_prologue[o]
    <2>1. \A o \in 1 .. 9 : o \in 1 .. 10 + 60 * n /\ o \in 1 .. 10 + 26 * n /\ o \in 1 .. 9 + 26 * n
        OBVIOUS
    <2> QED
        BY <1>11, <1>12, <1>13, <1>14, <2>1
<1>16. ASSUME NEW k \in 1 .. n, NEW o \in 1 .. 26
       PROVE  c[9 + 26 * (k - 1) + o] = compile_program_reg(programs[k - 1])[o]
    <2>1. 26 * (k - 1) + o \in 1 .. 26 * n
        OBVIOUS
    <2>2. a[9 + (26 * (k - 1) + o)] = R[26 * (k - 1) + o]
        BY <1>14, <2>1
    <2>3. 9 + (26 * (k - 1) + o) = 9 + 26 * (k - 1) + o /\ 9 + 26 * (k - 1) + o \in 1 .. 9 + 26 * n
        BY <2>1
    <2>4. 9 + 26 * (k - 1) + o \in 1 .. 10 + 26 * n /\ 9 + 26 * (k - 1) + o \in 1 .. 10 + 60 * n
        BY <2>3
    <2>5. PICK q : q = 9 + 26 * (k - 1) + o
        OBVIOUS
    <2>6. q \in 1 .. 9 + 26 * n /\ q \in 1 .. 10 + 26 * n /\ q \in 1 .. 10 + 60 * n
        BY <2>3, <2>4, <2>5
    <2>7. c[q] = a[q]
        BY <1>11, <1>12, <1>13, <2>6
    <2>8. a[q] = R[26 * (k - 1) + o]
        BY <2>2, <2>3, <2>5
    <2> QED
        BY <1>4, <2>5, <2>7, <2>8
<1>17. c[10 + 26 * n] = Mov(9, N(0))
    <2>1. 9 + 26 * n + 1 = 10 + 26 * n /\ 10 + 26 * n \in 1 .. 10 + 26 * n
          /\ 10 + 26 * n \in 1 .. 10 + 60 * n
        OBVIOUS
    <2> QED
        BY <1>11, <1>12, <1>13, <2>1
<1>18. ASSUME NEW k \in 1 .. n, NEW o \in 1 .. 34
       PROVE  c[10 + 26 * n + 34 * (k - 1) + o] = compile_program_mem(programs[k - 1])[o]
    <2>1. 34 * (k - 1) + o \in 1 .. 34 * n
        OBVIOUS
    <2>2. d[10 + 26 * n + (34 * (k - 1) + o)] = M[34 * (k - 1) + o]
        BY <1>12, <2>1
    <2>3. 10 + 26 * n + (34 * (k - 1) + o) = 10 + 26 * n + 34 * (k - 1) + o
          /\ 10 + 26 * n + 34 * (k - 1) + o \in 1 .. 10 + 60 * n
        BY <2>1
    <2> QED
        BY <1>5, <1>11, <2>2, <2>3
<1> QED
    BY <1>11, <1>15, <1>16, <1>17, <1>18 DEF c, Sections

-----------------------------------------------------------------------------
(* The function in segments: from one meeting point of two passes up to    *)
(* the next.  Segment 0 comes before the first pass, segments 1 to         *)
(* NumPrograms and the same again are those of the programs, and the last  *)
(* one is the epilogue.                                                    *)
n == NumPrograms
Segment == 0 .. 2 * n + 1

Meet(e) ==
    IF e = 0 THEN 1
    ELSE IF e <= n THEN 11 + 26 * (e - 1)
    ELSE IF e <= 2 * n THEN 11 + 26 * n + 34 * (e - n - 1) ELSE 11 + 60 * n
Span(e) ==
    IF e = 0 THEN 10 ELSE IF e <= n THEN 26 ELSE IF e <= 2 * n THEN 34 ELSE 6
Back(e) == IF e <= n THEN 18 ELSE 31

ProgramOf(list, e) == list[IF e <= n THEN e - 1 ELSE e - n - 1]
RegIsn(p, j) ==
    IF j < 18 THEN reg_pass(p)[j + 1]
    ELSE IF j = 18 THEN [op |-> "beq", back |-> 18] ELSE reg_end(p)[j - 18]
MemIsn(p, j) ==
    IF j < 31 THEN mem_pass(p)[j + 1]
    ELSE IF j = 31 THEN [op |-> "beq", back |-> 31]
    ELSE IF j = 32 THEN emit_pre_xas(p[8]) ELSE emit_xas(p[8], 17)
Isn(list, e, j) ==
    IF e = 0 THEN IF j < 9 THEN code_prologue[j + 1] ELSE Sp(-64)
    ELSE IF e <= n
    THEN IF j < 25 THEN RegIsn(ProgramOf(list, e), j)
         ELSE IF e < n THEN Sp(-64) ELSE Mov(9, N(0))
    ELSE IF e <= 2 * n THEN MemIsn(ProgramOf(list, e), j) ELSE code_epilogue[j + 1]

(* There is a program.                                                     *)
LEMMA NIsNat == n \in Nat \ {0}
BY SizesAssumption DEF n

(* A segment ends where the next one begins.                               *)
LEMMA MeetNext ==
    ASSUME NEW e \in 0 .. 2 * n
    PROVE  Meet(e + 1) = Meet(e) + Span(e)
BY NIsNat DEF Meet, Span

(* Where the segments are; the last one ends at the end of the function.   *)
LEMMA MeetFacts ==
    ASSUME NEW e \in Segment
    PROVE  /\ Meet(e) \in Nat /\ Span(e) \in {6, 10, 26, 34}
           /\ 1 <= Meet(e) /\ Meet(e) + Span(e) <= 17 + 60 * n
           /\ e = 2 * n + 1 <=> Meet(e) + Span(e) = 17 + 60 * n
           /\ Meet(2 * n + 1) = 11 + 60 * n
BY NIsNat DEF Meet, Span, Segment

(* A segment begins behind the end of every earlier one.                   *)
LEMMA MeetOrder ==
    ASSUME NEW e \in Segment, NEW f \in Segment, e < f
    PROVE  Meet(e) + Span(e) <= Meet(f)
<1>1. e = 0 \/ e \in 1 .. n - 1 \/ e = n \/ e \in n + 1 .. 2 * n
    BY NIsNat DEF Segment
<1>2. f \in 1 .. n \/ f \in n + 1 .. 2 * n \/ f = 2 * n + 1
    BY NIsNat DEF Segment
<1>3. CASE f \in 1 .. n
    BY <1>1, <1>3, NIsNat DEF Meet, Span
<1>4. CASE f \in n + 1 .. 2 * n
    BY <1>1, <1>4, NIsNat DEF Meet, Span
<1>5. CASE f = 2 * n + 1
    BY <1>1, <1>5, NIsNat DEF Meet, Span
<1> QED
    BY <1>2, <1>3, <1>4, <1>5

(* Every instruction of the function is in a segment.                      *)
LEMMA Covered ==
    ASSUME NEW q \in 1 .. 16 + 60 * n
    PROVE  \E e \in Segment : \E j \in 0 .. Span(e) - 1 : q = Meet(e) + j
<1>1. CASE q <= 10
    <2>1. 0 \in Segment /\ q - 1 \in 0 .. Span(0) - 1 /\ q = Meet(0) + (q - 1)
        BY <1>1, NIsNat DEF Segment, Span, Meet
    <2> QED
        BY <2>1
<1>2. CASE q > 10 /\ q <= 10 + 26 * n
    <2>1. PICK k \in Nat, j \in 0 .. 25 : q - 11 = 26 * k + j
        <3>1. q - 11 = (26 * ((q - 11) \div 26)) + ((q - 11) % 26)
              /\ (q - 11) \div 26 \in Nat /\ (q - 11) % 26 \in 0 .. 25
            BY <1>2
        <3> QED
            BY <3>1
    <2>2. k < n
        BY <1>2, <2>1, NIsNat
    <2>3. k + 1 \in Segment /\ j \in 0 .. Span(k + 1) - 1 /\ q = Meet(k + 1) + j
        BY <2>1, <2>2, NIsNat DEF Segment, Span, Meet
    <2> QED
        BY <2>3
<1>3. CASE q > 10 + 26 * n /\ q <= 10 + 60 * n
    <2>1. PICK k \in Nat, j \in 0 .. 33 : q - 11 - 26 * n = 34 * k + j
        <3>1. PICK m \in Nat : m = q - 11 - 26 * n
            BY <1>3, NIsNat
        <3>2. m = (34 * (m \div 34)) + (m % 34) /\ m \div 34 \in Nat /\ m % 34 \in 0 .. 33
            BY <3>1
        <3> QED
            BY <3>1, <3>2
    <2>2. k < n
        BY <1>3, <2>1, NIsNat
    <2>3. n + k + 1 \in Segment /\ j \in 0 .. Span(n + k + 1) - 1 /\ q = Meet(n + k + 1) + j
        BY <2>1, <2>2, NIsNat DEF Segment, Span, Meet
    <2> QED
        BY <2>3
<1>4. CASE q > 10 + 60 * n
    <2>1. 2 * n + 1 \in Segment /\ q - (11 + 60 * n) \in 0 .. Span(2 * n + 1) - 1
          /\ q = Meet(2 * n + 1) + (q - (11 + 60 * n))
        BY <1>4, NIsNat DEF Segment, Span, Meet
    <2> QED
        BY <2>1
<1> QED
    BY <1>1, <1>2, <1>3, <1>4, NIsNat

(* The instruction at a place of a segment.                                *)
LEMMA Located ==
    ASSUME NEW list, NEW e \in Segment, NEW j \in 0 .. Span(e) - 1
    PROVE  hashwx_compile_a64(list, n)[Meet(e) + j] = Isn(list, e, j)
<1> DEFINE c == hashwx_compile_a64(list, n)
<1>0. n \in Nat \ {0} /\ e \in 0 .. 2 * n + 1
    BY NIsNat DEF Segment
<1>1. /\ \A o \in 1 .. 9 : c[o] = code_prologue[o]
      /\ \A k \in 1 .. n, o \in 1 .. 26 :
            c[9 + 26 * (k - 1) + o] = compile_program_reg(list[k - 1])[o]
      /\ c[10 + 26 * n] = Mov(9, N(0))
      /\ \A k \in 1 .. n, o \in 1 .. 34 :
            c[10 + 26 * n + 34 * (k - 1) + o] = compile_program_mem(list[k - 1])[o]
      /\ \A o \in 1 .. 6 : c[10 + 60 * n + o] = code_epilogue[o]
    <2>1. Sections(c, list, n)
        BY <1>0, FunctionCode
    <2> HIDE DEF c
    <2> QED
        BY <2>1 DEF Sections
<1> HIDE DEF c
<1>2. ASSUME NEW k \in 1 .. n PROVE c[9 + 26 * (k - 1) + 1] = Sp(-64)
    BY <1>1, RegCode
<1>3. CASE e = 0
    <2>1. CASE j < 9
        <3>1. j + 1 \in 1 .. 9 /\ Meet(e) + j = j + 1
            BY <1>3, <2>1 DEF Meet, Span
        <3> QED
            BY <1>1, <1>3, <2>1, <3>1 DEF Isn, c
    <2>2. CASE j = 9
        <3>1. Meet(e) + j = 9 + 26 * (1 - 1) + 1 /\ 1 \in 1 .. n
            BY <1>0, <1>3, <2>2 DEF Meet
        <3>2. c[9 + 26 * (1 - 1) + 1] = Sp(-64)
            BY <1>2, <3>1
        <3> QED
            BY <1>3, <2>2, <3>1, <3>2 DEF Isn, c
    <2> QED
        BY <1>3, <2>1, <2>2 DEF Span
<1>4. CASE e \in 1 .. n
    <2> DEFINE p == ProgramOf(list, e)
    <2>0. p = list[e - 1] /\ j \in 0 .. 25 /\ Meet(e) = 11 + 26 * (e - 1)
        BY <1>0, <1>4 DEF ProgramOf, Span, Meet
    <2> HIDE DEF p
    <2>1. ASSUME NEW o \in 1 .. 26 PROVE c[9 + 26 * (e - 1) + o] = compile_program_reg(p)[o]
        BY <1>1, <1>4, <2>0
    <2>2. CASE j < 25
        <3>1. j + 2 \in 1 .. 26 /\ Meet(e) + j = 9 + 26 * (e - 1) + (j + 2)
            BY <1>4, <2>0, <2>2
        <3>2. c[Meet(e) + j] = compile_program_reg(p)[j + 2]
            BY <2>1, <3>1
        <3>3. compile_program_reg(p)[j + 2] = RegIsn(p, j)
            <4>1. CASE j < 18
                <5>1. j + 1 \in 1 .. 18 /\ j + 2 = 1 + (j + 1)
                    BY <2>0, <4>1
                <5> QED
                    BY <4>1, <5>1, RegCode DEF RegIsn
            <4>2. CASE j = 18
                BY <4>2, RegCode DEF RegIsn
            <4>3. CASE j > 18
                <5>1. j - 18 \in 1 .. 6 /\ j + 2 = 20 + (j - 18) /\ ~(j < 18) /\ j # 18
                    BY <2>0, <2>2, <4>3
                <5> QED
                    BY <5>1, RegCode DEF RegIsn
            <4> QED
                BY <2>0, <4>1, <4>2, <4>3
        <3> QED
            BY <1>0, <1>4, <2>2, <3>2, <3>3 DEF Isn, c, p
    <2>3. CASE j = 25 /\ e < n
        <3>1. e + 1 \in 1 .. n /\ Meet(e) + j = 9 + 26 * ((e + 1) - 1) + 1
            BY <1>0, <1>4, <2>0, <2>3
        <3>2. c[9 + 26 * ((e + 1) - 1) + 1] = Sp(-64)
            BY <1>2, <3>1
        <3> QED
            BY <1>0, <1>4, <2>3, <3>1, <3>2 DEF Isn, c
    <2>4. CASE j = 25 /\ e = n
        <3>1. Meet(e) + j = 10 + 26 * n
            BY <1>0, <2>0, <2>4
        <3> QED
            BY <1>0, <1>1, <1>4, <2>4, <3>1 DEF Isn, c
    <2> QED
        BY <1>0, <1>4, <2>0, <2>2, <2>3, <2>4
<1>5. CASE e \in n + 1 .. 2 * n
    <2> DEFINE p == ProgramOf(list, e)
               k == e - n
    <2>0. p = list[k - 1] /\ j \in 0 .. 33 /\ Meet(e) = 11 + 26 * n + 34 * (k - 1) /\ k \in 1 .. n
        BY <1>0, <1>5 DEF ProgramOf, Span, Meet
    <2> HIDE DEF p, k
    <2>1. ASSUME NEW o \in 1 .. 34
          PROVE  c[10 + 26 * n + 34 * (k - 1) + o] = compile_program_mem(p)[o]
        BY <1>1, <2>0
    <2>2. j + 1 \in 1 .. 34 /\ Meet(e) + j = 10 + 26 * n + 34 * (k - 1) + (j + 1)
        BY <1>0, <2>0
    <2>3. c[Meet(e) + j] = compile_program_mem(p)[j + 1]
        BY <2>1, <2>2
    <2>4. compile_program_mem(p)[j + 1] = MemIsn(p, j)
        <3>1. CASE j < 31
            <4>1. j + 1 \in 1 .. 31
                BY <2>0, <3>1
            <4> QED
                BY <3>1, <4>1, MemCode DEF MemIsn
        <3>2. CASE j = 31
            BY <3>2, MemCode DEF MemIsn
        <3>3. CASE j = 32
            BY <3>3, MemCode DEF MemIsn
        <3>4. CASE j = 33
            BY <3>4, MemCode DEF MemIsn
        <3> QED
            BY <2>0, <3>1, <3>2, <3>3, <3>4
    <2> QED
        BY <1>0, <1>5, <2>3, <2>4 DEF Isn, c, p
<1>6. CASE e = 2 * n + 1
    <2>1. j + 1 \in 1 .. 6 /\ Meet(e) + j = 10 + 60 * n + (j + 1)
        BY <1>0, <1>6 DEF Span, Meet
    <2> QED
        BY <1>0, <1>1, <1>6, <2>1 DEF Isn, c
<1> QED
    BY <1>0, <1>3, <1>4, <1>5, <1>6

-----------------------------------------------------------------------------
(* CodeFits: whatever the programs, 32 of them take 7744 bytes.            *)
THEOREM CodeAlwaysFits == Spec => []CodeFits
<1>0. ASSUME NEW CONSTANT list PROVE Len(hashwx_compile_a64(list, 32)) = 1936
    <2> DEFINE c == hashwx_compile_a64(list, 32)
    <2>1. Sections(c, list, 32)
        BY FunctionCode
    <2> HIDE DEF c
    <2>2. Len(c) = 16 + 60 * 32
        BY <2>1 DEF Sections
    <2> QED
        BY <2>2 DEF c
<1>1. CodeFits
    <2>1. Len(hashwx_compile_a64(FullList, 32)) = 1936
        BY <1>0
    <2>2. 4 * Len(hashwx_compile_a64(FullList, 32)) <= HASHWX_CODE_SIZE
        <3> DEFINE l == Len(hashwx_compile_a64(FullList, 32))
        <3> HIDE DEF l
        <3>1. l = 1936
            BY <2>1 DEF l
        <3>2. 4 * l <= HASHWX_CODE_SIZE
            BY <3>1 DEF HASHWX_CODE_SIZE
        <3> QED
            BY <3>2 DEF l
    <2> QED
        BY <2>2 DEF CodeFits
<1> QED
    BY <1>1, PTL

-----------------------------------------------------------------------------
(* What one instruction does to the machine, the branch not taken.         *)
State(file, top, flag, cells, out) ==
    [x |-> file, sp |-> top, flag |-> flag, stack |-> cells, io |-> out]
St == State(x, sp, IF z THEN 1 ELSE 0, stack, io)

OneWrite ==
    {"mov", "mul", "ror", "asr", "lsr", "orr", "eor", "add", "sub", "and", "cinc", "ldr"}

In(s, operand) == IF operand[1] = "reg" THEN s.x[operand[2]] ELSE operand[2]
Result(in, s) ==
    IF in.op = "mov" THEN In(s, in.b)
    ELSE IF in.op = "mul" THEN Mul(In(s, in.a), In(s, in.b))
    ELSE IF in.op = "ror" THEN Ror(In(s, in.a), In(s, in.b))
    ELSE IF in.op = "asr" THEN Asr(In(s, in.a), In(s, in.b))
    ELSE IF in.op = "lsr" THEN Lsr(In(s, in.a), In(s, in.b))
    ELSE IF in.op = "orr" THEN Or(In(s, in.a), In(s, in.b))
    ELSE IF in.op = "eor" THEN Xor(In(s, in.a), In(s, in.b))
    ELSE IF in.op = "add" THEN Add(In(s, in.a), In(s, in.b))
    ELSE IF in.op = "sub" THEN Sub(In(s, in.a), In(s, in.b))
    ELSE IF in.op = "and" THEN 8 * Slot(In(s, in.a))
    ELSE IF in.op = "cinc" THEN IF s.flag = 1 THEN Add(s.x[in.to], 1) ELSE s.x[in.to]
    ELSE s.stack[(s.sp + s.x[in.to]) \div 8]

Put(s, r, v) == State([s.x EXCEPT ![r] = v], s.sp, s.flag, s.stack, s.io)
Put2(f, a, u, b, v) == [f EXCEPT ![a] = u, ![b] = v]
Moved(s, bytes) == State(s.x, s.sp + bytes, s.flag, s.stack, s.io)
Tested(s) == State(s.x, s.sp, IF Looping(s.x[14]) THEN 1 ELSE 0, s.stack, s.io)
Effect(in, s) ==
    IF in.op \in OneWrite THEN Put(s, in.to, Result(in, s))
    ELSE IF in.op = "ldp"
    THEN State(Put2(s.x, in.to[1], s.io[in.cell], in.to[2], s.io[in.cell + 1]),
               s.sp, s.flag, s.stack, s.io)
    ELSE IF in.op = "push"
    THEN State(s.x, s.sp, s.flag,
               Put2(s.stack, (s.sp \div 8) + in.cell, s.x[in.from[1]],
                    (s.sp \div 8) + in.cell + 1, s.x[in.from[2]]), s.io)
    ELSE IF in.op = "stp"
    THEN State(s.x, s.sp, s.flag, s.stack,
               Put2(s.io, in.cell, s.x[in.from[1]], in.cell + 1, s.x[in.from[2]]))
    ELSE IF in.op = "sp" THEN Moved(s, in.bytes)
    ELSE IF in.op = "tst" THEN Tested(s)
    ELSE s

(* A step that takes no branch does what Effect says of its instruction.   *)
LEMMA StepIsEffect ==
    ASSUME Next, Running, ~(isn.op = "beq" /\ z)
    PROVE  pc' = pc + 1 /\ St' = Effect(isn, St)
<1>1. CASE Arithmetic
    <2>1. CASE isn.op = "ldp"
        BY <1>1, <2>1 DEF Arithmetic, Op, Effect, St, State, Put2, OneWrite, A, B, Write, Value
    <2>2. CASE isn.op = "mov"
        BY <1>1, <2>2 DEF Arithmetic, Op, Effect, St, State, Put, OneWrite, A, B, Write, Value, Result, In
    <2>3. CASE isn.op = "mul"
        BY <1>1, <2>3 DEF Arithmetic, Op, Effect, St, State, Put, OneWrite, A, B, Write, Value, Result, In
    <2>4. CASE isn.op \in {"ror", "asr", "lsr"}
        BY <1>1, <2>4 DEF Arithmetic, Op, Effect, St, State, Put, OneWrite, A, B, Write, Value, Result, In
    <2>5. CASE isn.op \in {"orr", "eor", "add", "sub"}
        BY <1>1, <2>5 DEF Arithmetic, Op, Effect, St, State, Put, OneWrite, A, B, Write, Value, Result, In
    <2>6. CASE isn.op = "and"
        BY <1>1, <2>6 DEF Arithmetic, Op, Effect, St, State, Put, OneWrite, A, B, Write, Value, Result, In
    <2>7. CASE isn.op = "cinc"
        BY <1>1, <2>7 DEF Arithmetic, Op, Effect, St, State, Put, OneWrite, A, B, Write, Value, Result, In
    <2>8. CASE isn.op = "ldr"
        BY <1>1, <2>8 DEF Arithmetic, Op, Effect, St, State, Put, OneWrite, A, B, Write, Value, Result, In
    <2> QED
        BY <1>1, <2>1, <2>2, <2>3, <2>4, <2>5, <2>6, <2>7, <2>8 DEF Arithmetic, Op
<1>2. CASE StorePair
    BY <1>2 DEF StorePair, Op, Effect, St, State, Put2, OneWrite
<1>3. CASE MoveSp
    BY <1>3 DEF MoveSp, Op, Effect, St, State, Moved, OneWrite
<1>4. CASE Test
    BY <1>4 DEF Test, Op, Effect, St, State, Tested, OneWrite
<1>5. CASE Branch
    BY <1>5 DEF Branch, Op, Effect, St, State, OneWrite, machine
<1>6. CASE Return
    BY <1>6 DEF Return, Op, Effect, St, State, OneWrite, machine
<1>7. ~Returned
    BY DEF Returned
<1> QED
    BY <1>1, <1>2, <1>3, <1>4, <1>5, <1>6, <1>7 DEF Next

(* A taken branch.                                                         *)
LEMMA StepIsBranch ==
    ASSUME Next, Running, isn.op = "beq", z
    PROVE  pc' = pc - isn.back /\ St' = St
<1>1. Branch
    BY DEF Next, Arithmetic, StorePair, MoveSp, Test, Return, Returned, Op
<1> QED
    BY <1>1 DEF Branch, St, State, machine

-----------------------------------------------------------------------------
(* The instructions of a program and what they do.                         *)
MulIn(in) == in \in Instr /\ in.opcode \in MulOps /\ in.imm \in {1, 9, 33}
XasIn(in) == in \in Instr /\ in.opcode \in XasOps

(* A program as the compiler takes it for granted.                         *)
Scheduled(p) ==
    /\ p \in Program /\ Settled(p)
    /\ \A k \in {2, 4, 6} : MulIn(p[k])
    /\ \A k \in {1, 3, 5, 8} : XasIn(p[k])

(* Every program of a list is scheduled.                                   *)
LEMMA ListScheduled ==
    ASSUME NEW list \in ProgramLists, NEW k \in 0 .. n - 1
    PROVE  Scheduled(list[k])
<1>1. list[k] \in Program
    BY InputsAssumption, NIsNat DEF n
<1>2. Settled(list[k]) /\ \A j \in {2, 4, 6} : list[k][j].imm \in {1, 9, 33}
    BY ScheduleAssumption DEF n
<1>3. \A j \in Line : list[k][j] \in Instr
    BY <1>1 DEF Program
<1> QED
    BY <1>1, <1>2, <1>3 DEF Scheduled, MulIn, XasIn, Program, Layout, Line

(* The immediate emit_premul selects is that of the instruction.           *)
LEMMA PremulIs ==
    ASSUME NEW in, MulIn(in)
    PROVE  LET i == emit_premul(in)
           IN  /\ i.op \in {"orr", "eor", "add"} /\ i.to = in.dst
               /\ \A s : s.x[10] = 9 /\ s.x[11] = 33
                      => Effect(i, s) = Put(s, in.dst, Mixed(in.opcode, s.x[in.dst], in.imm))
<1> DEFINE i == emit_premul(in)
<1>1. in.opcode \in {0, 1, 2} /\ in.imm \in {1, 9, 33}
    BY DEF MulIn, MulOps, MULOR, MULADD
<1>2. i = [op |-> <<"orr", "eor", "add">>[in.opcode + 1], to |-> in.dst, a |-> X(in.dst),
           b |-> premul_tpls(in.opcode, mul_imm_inv(in.imm \div 8))]
    BY DEF emit_premul, Alu
<1>3. mul_imm_inv(in.imm \div 8) = IF in.imm = 1 THEN 0 ELSE IF in.imm = 9 THEN 1 ELSE 2
    <2>1. 1 \div 8 = 0 /\ 9 \div 8 = 1 /\ 33 \div 8 = 4
        OBVIOUS
    <2> QED
        BY <1>1, <2>1 DEF mul_imm_inv
<1>4. ASSUME NEW s, s.x[10] = 9, s.x[11] = 33
      PROVE  In(s, i.b) = in.imm
    <2>1. i.b = premul_tpls(in.opcode, mul_imm_inv(in.imm \div 8))
        BY <1>2
    <2>2. CASE in.imm = 1
        BY <1>1, <1>3, <1>4, <2>1, <2>2 DEF premul_tpls, In, N, X, MULADD
    <2>3. CASE in.imm = 9
        BY <1>1, <1>3, <1>4, <2>1, <2>3 DEF premul_tpls, In, N, X, MULADD
    <2>4. CASE in.imm = 33
        BY <1>1, <1>3, <1>4, <2>1, <2>4 DEF premul_tpls, In, N, X, MULADD
    <2> QED
        BY <1>1, <2>2, <2>3, <2>4
<1>5. /\ i.op = IF in.opcode = 0 THEN "orr" ELSE IF in.opcode = 1 THEN "eor" ELSE "add"
      /\ i.to = in.dst /\ i.a = X(in.dst)
    BY <1>1, <1>2
<1> HIDE DEF i
<1>6. ASSUME NEW s, s.x[10] = 9, s.x[11] = 33
      PROVE  Effect(i, s) = Put(s, in.dst, Mixed(in.opcode, s.x[in.dst], in.imm))
    <2>1. Result(i, s) = Mixed(in.opcode, s.x[in.dst], in.imm)
        <3>1. In(s, i.a) = s.x[in.dst] /\ In(s, i.b) = in.imm
            BY <1>4, <1>5, <1>6 DEF In, X
        <3> QED
            BY <1>1, <1>5, <3>1 DEF Result, Mixed, MULOR, MULXOR
    <2>2. i.op \in OneWrite
        BY <1>5 DEF OneWrite
    <2> QED
        BY <1>5, <2>1, <2>2 DEF Effect
<1> QED
    BY <1>1, <1>5, <1>6 DEF i

(* What the first half of an instruction with a shift does.                *)
LEMMA PreXasIs ==
    ASSUME NEW in, XasIn(in)
    PROVE  LET i == emit_pre_xas(in)
           IN  /\ i.op \in {"ror", "asr", "lsr"} /\ i.to = in.dst
               /\ \A s : Effect(i, s) = Put(s, in.dst, Shifted(in.opcode, s.x[in.dst], in.imm))
<1> DEFINE i == emit_pre_xas(in)
<1>1. in.opcode \in 4 .. 12
    BY DEF XasIn, XasOps, XORROR, SUBLSR
<1>2. i = [op |-> <<"ror", "asr", "lsr">>[((in.opcode - 4) \div 3) + 1], to |-> in.dst,
           a |-> X(in.dst), b |-> N(in.imm)]
    BY DEF emit_pre_xas, Alu
<1>3. (in.opcode - 4) \div 3 =
          IF in.opcode \in 4 .. 6 THEN 0 ELSE IF in.opcode \in 7 .. 9 THEN 1 ELSE 2
    BY <1>1
<1>4. /\ i.op = IF in.opcode \in 4 .. 6 THEN "ror" ELSE IF in.opcode \in 7 .. 9 THEN "asr" ELSE "lsr"
      /\ i.to = in.dst /\ i.a = X(in.dst) /\ i.b = N(in.imm)
    BY <1>1, <1>2, <1>3
<1> HIDE DEF i
<1>5. ASSUME NEW s
      PROVE  Effect(i, s) = Put(s, in.dst, Shifted(in.opcode, s.x[in.dst], in.imm))
    <2>1. Result(i, s) = Shifted(in.opcode, s.x[in.dst], in.imm)
        <3>1. In(s, i.a) = s.x[in.dst] /\ In(s, i.b) = in.imm
            BY <1>4 DEF In, X, N
        <3> QED
            BY <1>1, <1>4, <3>1 DEF Result, Shifted, XORROR, SUBROR, XORASR, SUBASR
    <2>2. i.op \in OneWrite
        BY <1>4 DEF OneWrite
    <2> QED
        BY <1>4, <2>1, <2>2 DEF Effect
<1> QED
    BY <1>4, <1>5 DEF i

(* What its second half does.                                              *)
LEMMA XasIs ==
    ASSUME NEW in, NEW src, XasIn(in)
    PROVE  LET i == emit_xas(in, src)
           IN  /\ i.op \in {"eor", "add", "sub"} /\ i.to = in.dst
               /\ \A s : Effect(i, s) = Put(s, in.dst, Combined(in.opcode, s.x[in.dst], s.x[src]))
<1> DEFINE i == emit_xas(in, src)
<1>1. in.opcode \in 4 .. 12
    BY DEF XasIn, XasOps, XORROR, SUBLSR
<1>2. i = [op |-> <<"eor", "add", "sub">>[((in.opcode - 4) % 3) + 1], to |-> in.dst,
           a |-> X(in.dst), b |-> X(src)]
    BY DEF emit_xas, Alu
<1>3. (in.opcode - 4) % 3 =
          IF in.opcode \in {4, 7, 10} THEN 0 ELSE IF in.opcode \in {5, 8, 11} THEN 1 ELSE 2
    BY <1>1
<1>4. /\ i.op = IF in.opcode \in {4, 7, 10} THEN "eor"
                ELSE IF in.opcode \in {5, 8, 11} THEN "add" ELSE "sub"
      /\ i.to = in.dst /\ i.a = X(in.dst) /\ i.b = X(src)
    BY <1>1, <1>2, <1>3
<1> HIDE DEF i
<1>5. ASSUME NEW s
      PROVE  Effect(i, s) = Put(s, in.dst, Combined(in.opcode, s.x[in.dst], s.x[src]))
    <2>1. Result(i, s) = Combined(in.opcode, s.x[in.dst], s.x[src])
        <3>1. In(s, i.a) = s.x[in.dst] /\ In(s, i.b) = s.x[src]
            BY <1>4 DEF In, X
        <3> QED
            BY <1>1, <1>4, <3>1 DEF Result, Combined, XORROR, XORASR, XORLSR, ADDROR, ADDASR, ADDLSR
    <2>2. i.op \in OneWrite
        BY <1>4 DEF OneWrite
    <2> QED
        BY <1>4, <2>1, <2>2 DEF Effect
<1> QED
    BY <1>4, <1>5 DEF i

(* What the instructions the compiler writes by name do.                   *)
LEMMA OthersAre ==
    /\ \A s, d, r : Effect(emit_mul(d, r), s) = Put(s, d, Mul(s.x[d], s.x[r]))
    /\ \A s, d, imm : Effect(emit_ror(d, imm), s) = Put(s, d, Ror(s.x[d], imm))
    /\ \A s, d, r : Effect(emit_orr(14, d, r), s) = Put(s, 14, Or(s.x[d], s.x[r]))
    /\ \A s, d, r : Effect(Mov(d, X(r)), s) = Put(s, d, s.x[r])
    /\ \A s, d, imm : Effect(Mov(d, N(imm)), s) = Put(s, d, imm)
    /\ \A s, d, r : Effect(emit_and_2040(d, r), s) = Put(s, d, 8 * Slot(s.x[r]))
    /\ \A s, d : Effect(emit_ldr_sp(d), s) = Put(s, d, s.stack[(s.sp + s.x[d]) \div 8])
    /\ \A s : Effect(cinc_loops, s) = Put(s, 9, IF s.flag = 1 THEN Add(s.x[9], 1) ELSE s.x[9])
    /\ \A s : Effect(tst_flag, s) = Tested(s)
    /\ \A s, bytes : Effect(Sp(bytes), s) = Moved(s, bytes)
<1>1. \A s, d, r : Effect(emit_mul(d, r), s) = Put(s, d, Mul(s.x[d], s.x[r]))
    BY DEF Effect, Result, In, X, N, emit_mul, Alu, OneWrite
<1>2. \A s, d, imm : Effect(emit_ror(d, imm), s) = Put(s, d, Ror(s.x[d], imm))
    BY DEF Effect, Result, In, X, N, emit_ror, Alu, OneWrite
<1>3. \A s, d, r : Effect(emit_orr(14, d, r), s) = Put(s, 14, Or(s.x[d], s.x[r]))
    BY DEF Effect, Result, In, X, N, emit_orr, Alu, OneWrite
<1>4. \A s, d, r : Effect(Mov(d, X(r)), s) = Put(s, d, s.x[r])
    BY DEF Effect, Result, In, X, N, Mov, OneWrite
<1>5. \A s, d, imm : Effect(Mov(d, N(imm)), s) = Put(s, d, imm)
    BY DEF Effect, Result, In, X, N, Mov, OneWrite
<1>6. \A s, d, r : Effect(emit_and_2040(d, r), s) = Put(s, d, 8 * Slot(s.x[r]))
    BY DEF Effect, Result, In, X, N, emit_and_2040, Alu, OneWrite
<1>7. \A s, d : Effect(emit_ldr_sp(d), s) = Put(s, d, s.stack[(s.sp + s.x[d]) \div 8])
    BY DEF Effect, Result, emit_ldr_sp, OneWrite
<1>8. \A s : Effect(cinc_loops, s) = Put(s, 9, IF s.flag = 1 THEN Add(s.x[9], 1) ELSE s.x[9])
    BY DEF Effect, Result, cinc_loops, OneWrite
<1>9. \A s : Effect(tst_flag, s) = Tested(s)
    BY DEF Effect, tst_flag, OneWrite
<1>10. \A s, bytes : Effect(Sp(bytes), s) = Moved(s, bytes)
    BY DEF Effect, Sp, OneWrite
<1> QED
    BY <1>1, <1>2, <1>3, <1>4, <1>5, <1>6, <1>7, <1>8, <1>9, <1>10

-----------------------------------------------------------------------------
(* The only branches are those of the programs, and they go back to where  *)
(* their program meets the one before.                                     *)
LEMMA StorePairIs ==
    ASSUME NEW k \in 0 .. 6
    PROVE  store_pair(k) = IF k % 4 = 0 THEN Push(3, 2, 4)
                           ELSE IF k % 4 = 1 THEN Push(5, 4, 2)
                           ELSE IF k % 4 = 2 THEN Push(7, 6, 0) ELSE Push(1, 0, 6)
BY DEF store_pair

(* No instruction of a program but beq is a branch.                        *)
LEMMA NoBranch ==
    ASSUME NEW p, Scheduled(p)
    PROVE  /\ \A i \in 1 .. 18 : reg_pass(p)[i].op # "beq"
           /\ \A i \in 1 .. 6 : reg_end(p)[i].op # "beq"
           /\ \A i \in 1 .. 31 : mem_pass(p)[i].op # "beq"
           /\ emit_pre_xas(p[8]).op # "beq" /\ emit_xas(p[8], 17).op # "beq"
<1>1. \A k \in {2, 4, 6} : emit_premul(p[k]).op # "beq"
    BY PremulIs DEF Scheduled
<1>2. \A k \in {1, 3, 5, 8} : emit_pre_xas(p[k]).op # "beq"
    BY PreXasIs DEF Scheduled
<1>3. ASSUME NEW k \in {1, 3, 5, 8}, NEW r PROVE emit_xas(p[k], r).op # "beq"
    BY XasIs DEF Scheduled
<1>4. \A d, r : /\ emit_mul(d, r).op # "beq" /\ emit_ror(d, r).op # "beq"
                /\ emit_orr(14, d, r).op # "beq" /\ Mov(d, r).op # "beq"
                /\ emit_and_2040(d, r).op # "beq" /\ emit_ldr_sp(d).op # "beq"
                /\ tst_flag.op # "beq" /\ cinc_loops.op # "beq"
    BY DEF emit_mul, emit_ror, emit_orr, Mov, emit_and_2040, emit_ldr_sp, tst_flag, cinc_loops, Alu
<1>5. \A k \in 0 .. 6 : store_pair(k).op # "beq"
    BY StorePairIs DEF Push
<1>6. pair_idx(p) \in 0 .. 3
    <2>1. p[8].dst \in 0 .. 7
        BY DEF Scheduled, XasIn, Instr, Dst
    <2> QED
        BY <2>1 DEF pair_idx
<1>7. \A i \in 1 .. 18 : reg_pass(p)[i].op # "beq"
    BY <1>1, <1>2, <1>3, <1>4 DEF reg_pass
<1>8. \A i \in 1 .. 6 : reg_end(p)[i].op # "beq"
    <2>1. \A d \in 0 .. 3 : store_pair(pair_idx(p) + d).op # "beq"
        BY <1>5, <1>6
    <2>2. store_pair(pair_idx(p)).op # "beq"
        BY <1>5, <1>6
    <2> QED
        BY <1>2, <1>3, <2>1, <2>2 DEF reg_end
<1>9. \A i \in 1 .. 31 : mem_pass(p)[i].op # "beq"
    BY <1>1, <1>2, <1>3, <1>4 DEF mem_pass
<1> QED
    BY <1>2, <1>3, <1>7, <1>8, <1>9

(* The program of a segment is scheduled.                                  *)
LEMMA ProgramScheduled ==
    ASSUME NEW list \in ProgramLists, NEW e \in 1 .. 2 * n
    PROVE  Scheduled(ProgramOf(list, e))
<1>1. (e <= n => e - 1 \in 0 .. n - 1) /\ (~(e <= n) => e - n - 1 \in 0 .. n - 1)
    BY NIsNat
<1> QED
    BY <1>1, ListScheduled DEF ProgramOf

(* The branch of a segment, and how far back it goes.                      *)
LEMMA Branches ==
    ASSUME NEW list \in ProgramLists, NEW e \in Segment, NEW j \in 0 .. Span(e) - 1
    PROVE  /\ Isn(list, e, j).op = "beq" <=> e \in 1 .. 2 * n /\ j = Back(e)
           /\ e \in 1 .. 2 * n /\ j = Back(e) => Isn(list, e, j).back = Back(e)
<1> DEFINE p == ProgramOf(list, e)
<1>0. n \in Nat \ {0} /\ e \in 0 .. 2 * n + 1
    BY NIsNat DEF Segment
<1>1. \A b : Sp(b).op # "beq" /\ Mov(9, b).op # "beq"
    BY DEF Sp, Mov
<1>2. CASE e = 0
    <2>1. j \in 0 .. 9
        BY <1>2 DEF Span
    <2>2. \A i \in 1 .. 9 : code_prologue[i].op # "beq"
        BY DEF code_prologue, Ldp, Mov
    <2> QED
        BY <1>1, <1>2, <2>1, <2>2 DEF Isn
<1>3. CASE e \in 1 .. n
    <2>1. Scheduled(p) /\ j \in 0 .. 25 /\ Back(e) = 18
        BY <1>0, <1>3, ProgramScheduled DEF Span, Back
    <2>2. Isn(list, e, j) = IF j < 25 THEN RegIsn(p, j) ELSE IF e < n THEN Sp(-64) ELSE Mov(9, N(0))
        BY <1>0, <1>3 DEF Isn
    <2> HIDE DEF p
    <2>3. CASE j < 18
        <3>1. j + 1 \in 1 .. 18
            BY <2>1, <2>3
        <3>2. Isn(list, e, j) = reg_pass(p)[j + 1]
            BY <2>2, <2>3 DEF RegIsn
        <3>3. reg_pass(p)[j + 1].op # "beq"
            BY <2>1, <3>1, NoBranch
        <3> QED
            BY <2>1, <2>3, <3>2, <3>3
    <2>4. CASE j = 18
        <3>1. Isn(list, e, j) = [op |-> "beq", back |-> 18]
            BY <2>2, <2>4 DEF RegIsn
        <3> QED
            BY <1>0, <1>3, <2>1, <2>4, <3>1
    <2>5. CASE j > 18 /\ j < 25
        <3>1. j - 18 \in 1 .. 6
            BY <2>1, <2>5
        <3>2. Isn(list, e, j) = reg_end(p)[j - 18]
            BY <2>1, <2>2, <2>5 DEF RegIsn
        <3>3. reg_end(p)[j - 18].op # "beq"
            BY <2>1, <3>1, NoBranch
        <3> QED
            BY <2>1, <2>5, <3>2, <3>3
    <2>6. CASE j = 25
        BY <1>1, <2>1, <2>2, <2>6
    <2> QED
        BY <2>1, <2>3, <2>4, <2>5, <2>6
<1>4. CASE e \in n + 1 .. 2 * n
    <2>1. Scheduled(p) /\ j \in 0 .. 33 /\ Back(e) = 31
        BY <1>0, <1>4, ProgramScheduled DEF Span, Back
    <2>2. Isn(list, e, j) = MemIsn(p, j)
        BY <1>0, <1>4 DEF Isn
    <2> HIDE DEF p
    <2>3. CASE j < 31
        <3>1. j + 1 \in 1 .. 31
            BY <2>1, <2>3
        <3>2. Isn(list, e, j) = mem_pass(p)[j + 1]
            BY <2>2, <2>3 DEF MemIsn
        <3>3. mem_pass(p)[j + 1].op # "beq"
            BY <2>1, <3>1, NoBranch
        <3> QED
            BY <2>1, <2>3, <3>2, <3>3
    <2>4. CASE j = 31
        <3>1. Isn(list, e, j) = [op |-> "beq", back |-> 31]
            BY <2>2, <2>4 DEF MemIsn
        <3> QED
            BY <1>0, <1>4, <2>1, <2>4, <3>1
    <2>5. CASE j > 31
        <3>1. Isn(list, e, j) = emit_pre_xas(p[8]) \/ Isn(list, e, j) = emit_xas(p[8], 17)
            BY <2>1, <2>2, <2>5 DEF MemIsn
        <3> QED
            BY <2>1, <2>5, <3>1, NoBranch
    <2> QED
        BY <2>1, <2>3, <2>4, <2>5
<1>5. CASE e = 2 * n + 1
    <2>1. j + 1 \in 1 .. 6 /\ Isn(list, e, j) = code_epilogue[j + 1]
        BY <1>0, <1>5 DEF Span, Isn
    <2>2. \A i \in 1 .. 6 : code_epilogue[i].op # "beq"
        BY DEF code_epilogue, Stp, Sp
    <2> QED
        BY <1>0, <1>5, <2>1, <2>2
<1> QED
    BY <1>0, <1>2, <1>3, <1>4, <1>5

(* Where a pass meets another, for a code as hashwx_compile_a64 writes it. *)
Compiled == program_list \in ProgramLists /\ code = hashwx_compile_a64(program_list, NumPrograms)

(* The code in the machine is the function compiled from the list.         *)
LEMMA CodeAt ==
    ASSUME Compiled
    PROVE  /\ Len(code) = 16 + 60 * n /\ DOMAIN code = 1 .. 16 + 60 * n
           /\ Epilogue = Meet(2 * n + 1)
           /\ \A e \in Segment : \A j \in 0 .. Span(e) - 1 :
                  code[Meet(e) + j] = Isn(program_list, e, j)
<1>1. Sections(code, program_list, n)
    BY FunctionCode, NIsNat DEF Compiled, n
<1>2. Len(code) = 16 + 60 * n /\ DOMAIN code = 1 .. 16 + 60 * n
    BY <1>1 DEF Sections, Listing
<1>3. Len(code_epilogue) = 6
    BY DEF code_epilogue
<1>4. Epilogue = Meet(2 * n + 1)
    BY <1>2, <1>3, NIsNat DEF Epilogue, Meet
<1>5. \A e \in Segment : \A j \in 0 .. Span(e) - 1 : code[Meet(e) + j] = Isn(program_list, e, j)
    BY Located DEF Compiled, n
<1> QED
    BY <1>2, <1>4, <1>5

(* The targets of the branches are where the segments of programs begin.   *)
LEMMA TargetsAre ==
    ASSUME Compiled
    PROVE  Targets = {Meet(e) : e \in 1 .. 2 * n}
<1>1. /\ DOMAIN code = 1 .. 16 + 60 * n
      /\ \A e \in Segment : \A j \in 0 .. Span(e) - 1 :
             code[Meet(e) + j] = Isn(program_list, e, j)
    BY CodeAt
<1>2. program_list \in ProgramLists
    BY DEF Compiled
<1>3. ASSUME NEW q \in DOMAIN code, code[q].op = "beq"
      PROVE  \E e \in 1 .. 2 * n : q - code[q].back = Meet(e)
    <2>1. PICK e \in Segment : \E j \in 0 .. Span(e) - 1 : q = Meet(e) + j
        BY <1>1, Covered
    <2>2. PICK j \in 0 .. Span(e) - 1 : q = Meet(e) + j
        BY <2>1
    <2>3. code[q] = Isn(program_list, e, j)
        BY <1>1, <2>2
    <2>4. e \in 1 .. 2 * n /\ j = Back(e) /\ code[q].back = Back(e)
        BY <1>2, <1>3, <2>3, Branches
    <2>5. Meet(e) \in Nat /\ Back(e) \in Nat
        BY MeetFacts DEF Back
    <2> QED
        BY <2>2, <2>4, <2>5
<1>4. ASSUME NEW e \in 1 .. 2 * n
      PROVE  \E q \in DOMAIN code : code[q].op = "beq" /\ Meet(e) = q - code[q].back
    <2>1. e \in Segment /\ Back(e) \in 0 .. Span(e) - 1
        BY NIsNat DEF Segment, Back, Span
    <2> DEFINE q == Meet(e) + Back(e)
    <2>2. code[q] = Isn(program_list, e, Back(e))
        BY <1>1, <2>1
    <2>3. code[q].op = "beq" /\ code[q].back = Back(e)
        BY <1>2, <2>1, <2>2, Branches
    <2>4. Meet(e) \in Nat /\ Back(e) \in Nat /\ q \in 1 .. 16 + 60 * n
        <3>1. Span(e) \in {6, 10, 26, 34} /\ Meet(e) \in Nat /\ 1 <= Meet(e)
              /\ Meet(e) + Span(e) <= 17 + 60 * n
            BY <2>1, MeetFacts
        <3> QED
            BY <2>1, <3>1, NIsNat
    <2> QED
        BY <1>1, <2>3, <2>4
<1> QED
    BY <1>3, <1>4 DEF Targets

(* Two passes meet where a segment begins, the first one excepted.         *)
LEMMA Meeting ==
    ASSUME Compiled
    PROVE  /\ \A e \in Segment : \A j \in 0 .. Span(e) - 1 :
                  Meets(Meet(e) + j) <=> j = 0 /\ e # 0
           /\ ~Meets(17 + 60 * n)
<1>1. \A q : Meets(q) <=> \E f \in 1 .. 2 * n + 1 : q = Meet(f)
    <2>1. \A f : f \in 1 .. 2 * n + 1 <=> f \in 1 .. 2 * n \/ f = 2 * n + 1
        BY NIsNat
    <2> QED
        BY <2>1, CodeAt, TargetsAre DEF Meets
<1>2. ASSUME NEW e \in Segment, NEW j \in 0 .. Span(e) - 1
      PROVE  Meets(Meet(e) + j) <=> j = 0 /\ e # 0
    <2>1. Meet(e) \in Nat /\ Span(e) \in Nat
        BY MeetFacts
    <2>2. ASSUME j = 0, e # 0 PROVE Meets(Meet(e) + j)
        <3>1. e \in 1 .. 2 * n + 1 /\ Meet(e) + j = Meet(e)
            BY <2>1, <2>2 DEF Segment
        <3> QED
            BY <1>1, <3>1
    <2>3. ASSUME NEW f \in 1 .. 2 * n + 1, Meet(e) + j = Meet(f)
          PROVE  j = 0 /\ e # 0
        <3>1. f \in Segment /\ f \in Int /\ e \in Int
            BY NIsNat DEF Segment
        <3>2. Meet(f) \in Nat /\ Span(f) >= 6
            BY <3>1, MeetFacts
        <3>3. ~(e < f)
            BY <2>1, <2>3, <3>1, <3>2, MeetOrder
        <3>4. ~(f < e)
            <4>1. f < e => Meet(f) + Span(f) <= Meet(e)
                BY <3>1, MeetOrder
            <4>2. Span(f) \in Nat
                BY <3>1, MeetFacts
            <4> QED
                BY <2>1, <2>3, <3>2, <4>1, <4>2
        <3>5. e = f
            BY <3>1, <3>3, <3>4
        <3> QED
            BY <2>1, <2>3, <3>5
    <2> QED
        BY <1>1, <2>2, <2>3
<1>3. ~Meets(17 + 60 * n)
    <2>1. ASSUME NEW f \in 1 .. 2 * n + 1 PROVE 17 + 60 * n # Meet(f)
        <3>1. f \in Segment
            BY NIsNat DEF Segment
        <3>2. Meet(f) \in Nat /\ Span(f) \in {6, 10, 26, 34} /\ Meet(f) + Span(f) <= 17 + 60 * n
            BY <3>1, MeetFacts
        <3> QED
            BY <3>2, NIsNat
    <2> QED
        BY <1>1, <2>1
<1> QED
    BY <1>2, <1>3

-----------------------------------------------------------------------------
(* What a pass of HashwxVM computes, an instruction in two halves, as the  *)
(* compiler writes it.                                                     *)
Half(p, k, v) ==
    IF k \in {2, 4, 6} THEN Mixed(p[k].opcode, v, p[k].imm) ELSE Shifted(p[k].opcode, v, p[k].imm)
Full(p, k, h, s) == IF k \in {2, 4, 6} THEN Mul(h, s) ELSE Combined(p[k].opcode, h, s)

(* Instruction k of program p done by HashwxVM, and its second operand.    *)
Do(p, k, rs, ph, mm) == Apply(p[k], rs, Second(p[k], rs, ph, mm))
Source(p, k, rs, ph, mm) == IF ph = "mem" THEN mm[Slot(rs[p[k].src])] ELSE rs[p[k].src]

(* The operands of a scheduled program.                                    *)
Apart(p) ==
    /\ \A k \in Operands : p[k].dst \in 0 .. 7
    /\ \A j, k \in Operands : j # k => p[j].dst # p[k].dst
    /\ \A k \in Operands \ {0} : p[k].src \in 0 .. 7 /\ p[k].src # p[k].dst
    /\ p[0].src \in {8, 9}
    /\ \A k \in {1, 2, 3, 4} : p[k].src # p[0].dst
    /\ p[3].src # p[2].dst /\ p[5].src # p[4].dst /\ p[8].src # p[6].dst

(* What a scheduled program keeps apart, as a list of inequations.         *)
LEMMA ScheduledApart ==
    ASSUME NEW p, Scheduled(p)
    PROVE  Apart(p)
<1>1. Layout(p) /\ Settled(p) /\ p \in [Line -> Instr]
    BY DEF Scheduled, Program
<1>2. \A k \in Operands : p[k].dst \in 0 .. 7
    BY <1>1 DEF Operands, Line, Instr, Dst
<1>3. /\ \A j, k \in Operands : j # k => p[j].dst # p[k].dst
      /\ \A k \in Operands \ {0} : p[k].src \in 0 .. 7 /\ p[k].src # p[k].dst
      /\ p[0].src \in {8, 9}
    BY <1>1 DEF Layout, Dst
<1>4. ASSUME NEW j \in Products, NEW k \in j + 1 .. j + 4, k <= 7
      PROVE  p[Slots[k]].src # p[j].dst
    BY <1>1, <1>4 DEF Settled
<1>5. \A k \in {1, 2, 3, 4} : p[k].src # p[0].dst
    <2>1. 0 \in Products /\ \A k \in {1, 2, 3, 4} : k \in 0 + 1 .. 0 + 4 /\ k <= 7 /\ Slots[k] = k
        BY DEF Products, Slots
    <2>2. ASSUME NEW k \in {1, 2, 3, 4} PROVE p[k].src # p[0].dst
        <3>1. p[Slots[k]].src # p[0].dst
            BY <1>4, <2>1
        <3> QED
            BY <2>1, <3>1
    <2> QED
        BY <2>2
<1>6. p[3].src # p[2].dst
    <2>1. 2 \in Products /\ 3 \in 2 + 1 .. 2 + 4 /\ 3 <= 7 /\ Slots[3] = 3
        BY DEF Products, Slots
    <2>2. p[Slots[3]].src # p[2].dst
        BY <1>4, <2>1
    <2> QED
        BY <2>1, <2>2
<1>7. p[5].src # p[4].dst
    <2>1. 4 \in Products /\ 5 \in 4 + 1 .. 4 + 4 /\ 5 <= 7 /\ Slots[5] = 5
        BY DEF Products, Slots
    <2>2. p[Slots[5]].src # p[4].dst
        BY <1>4, <2>1
    <2> QED
        BY <2>1, <2>2
<1>8. p[8].src # p[6].dst
    <2>1. 6 \in Products /\ 7 \in 6 + 1 .. 6 + 4 /\ 7 <= 7 /\ Slots[7] = 8
        BY DEF Products, Slots
    <2>2. p[Slots[7]].src # p[6].dst
        BY <1>4, <2>1
    <2> QED
        BY <2>1, <2>2
<1> QED
    BY <1>2, <1>3, <1>5, <1>6, <1>7, <1>8 DEF Apart

(* r[d] becomes v.                                                         *)
Wrote(f, t, d, v) ==
    \A q \in 0 .. 17 : t[q] = IF q = d THEN v ELSE f[q]
Updated(f, t, d, v) ==
    DOMAIN t = Reg /\ \A q \in Reg : t[q] = IF q = d THEN v ELSE f[q]

(* What an instruction of HashwxVM does, in halves.                        *)
LEMMA DoIs ==
    ASSUME NEW p, Scheduled(p), NEW rs, DOMAIN rs = Reg, NEW ph \in {"reg", "mem"}, NEW mm
    PROVE  /\ Updated(rs, Do(p, 0, rs, ph, mm), p[0].dst,
                      Ror(Mul(rs[p[0].dst], rs[p[0].src]), p[0].imm))
           /\ \A k \in Operands \ {0} :
                 Updated(rs, Do(p, k, rs, ph, mm), p[k].dst,
                         Full(p, k, Half(p, k, rs[p[k].dst]), Source(p, k, rs, ph, mm)))
<1>1. Layout(p) /\ Apart(p)
    BY ScheduledApart DEF Scheduled, Program
<1>2. ASSUME NEW k \in Operands
      PROVE  Updated(rs, Do(p, k, rs, ph, mm), p[k].dst,
                     Operate(p[k].opcode, rs[p[k].dst], p[k].imm, Second(p[k], rs, ph, mm)))
    <2>1. p[k].dst \in Reg
        BY <1>1 DEF Apart, Reg
    <2> QED
        BY <2>1 DEF Updated, Do, Apply
<1>3. Operate(p[0].opcode, rs[p[0].dst], p[0].imm, Second(p[0], rs, ph, mm))
          = Ror(Mul(rs[p[0].dst], rs[p[0].src]), p[0].imm)
    BY <1>1 DEF Layout, Operate, Second, RMCG, MulOps, MULOR, MULADD
<1>4. ASSUME NEW k \in Operands \ {0}
      PROVE  Operate(p[k].opcode, rs[p[k].dst], p[k].imm, Second(p[k], rs, ph, mm))
                 = Full(p, k, Half(p, k, rs[p[k].dst]), Source(p, k, rs, ph, mm))
    <2>1. CASE k \in {2, 4, 6}
        <3>1. p[k].opcode \in MulOps /\ p[k].opcode # RMCG
            BY <1>1, <2>1 DEF Layout, MulOps, MULOR, MULADD, RMCG
        <3> QED
            BY <2>1, <3>1 DEF Operate, Second, Source, Full, Half
    <2>2. CASE k \in {1, 3, 5, 8}
        <3>1. p[k].opcode \in XasOps /\ p[k].opcode # RMCG /\ p[k].opcode \notin MulOps
            BY <1>1, <2>2 DEF Layout, MulOps, MULOR, MULADD, RMCG, XasOps, XORROR, SUBLSR
        <3> QED
            BY <2>2, <3>1 DEF Operate, Second, Source, Full, Half
    <2> QED
        BY <2>1, <2>2 DEF Operands
<1> QED
    BY <1>2, <1>3, <1>4 DEF Operands

(* The file f holds the registers rs, those of D excepted.                 *)
Holds(f, rs, D) == \A k \in Reg \ D : f[HomeOf(k)] = rs[k]

(* Where the registers are.                                                *)
LEMMA Homes ==
    /\ \A k \in Reg : HomeOf(k) = (IF k < 8 THEN k ELSE k + 4) /\ HomeOf(k) \in 0 .. 13
    /\ \A k \in Reg, d \in 0 .. 7 : HomeOf(k) = d <=> k = d
    /\ \A k \in 0 .. 7 : k \in Reg /\ HomeOf(k) = k
    /\ \A k \in Reg : HomeOf(k) \notin {8, 9, 10, 11, 14, 15, 16, 17}
BY DEF HomeOf, Reg

(* The files y[0] to y[18] of a pass over program p in the first phase.    *)
RegRun(p, y) ==
    /\ Wrote(y[0], y[1], p[0].dst, Mul(y[0][p[0].dst], y[0][p[0].src + 4]))
    /\ Wrote(y[1], y[2], p[1].dst, Half(p, 1, y[1][p[1].dst]))
    /\ Wrote(y[2], y[3], 14, y[2][p[1].src])
    /\ Wrote(y[3], y[4], p[2].dst, Half(p, 2, y[3][p[2].dst]))
    /\ Wrote(y[4], y[5], p[1].dst, Full(p, 1, y[4][p[1].dst], y[4][14]))
    /\ Wrote(y[5], y[6], p[2].dst, Full(p, 2, y[5][p[2].dst], y[5][p[2].src]))
    /\ Wrote(y[6], y[7], p[3].dst, Half(p, 3, y[6][p[3].dst]))
    /\ Wrote(y[7], y[8], p[0].dst, Ror(y[7][p[0].dst], p[0].imm))
    /\ Wrote(y[8], y[9], p[3].dst, Full(p, 3, y[8][p[3].dst], y[8][p[3].src]))
    /\ Wrote(y[9], y[10], p[4].dst, Half(p, 4, y[9][p[4].dst]))
    /\ Wrote(y[10], y[11], p[4].dst, Full(p, 4, y[10][p[4].dst], y[10][p[4].src]))
    /\ Wrote(y[11], y[12], p[5].dst, Half(p, 5, y[11][p[5].dst]))
    /\ Wrote(y[12], y[13], 14, Or(y[12][p[0].dst], y[12][9]))
    /\ Wrote(y[13], y[14], p[5].dst, Full(p, 5, y[13][p[5].dst], y[13][p[5].src]))
    /\ Wrote(y[14], y[15], p[6].dst, Half(p, 6, y[14][p[6].dst]))
    /\ y[16] = y[15]
    /\ Wrote(y[16], y[17], 9, y[17][9])
    /\ Wrote(y[17], y[18], p[6].dst, Full(p, 6, y[17][p[6].dst], y[17][p[6].src]))

(* The registers R[k] of HashwxVM after instruction k of a pass from rs.   *)
Passes(p, rs, ph, mm, R) ==
    /\ R[0] = Do(p, 0, rs, ph, mm)
    /\ R[1] = Do(p, 1, R[0], ph, mm)
    /\ R[2] = Do(p, 2, R[1], ph, mm)
    /\ R[3] = Do(p, 3, R[2], ph, mm)
    /\ R[4] = Do(p, 4, R[3], ph, mm)
    /\ R[5] = Do(p, 5, R[4], ph, mm)
    /\ R[6] = Do(p, 6, R[5], ph, mm)
    /\ R[8] = Do(p, 8, R[6], ph, mm)

(* The same in halves.                                                     *)
Chain(p, rs, ph, mm, R) ==
    /\ Updated(rs, R[0], p[0].dst, Ror(Mul(rs[p[0].dst], rs[p[0].src]), p[0].imm))
    /\ Updated(R[0], R[1], p[1].dst, Full(p, 1, Half(p, 1, R[0][p[1].dst]), Source(p, 1, R[0], ph, mm)))
    /\ Updated(R[1], R[2], p[2].dst, Full(p, 2, Half(p, 2, R[1][p[2].dst]), Source(p, 2, R[1], ph, mm)))
    /\ Updated(R[2], R[3], p[3].dst, Full(p, 3, Half(p, 3, R[2][p[3].dst]), Source(p, 3, R[2], ph, mm)))
    /\ Updated(R[3], R[4], p[4].dst, Full(p, 4, Half(p, 4, R[3][p[4].dst]), Source(p, 4, R[3], ph, mm)))
    /\ Updated(R[4], R[5], p[5].dst, Full(p, 5, Half(p, 5, R[4][p[5].dst]), Source(p, 5, R[4], ph, mm)))
    /\ Updated(R[5], R[6], p[6].dst, Full(p, 6, Half(p, 6, R[5][p[6].dst]), Source(p, 6, R[5], ph, mm)))
    /\ Updated(R[6], R[8], p[8].dst, Full(p, 8, Half(p, 8, R[6][p[8].dst]), Source(p, 8, R[6], ph, mm)))

(* The registers of a pass, an instruction at a time and in halves.        *)
LEMMA PassesChain ==
    ASSUME NEW p, Scheduled(p), NEW rs, DOMAIN rs = Reg, NEW ph \in {"reg", "mem"}, NEW mm, NEW R,
           Passes(p, rs, ph, mm, R)
    PROVE  Chain(p, rs, ph, mm, R)
<1>1. Updated(rs, R[0], p[0].dst, Ror(Mul(rs[p[0].dst], rs[p[0].src]), p[0].imm))
    BY DoIs DEF Passes
<1>2. ASSUME NEW k \in Operands \ {0}, NEW r, DOMAIN r = Reg
      PROVE  /\ Updated(r, Do(p, k, r, ph, mm), p[k].dst,
                        Full(p, k, Half(p, k, r[p[k].dst]), Source(p, k, r, ph, mm)))
             /\ DOMAIN Do(p, k, r, ph, mm) = Reg
    <2>1. Updated(r, Do(p, k, r, ph, mm), p[k].dst,
                  Full(p, k, Half(p, k, r[p[k].dst]), Source(p, k, r, ph, mm)))
        BY <1>2, DoIs
    <2> QED
        BY <2>1 DEF Updated
<1>3. DOMAIN R[0] = Reg /\ {1, 2, 3, 4, 5, 6, 8} \subseteq Operands \ {0}
    BY <1>1 DEF Updated, Operands
<1>4. DOMAIN R[1] = Reg /\ DOMAIN R[2] = Reg /\ DOMAIN R[3] = Reg
    BY <1>2, <1>3 DEF Passes
<1>5. DOMAIN R[4] = Reg /\ DOMAIN R[5] = Reg /\ DOMAIN R[6] = Reg
    BY <1>2, <1>3, <1>4 DEF Passes
<1> QED
    BY <1>1, <1>2, <1>3, <1>4, <1>5 DEF Passes, Chain

(* A pass of the first phase: the registers of HashwxVM are in their homes *)
(* but for those an instruction is half done with.                         *)
LEMMA RegPass ==
    ASSUME NEW p, Scheduled(p), NEW rs, NEW mm, NEW R, Chain(p, rs, "reg", mm, R),
           NEW y, RegRun(p, y), Holds(y[0], rs, {})
    PROVE  /\ Holds(y[18], R[6], {})
           /\ y[14][14] = Or(R[0][p[0].dst], y[0][9])
           /\ y[16][9] = y[0][9]
<1> DEFINE d0 == p[0].dst
           d1 == p[1].dst
           d2 == p[2].dst
           d3 == p[3].dst
           d4 == p[4].dst
           d5 == p[5].dst
           d6 == p[6].dst
           s0 == p[0].src
           s1 == p[1].src
           s2 == p[2].src
           s3 == p[3].src
           s4 == p[4].src
           s5 == p[5].src
           s6 == p[6].src
           m0 == Mul(rs[d0], rs[s0])
           h1 == Half(p, 1, R[0][d1])
           h2 == Half(p, 2, R[1][d2])
           h3 == Half(p, 3, R[2][d3])
           h4 == Half(p, 4, R[3][d4])
           h5 == Half(p, 5, R[4][d5])
           h6 == Half(p, 6, R[5][d6])
<1>1. /\ {d0, d1, d2, d3, d4, d5, d6} \subseteq 0 .. 7
      /\ s0 \in {8, 9} /\ {s1, s2, s3, s4, s5, s6} \subseteq 0 .. 7
    BY ScheduledApart DEF Apart, Operands
<1>2. /\ d0 \notin {d1, d2, d3, d4, d5, d6} /\ d1 \notin {d2, d3, d4, d5, d6}
      /\ d2 \notin {d3, d4, d5, d6} /\ d3 \notin {d4, d5, d6} /\ d4 \notin {d5, d6} /\ d5 # d6
    BY ScheduledApart DEF Apart, Operands
<1>3. /\ s1 # d1 /\ s2 # d2 /\ s3 # d3 /\ s4 # d4 /\ s5 # d5 /\ s6 # d6
      /\ d0 \notin {s1, s2, s3, s4} /\ s3 # d2 /\ s5 # d4
    BY ScheduledApart DEF Apart, Operands
<1>a. /\ Updated(rs, R[0], d0, Ror(m0, p[0].imm))
      /\ Updated(R[0], R[1], d1, Full(p, 1, h1, R[0][s1]))
      /\ Updated(R[1], R[2], d2, Full(p, 2, h2, R[1][s2]))
      /\ Updated(R[2], R[3], d3, Full(p, 3, h3, R[2][s3]))
      /\ Updated(R[3], R[4], d4, Full(p, 4, h4, R[3][s4]))
      /\ Updated(R[4], R[5], d5, Full(p, 5, h5, R[4][s5]))
      /\ Updated(R[5], R[6], d6, Full(p, 6, h6, R[5][s6]))
    BY Zenon DEF Chain, Source
<1>b. /\ Wrote(y[0], y[1], d0, Mul(y[0][d0], y[0][s0 + 4]))
      /\ Wrote(y[1], y[2], d1, Half(p, 1, y[1][d1]))
      /\ Wrote(y[2], y[3], 14, y[2][s1])
      /\ Wrote(y[3], y[4], d2, Half(p, 2, y[3][d2]))
      /\ Wrote(y[4], y[5], d1, Full(p, 1, y[4][d1], y[4][14]))
      /\ Wrote(y[5], y[6], d2, Full(p, 2, y[5][d2], y[5][s2]))
      /\ Wrote(y[6], y[7], d3, Half(p, 3, y[6][d3]))
      /\ Wrote(y[7], y[8], d0, Ror(y[7][d0], p[0].imm))
      /\ Wrote(y[8], y[9], d3, Full(p, 3, y[8][d3], y[8][s3]))
      /\ Wrote(y[9], y[10], d4, Half(p, 4, y[9][d4]))
      /\ Wrote(y[10], y[11], d4, Full(p, 4, y[10][d4], y[10][s4]))
      /\ Wrote(y[11], y[12], d5, Half(p, 5, y[11][d5]))
      /\ Wrote(y[12], y[13], 14, Or(y[12][d0], y[12][9]))
      /\ Wrote(y[13], y[14], d5, Full(p, 5, y[13][d5], y[13][s5]))
      /\ Wrote(y[14], y[15], d6, Half(p, 6, y[14][d6]))
      /\ Wrote(y[16], y[17], 9, y[17][9])
      /\ Wrote(y[17], y[18], d6, Full(p, 6, y[17][d6], y[17][s6]))
      /\ y[16] = y[15]
    BY Zenon DEF RegRun
<1> HIDE DEF d0, d1, d2, d3, d4, d5, d6, s0, s1, s2, s3, s4, s5, s6, m0, h1, h2, h3, h4, h5, h6
<1>4. Updated(rs, R[0], d0, Ror(m0, p[0].imm))
    BY <1>a, Zenon
<1>5. Updated(R[0], R[1], d1, Full(p, 1, h1, R[0][s1]))
    BY <1>a, Zenon
<1>6. Updated(R[1], R[2], d2, Full(p, 2, h2, R[1][s2]))
    BY <1>a, Zenon
<1>7. Updated(R[2], R[3], d3, Full(p, 3, h3, R[2][s3]))
    BY <1>a, Zenon
<1>8. Updated(R[3], R[4], d4, Full(p, 4, h4, R[3][s4]))
    BY <1>a, Zenon
<1>9. Updated(R[4], R[5], d5, Full(p, 5, h5, R[4][s5]))
    BY <1>a, Zenon
<1>10. Updated(R[5], R[6], d6, Full(p, 6, h6, R[5][s6]))
    BY <1>a, Zenon
<1>11. Wrote(y[0], y[1], d0, Mul(y[0][d0], y[0][s0 + 4]))
    BY <1>b, Zenon
<1>12. Wrote(y[1], y[2], d1, Half(p, 1, y[1][d1]))
    BY <1>b, Zenon
<1>13. Wrote(y[2], y[3], 14, y[2][s1])
    BY <1>b, Zenon
<1>14. Wrote(y[3], y[4], d2, Half(p, 2, y[3][d2]))
    BY <1>b, Zenon
<1>15. Wrote(y[4], y[5], d1, Full(p, 1, y[4][d1], y[4][14]))
    BY <1>b, Zenon
<1>16. Wrote(y[5], y[6], d2, Full(p, 2, y[5][d2], y[5][s2]))
    BY <1>b, Zenon
<1>17. Wrote(y[6], y[7], d3, Half(p, 3, y[6][d3]))
    BY <1>b, Zenon
<1>18. Wrote(y[7], y[8], d0, Ror(y[7][d0], p[0].imm))
    BY <1>b, Zenon
<1>19. Wrote(y[8], y[9], d3, Full(p, 3, y[8][d3], y[8][s3]))
    BY <1>b, Zenon
<1>20. Wrote(y[9], y[10], d4, Half(p, 4, y[9][d4]))
    BY <1>b, Zenon
<1>21. Wrote(y[10], y[11], d4, Full(p, 4, y[10][d4], y[10][s4]))
    BY <1>b, Zenon
<1>22. Wrote(y[11], y[12], d5, Half(p, 5, y[11][d5]))
    BY <1>b, Zenon
<1>23. Wrote(y[12], y[13], 14, Or(y[12][d0], y[12][9]))
    BY <1>b, Zenon
<1>24. Wrote(y[13], y[14], d5, Full(p, 5, y[13][d5], y[13][s5]))
    BY <1>b, Zenon
<1>25. Wrote(y[14], y[15], d6, Half(p, 6, y[14][d6]))
    BY <1>b, Zenon
<1>26. Wrote(y[16], y[17], 9, y[17][9])
    BY <1>b, Zenon
<1>27. Wrote(y[17], y[18], d6, Full(p, 6, y[17][d6], y[17][s6]))
    BY <1>b, Zenon
<1>28. /\ Holds(y[1], R[0], {d0})
      /\ y[1][d0] = m0
      /\ y[1][9] = y[0][9]
    <2>0. HomeOf(8) = 12 /\ HomeOf(9) = 13 /\ 8 \in Reg /\ 9 \in Reg /\ 8 + 4 = 12 /\ 9 + 4 = 13
        BY DEF HomeOf, Reg
    <2>1. y[0][d0] = rs[d0] /\ y[0][s0 + 4] = rs[s0]
        BY <1>1, <2>0, Homes DEF Holds
    <2>2. Wrote(y[0], y[1], d0, m0)
        BY <2>1, <1>11 DEF m0
    <2> QED
        BY <1>1, <1>4, <2>2, Homes DEF Holds, Wrote, Updated
<1>29. /\ Holds(y[2], R[0], {d0, d1})
      /\ y[2][d0] = m0
      /\ y[2][d1] = h1
      /\ y[2][9] = y[0][9]
    BY <1>1, <1>2, <1>3, <1>28, <1>12, Homes DEF Holds, Wrote, h1
<1>30. /\ Holds(y[3], R[0], {d0, d1})
      /\ y[3][d0] = m0
      /\ y[3][d1] = h1
      /\ y[3][14] = R[0][s1]
      /\ y[3][9] = y[0][9]
    BY <1>1, <1>2, <1>3, <1>29, <1>13, Homes DEF Holds, Wrote
<1>31. /\ Holds(y[4], R[0], {d0, d1, d2})
      /\ y[4][d0] = m0
      /\ y[4][d1] = h1
      /\ y[4][d2] = h2
      /\ y[4][14] = R[0][s1]
      /\ y[4][9] = y[0][9]
    BY <1>1, <1>2, <1>3, <1>30, <1>14, <1>5, Homes DEF Holds, Wrote, Updated, h2
<1>32. /\ Holds(y[5], R[1], {d0, d2})
      /\ y[5][d0] = m0
      /\ y[5][d2] = h2
      /\ y[5][9] = y[0][9]
    BY <1>1, <1>2, <1>3, <1>31, <1>15, <1>5, Homes DEF Holds, Wrote, Updated
<1>33. /\ Holds(y[6], R[2], {d0})
      /\ y[6][d0] = m0
      /\ y[6][9] = y[0][9]
    BY <1>1, <1>2, <1>3, <1>32, <1>16, <1>6, Homes DEF Holds, Wrote, Updated
<1>34. /\ Holds(y[7], R[2], {d0, d3})
      /\ y[7][d0] = m0
      /\ y[7][d3] = h3
      /\ y[7][9] = y[0][9]
    BY <1>1, <1>2, <1>3, <1>33, <1>17, Homes DEF Holds, Wrote, h3
<1>35. /\ Holds(y[8], R[2], {d3})
      /\ y[8][d3] = h3
      /\ y[8][9] = y[0][9]
    BY <1>1, <1>2, <1>3, <1>34, <1>18, <1>4, <1>5, <1>6, Homes DEF Holds, Wrote, Updated
<1>36. /\ Holds(y[9], R[3], {})
      /\ y[9][9] = y[0][9]
    BY <1>1, <1>2, <1>3, <1>35, <1>19, <1>7, Homes DEF Holds, Wrote, Updated
<1>37. /\ Holds(y[10], R[3], {d4})
      /\ y[10][d4] = h4
      /\ y[10][9] = y[0][9]
    BY <1>1, <1>2, <1>3, <1>36, <1>20, Homes DEF Holds, Wrote, h4
<1>38. /\ Holds(y[11], R[4], {})
      /\ y[11][9] = y[0][9]
    BY <1>1, <1>2, <1>3, <1>37, <1>21, <1>8, Homes DEF Holds, Wrote, Updated
<1>39. /\ Holds(y[12], R[4], {d5})
      /\ y[12][d5] = h5
      /\ y[12][9] = y[0][9]
    BY <1>1, <1>2, <1>3, <1>38, <1>22, Homes DEF Holds, Wrote, h5
<1>40. /\ Holds(y[13], R[4], {d5})
      /\ y[13][d5] = h5
      /\ y[13][14] = Or(R[0][d0], y[0][9])
      /\ y[13][9] = y[0][9]
    BY <1>1, <1>2, <1>3, <1>39, <1>23, <1>5, <1>6, <1>7, <1>8, Homes DEF Holds, Wrote, Updated
<1>41. /\ Holds(y[14], R[5], {})
      /\ y[14][14] = Or(R[0][d0], y[0][9])
      /\ y[14][9] = y[0][9]
    BY <1>1, <1>2, <1>3, <1>40, <1>24, <1>9, Homes DEF Holds, Wrote, Updated
<1>42. /\ Holds(y[15], R[5], {d6})
      /\ y[15][d6] = h6
      /\ y[15][9] = y[0][9]
    BY <1>1, <1>2, <1>3, <1>41, <1>25, Homes DEF Holds, Wrote, h6
<1>43. y[16] = y[15]
    BY <1>b, Zenon
<1>44. /\ Holds(y[17], R[5], {d6})
      /\ y[17][d6] = h6
    BY <1>1, <1>2, <1>3, <1>42, <1>43, <1>26, Homes DEF Holds, Wrote, h6
<1>45. /\ Holds(y[18], R[6], {})
    BY <1>1, <1>2, <1>3, <1>44, <1>27, <1>10, Homes DEF Holds, Wrote, Updated
<1> QED
    BY <1>45, <1>41, <1>42, <1>43 DEF d0

(* The same in the second phase, with the memory mm.                        *)
MemRun(p, y, mm) ==
    /\ Wrote(y[0], y[1], 15, 8 * Slot(y[0][p[1].src]))
    /\ Wrote(y[1], y[2], 15, mm[(0 + y[1][15]) \div 8])
    /\ Wrote(y[2], y[3], p[1].dst, Half(p, 1, y[2][p[1].dst]))
    /\ Wrote(y[3], y[4], p[0].dst, Mul(y[3][p[0].dst], y[3][p[0].src + 4]))
    /\ Wrote(y[4], y[5], p[1].dst, Full(p, 1, y[4][p[1].dst], y[4][15]))
    /\ Wrote(y[5], y[6], 16, 8 * Slot(y[5][p[2].src]))
    /\ Wrote(y[6], y[7], 16, mm[(0 + y[6][16]) \div 8])
    /\ Wrote(y[7], y[8], 17, 8 * Slot(y[7][p[3].src]))
    /\ Wrote(y[8], y[9], 17, mm[(0 + y[8][17]) \div 8])
    /\ Wrote(y[9], y[10], p[2].dst, Half(p, 2, y[9][p[2].dst]))
    /\ Wrote(y[10], y[11], p[3].dst, Half(p, 3, y[10][p[3].dst]))
    /\ Wrote(y[11], y[12], p[0].dst, Ror(y[11][p[0].dst], p[0].imm))
    /\ Wrote(y[12], y[13], p[2].dst, Full(p, 2, y[12][p[2].dst], y[12][16]))
    /\ Wrote(y[13], y[14], p[3].dst, Full(p, 3, y[13][p[3].dst], y[13][17]))
    /\ Wrote(y[14], y[15], 16, 8 * Slot(y[14][p[4].src]))
    /\ Wrote(y[15], y[16], 16, mm[(0 + y[15][16]) \div 8])
    /\ Wrote(y[16], y[17], 17, 8 * Slot(y[16][p[5].src]))
    /\ Wrote(y[17], y[18], 17, mm[(0 + y[17][17]) \div 8])
    /\ Wrote(y[18], y[19], p[4].dst, Half(p, 4, y[18][p[4].dst]))
    /\ Wrote(y[19], y[20], p[5].dst, Half(p, 5, y[19][p[5].dst]))
    /\ Wrote(y[20], y[21], 14, Or(y[20][p[0].dst], y[20][9]))
    /\ Wrote(y[21], y[22], p[4].dst, Full(p, 4, y[21][p[4].dst], y[21][16]))
    /\ Wrote(y[22], y[23], p[5].dst, Full(p, 5, y[22][p[5].dst], y[22][17]))
    /\ Wrote(y[23], y[24], 16, 8 * Slot(y[23][p[6].src]))
    /\ Wrote(y[24], y[25], 16, mm[(0 + y[24][16]) \div 8])
    /\ Wrote(y[25], y[26], 17, 8 * Slot(y[25][p[8].src]))
    /\ Wrote(y[26], y[27], 17, mm[(0 + y[26][17]) \div 8])
    /\ Wrote(y[27], y[28], p[6].dst, Half(p, 6, y[27][p[6].dst]))
    /\ y[29] = y[28]
    /\ Wrote(y[29], y[30], 9, y[30][9])
    /\ Wrote(y[30], y[31], p[6].dst, Full(p, 6, y[30][p[6].dst], y[30][16]))

(* They are all registers.                                                 *)
AllRegisters(rs, R) == rs \in Registers /\ \A k \in {0, 1, 2, 3, 4, 5, 6} : R[k] \in Registers

(* Instructions moved ahead of one another in the second phase leave the   *)
(* registers HashwxVM computes, as in RegPass.                             *)
LEMMA MemPass ==
    ASSUME NEW p, Scheduled(p), NEW rs, NEW mm, NEW R, Chain(p, rs, "mem", mm, R),
           NEW y, MemRun(p, y, mm), Holds(y[0], rs, {}), AllRegisters(rs, R)
    PROVE  /\ Holds(y[31], R[6], {})
           /\ y[31][17] = mm[Slot(R[6][p[8].src])]
           /\ y[28][14] = Or(R[0][p[0].dst], y[0][9])
           /\ y[29][9] = y[0][9]
<1> DEFINE d0 == p[0].dst
           d1 == p[1].dst
           d2 == p[2].dst
           d3 == p[3].dst
           d4 == p[4].dst
           d5 == p[5].dst
           d6 == p[6].dst
           s0 == p[0].src
           s1 == p[1].src
           s2 == p[2].src
           s3 == p[3].src
           s4 == p[4].src
           s5 == p[5].src
           s6 == p[6].src
           s8 == p[8].src
           m0 == Mul(rs[d0], rs[s0])
           h1 == Half(p, 1, R[0][d1])
           h2 == Half(p, 2, R[1][d2])
           h3 == Half(p, 3, R[2][d3])
           h4 == Half(p, 4, R[3][d4])
           h5 == Half(p, 5, R[4][d5])
           h6 == Half(p, 6, R[5][d6])
<1>1. /\ {d0, d1, d2, d3, d4, d5, d6} \subseteq 0 .. 7
      /\ s0 \in {8, 9} /\ {s1, s2, s3, s4, s5, s6, s8} \subseteq 0 .. 7
    BY ScheduledApart DEF Apart, Operands
<1>2. /\ d0 \notin {d1, d2, d3, d4, d5, d6} /\ d1 \notin {d2, d3, d4, d5, d6}
      /\ d2 \notin {d3, d4, d5, d6} /\ d3 \notin {d4, d5, d6} /\ d4 \notin {d5, d6} /\ d5 # d6
    BY ScheduledApart DEF Apart, Operands
<1>3. /\ s1 # d1 /\ s2 # d2 /\ s3 # d3 /\ s4 # d4 /\ s5 # d5 /\ s6 # d6
      /\ d0 \notin {s1, s2, s3, s4} /\ s3 # d2 /\ s5 # d4 /\ s8 # d6
    BY ScheduledApart DEF Apart, Operands
<1>4. /\ Updated(rs, R[0], d0, Ror(m0, p[0].imm))
      /\ Updated(R[0], R[1], d1, Full(p, 1, h1, mm[Slot(R[0][s1])]))
      /\ Updated(R[1], R[2], d2, Full(p, 2, h2, mm[Slot(R[1][s2])]))
      /\ Updated(R[2], R[3], d3, Full(p, 3, h3, mm[Slot(R[2][s3])]))
      /\ Updated(R[3], R[4], d4, Full(p, 4, h4, mm[Slot(R[3][s4])]))
      /\ Updated(R[4], R[5], d5, Full(p, 5, h5, mm[Slot(R[4][s5])]))
      /\ Updated(R[5], R[6], d6, Full(p, 6, h6, mm[Slot(R[5][s6])]))
    BY Zenon DEF Chain, Source
<1>5. /\ Wrote(y[0], y[1], 15, 8 * Slot(y[0][s1]))
      /\ Wrote(y[1], y[2], 15, mm[(0 + y[1][15]) \div 8])
      /\ Wrote(y[2], y[3], d1, Half(p, 1, y[2][d1]))
      /\ Wrote(y[3], y[4], d0, Mul(y[3][d0], y[3][s0 + 4]))
      /\ Wrote(y[4], y[5], d1, Full(p, 1, y[4][d1], y[4][15]))
      /\ Wrote(y[5], y[6], 16, 8 * Slot(y[5][s2]))
      /\ Wrote(y[6], y[7], 16, mm[(0 + y[6][16]) \div 8])
      /\ Wrote(y[7], y[8], 17, 8 * Slot(y[7][s3]))
      /\ Wrote(y[8], y[9], 17, mm[(0 + y[8][17]) \div 8])
      /\ Wrote(y[9], y[10], d2, Half(p, 2, y[9][d2]))
      /\ Wrote(y[10], y[11], d3, Half(p, 3, y[10][d3]))
      /\ Wrote(y[11], y[12], d0, Ror(y[11][d0], p[0].imm))
      /\ Wrote(y[12], y[13], d2, Full(p, 2, y[12][d2], y[12][16]))
      /\ Wrote(y[13], y[14], d3, Full(p, 3, y[13][d3], y[13][17]))
      /\ Wrote(y[14], y[15], 16, 8 * Slot(y[14][s4]))
      /\ Wrote(y[15], y[16], 16, mm[(0 + y[15][16]) \div 8])
      /\ Wrote(y[16], y[17], 17, 8 * Slot(y[16][s5]))
      /\ Wrote(y[17], y[18], 17, mm[(0 + y[17][17]) \div 8])
      /\ Wrote(y[18], y[19], d4, Half(p, 4, y[18][d4]))
      /\ Wrote(y[19], y[20], d5, Half(p, 5, y[19][d5]))
      /\ Wrote(y[20], y[21], 14, Or(y[20][d0], y[20][9]))
      /\ Wrote(y[21], y[22], d4, Full(p, 4, y[21][d4], y[21][16]))
      /\ Wrote(y[22], y[23], d5, Full(p, 5, y[22][d5], y[22][17]))
      /\ Wrote(y[23], y[24], 16, 8 * Slot(y[23][s6]))
      /\ Wrote(y[24], y[25], 16, mm[(0 + y[24][16]) \div 8])
      /\ Wrote(y[25], y[26], 17, 8 * Slot(y[25][s8]))
      /\ Wrote(y[26], y[27], 17, mm[(0 + y[26][17]) \div 8])
      /\ Wrote(y[27], y[28], d6, Half(p, 6, y[27][d6]))
      /\ Wrote(y[29], y[30], 9, y[30][9])
      /\ Wrote(y[30], y[31], d6, Full(p, 6, y[30][d6], y[30][16]))
      /\ y[29] = y[28]
    BY Zenon DEF MemRun
<1>6. \A w \in Word : (0 + 8 * Slot(w)) \div 8 = Slot(w)
    <2>1. \A w \in Word : Slot(w) \in Nat
        BY WordAssumption
    <2>2. \A c \in Nat : (0 + 8 * c) \div 8 = c
        OBVIOUS
    <2> QED
        BY <2>1, <2>2
<1> HIDE DEF d0, d1, d2, d3, d4, d5, d6, s0, s1, s2, s3, s4, s5, s6, s8, m0, h1, h2, h3, h4, h5, h6
<1>7. /\ rs[s1] \in Word /\ R[0][s1] \in Word /\ R[1][s2] \in Word /\ R[2][s3] \in Word
      /\ R[3][s4] \in Word /\ R[4][s5] \in Word /\ R[5][s6] \in Word /\ R[6][s8] \in Word
    BY <1>1 DEF Registers, Reg, AllRegisters
<1>8. Updated(rs, R[0], d0, Ror(m0, p[0].imm))
    BY <1>4, Zenon
<1>9. Updated(R[0], R[1], d1, Full(p, 1, h1, mm[Slot(R[0][s1])]))
    BY <1>4, Zenon
<1>10. Updated(R[1], R[2], d2, Full(p, 2, h2, mm[Slot(R[1][s2])]))
    BY <1>4, Zenon
<1>11. Updated(R[2], R[3], d3, Full(p, 3, h3, mm[Slot(R[2][s3])]))
    BY <1>4, Zenon
<1>12. Updated(R[3], R[4], d4, Full(p, 4, h4, mm[Slot(R[3][s4])]))
    BY <1>4, Zenon
<1>13. Updated(R[4], R[5], d5, Full(p, 5, h5, mm[Slot(R[4][s5])]))
    BY <1>4, Zenon
<1>14. Updated(R[5], R[6], d6, Full(p, 6, h6, mm[Slot(R[5][s6])]))
    BY <1>4, Zenon
<1>15. Wrote(y[0], y[1], 15, 8 * Slot(y[0][s1]))
    BY <1>5, Zenon
<1>16. Wrote(y[1], y[2], 15, mm[(0 + y[1][15]) \div 8])
    BY <1>5, Zenon
<1>17. Wrote(y[2], y[3], d1, Half(p, 1, y[2][d1]))
    BY <1>5, Zenon
<1>18. Wrote(y[3], y[4], d0, Mul(y[3][d0], y[3][s0 + 4]))
    BY <1>5, Zenon
<1>19. Wrote(y[4], y[5], d1, Full(p, 1, y[4][d1], y[4][15]))
    BY <1>5, Zenon
<1>20. Wrote(y[5], y[6], 16, 8 * Slot(y[5][s2]))
    BY <1>5, Zenon
<1>21. Wrote(y[6], y[7], 16, mm[(0 + y[6][16]) \div 8])
    BY <1>5, Zenon
<1>22. Wrote(y[7], y[8], 17, 8 * Slot(y[7][s3]))
    BY <1>5, Zenon
<1>23. Wrote(y[8], y[9], 17, mm[(0 + y[8][17]) \div 8])
    BY <1>5, Zenon
<1>24. Wrote(y[9], y[10], d2, Half(p, 2, y[9][d2]))
    BY <1>5, Zenon
<1>25. Wrote(y[10], y[11], d3, Half(p, 3, y[10][d3]))
    BY <1>5, Zenon
<1>26. Wrote(y[11], y[12], d0, Ror(y[11][d0], p[0].imm))
    BY <1>5, Zenon
<1>27. Wrote(y[12], y[13], d2, Full(p, 2, y[12][d2], y[12][16]))
    BY <1>5, Zenon
<1>28. Wrote(y[13], y[14], d3, Full(p, 3, y[13][d3], y[13][17]))
    BY <1>5, Zenon
<1>29. Wrote(y[14], y[15], 16, 8 * Slot(y[14][s4]))
    BY <1>5, Zenon
<1>30. Wrote(y[15], y[16], 16, mm[(0 + y[15][16]) \div 8])
    BY <1>5, Zenon
<1>31. Wrote(y[16], y[17], 17, 8 * Slot(y[16][s5]))
    BY <1>5, Zenon
<1>32. Wrote(y[17], y[18], 17, mm[(0 + y[17][17]) \div 8])
    BY <1>5, Zenon
<1>33. Wrote(y[18], y[19], d4, Half(p, 4, y[18][d4]))
    BY <1>5, Zenon
<1>34. Wrote(y[19], y[20], d5, Half(p, 5, y[19][d5]))
    BY <1>5, Zenon
<1>35. Wrote(y[20], y[21], 14, Or(y[20][d0], y[20][9]))
    BY <1>5, Zenon
<1>36. Wrote(y[21], y[22], d4, Full(p, 4, y[21][d4], y[21][16]))
    BY <1>5, Zenon
<1>37. Wrote(y[22], y[23], d5, Full(p, 5, y[22][d5], y[22][17]))
    BY <1>5, Zenon
<1>38. Wrote(y[23], y[24], 16, 8 * Slot(y[23][s6]))
    BY <1>5, Zenon
<1>39. Wrote(y[24], y[25], 16, mm[(0 + y[24][16]) \div 8])
    BY <1>5, Zenon
<1>40. Wrote(y[25], y[26], 17, 8 * Slot(y[25][s8]))
    BY <1>5, Zenon
<1>41. Wrote(y[26], y[27], 17, mm[(0 + y[26][17]) \div 8])
    BY <1>5, Zenon
<1>42. Wrote(y[27], y[28], d6, Half(p, 6, y[27][d6]))
    BY <1>5, Zenon
<1>43. Wrote(y[29], y[30], 9, y[30][9])
    BY <1>5, Zenon
<1>44. Wrote(y[30], y[31], d6, Full(p, 6, y[30][d6], y[30][16]))
    BY <1>5, Zenon
<1>45. y[29] = y[28]
    BY <1>5, Zenon
<1>46. /\ Holds(y[1], rs, {})
      /\ y[1][15] = 8 * Slot(rs[s1])
      /\ y[1][9] = y[0][9]
    BY <1>1, <1>2, <1>3, <1>15, Homes DEF Holds, Wrote
<1>47. /\ Holds(y[2], rs, {})
      /\ y[2][15] = mm[Slot(R[0][s1])]
      /\ y[2][9] = y[0][9]
    <2>1. y[1][15] = 8 * Slot(rs[s1]) /\ (0 + 8 * Slot(rs[s1])) \div 8 = Slot(rs[s1])
        BY <1>46, <1>6, <1>7
    <2>2. Wrote(y[1], y[2], 15, mm[Slot(rs[s1])])
        BY <1>16, <2>1
    <2> QED
        BY <1>1, <1>2, <1>3, <1>46, <2>2, <1>8, Homes DEF Holds, Wrote, Updated
<1>48. /\ Holds(y[3], rs, {d1})
      /\ y[3][d1] = h1
      /\ y[3][15] = mm[Slot(R[0][s1])]
      /\ y[3][9] = y[0][9]
    BY <1>1, <1>2, <1>3, <1>47, <1>17, <1>8, Homes DEF Holds, Wrote, Updated, h1
<1>49. /\ Holds(y[4], R[0], {d0, d1})
      /\ y[4][d0] = m0
      /\ y[4][d1] = h1
      /\ y[4][15] = mm[Slot(R[0][s1])]
      /\ y[4][9] = y[0][9]
    <2>0. HomeOf(8) = 12 /\ HomeOf(9) = 13 /\ 8 \in Reg /\ 9 \in Reg /\ 8 + 4 = 12 /\ 9 + 4 = 13
        BY DEF HomeOf, Reg
    <2>1. y[3][d0] = rs[d0] /\ y[3][s0 + 4] = rs[s0]
        BY <1>1, <1>2, <1>48, <2>0, Homes DEF Holds
    <2>2. Wrote(y[3], y[4], d0, m0)
        BY <2>1, <1>18 DEF m0
    <2> QED
        BY <1>1, <1>2, <1>3, <1>48, <1>8, <2>2, Homes DEF Holds, Wrote, Updated
<1>50. /\ Holds(y[5], R[1], {d0})
      /\ y[5][d0] = m0
      /\ y[5][9] = y[0][9]
    BY <1>1, <1>2, <1>3, <1>49, <1>19, <1>9, Homes DEF Holds, Wrote, Updated
<1>51. /\ Holds(y[6], R[1], {d0})
      /\ y[6][d0] = m0
      /\ y[6][16] = 8 * Slot(R[1][s2])
      /\ y[6][9] = y[0][9]
    BY <1>1, <1>2, <1>3, <1>50, <1>20, Homes DEF Holds, Wrote
<1>52. /\ Holds(y[7], R[1], {d0})
      /\ y[7][d0] = m0
      /\ y[7][16] = mm[Slot(R[1][s2])]
      /\ y[7][9] = y[0][9]
    <2>1. y[6][16] = 8 * Slot(R[1][s2]) /\ (0 + 8 * Slot(R[1][s2])) \div 8 = Slot(R[1][s2])
        BY <1>51, <1>6, <1>7
    <2>2. Wrote(y[6], y[7], 16, mm[Slot(R[1][s2])])
        BY <1>21, <2>1
    <2> QED
        BY <1>1, <1>2, <1>3, <1>51, <2>2, Homes DEF Holds, Wrote
<1>53. /\ Holds(y[8], R[1], {d0})
      /\ y[8][d0] = m0
      /\ y[8][16] = mm[Slot(R[1][s2])]
      /\ y[8][17] = 8 * Slot(R[2][s3])
      /\ y[8][9] = y[0][9]
    BY <1>1, <1>2, <1>3, <1>52, <1>22, <1>10, Homes DEF Holds, Wrote, Updated
<1>54. /\ Holds(y[9], R[1], {d0})
      /\ y[9][d0] = m0
      /\ y[9][16] = mm[Slot(R[1][s2])]
      /\ y[9][17] = mm[Slot(R[2][s3])]
      /\ y[9][9] = y[0][9]
    <2>1. y[8][17] = 8 * Slot(R[2][s3]) /\ (0 + 8 * Slot(R[2][s3])) \div 8 = Slot(R[2][s3])
        BY <1>53, <1>6, <1>7
    <2>2. Wrote(y[8], y[9], 17, mm[Slot(R[2][s3])])
        BY <1>23, <2>1
    <2> QED
        BY <1>1, <1>2, <1>3, <1>53, <2>2, Homes DEF Holds, Wrote
<1>55. /\ Holds(y[10], R[1], {d0, d2})
      /\ y[10][d0] = m0
      /\ y[10][d2] = h2
      /\ y[10][16] = mm[Slot(R[1][s2])]
      /\ y[10][17] = mm[Slot(R[2][s3])]
      /\ y[10][9] = y[0][9]
    BY <1>1, <1>2, <1>3, <1>54, <1>24, Homes DEF Holds, Wrote, h2
<1>56. /\ Holds(y[11], R[1], {d0, d2, d3})
      /\ y[11][d0] = m0
      /\ y[11][d2] = h2
      /\ y[11][d3] = h3
      /\ y[11][16] = mm[Slot(R[1][s2])]
      /\ y[11][17] = mm[Slot(R[2][s3])]
      /\ y[11][9] = y[0][9]
    BY <1>1, <1>2, <1>3, <1>55, <1>25, <1>10, Homes DEF Holds, Wrote, Updated, h3
<1>57. /\ Holds(y[12], R[1], {d2, d3})
      /\ y[12][d2] = h2
      /\ y[12][d3] = h3
      /\ y[12][16] = mm[Slot(R[1][s2])]
      /\ y[12][17] = mm[Slot(R[2][s3])]
      /\ y[12][9] = y[0][9]
    BY <1>1, <1>2, <1>3, <1>56, <1>26, <1>8, <1>9, Homes DEF Holds, Wrote, Updated
<1>58. /\ Holds(y[13], R[2], {d3})
      /\ y[13][d3] = h3
      /\ y[13][17] = mm[Slot(R[2][s3])]
      /\ y[13][9] = y[0][9]
    BY <1>1, <1>2, <1>3, <1>57, <1>27, <1>10, Homes DEF Holds, Wrote, Updated
<1>59. /\ Holds(y[14], R[3], {})
      /\ y[14][9] = y[0][9]
    BY <1>1, <1>2, <1>3, <1>58, <1>28, <1>11, Homes DEF Holds, Wrote, Updated
<1>60. /\ Holds(y[15], R[3], {})
      /\ y[15][16] = 8 * Slot(R[3][s4])
      /\ y[15][9] = y[0][9]
    BY <1>1, <1>2, <1>3, <1>59, <1>29, Homes DEF Holds, Wrote
<1>61. /\ Holds(y[16], R[3], {})
      /\ y[16][16] = mm[Slot(R[3][s4])]
      /\ y[16][9] = y[0][9]
    <2>1. y[15][16] = 8 * Slot(R[3][s4]) /\ (0 + 8 * Slot(R[3][s4])) \div 8 = Slot(R[3][s4])
        BY <1>60, <1>6, <1>7
    <2>2. Wrote(y[15], y[16], 16, mm[Slot(R[3][s4])])
        BY <1>30, <2>1
    <2> QED
        BY <1>1, <1>2, <1>3, <1>60, <2>2, Homes DEF Holds, Wrote
<1>62. /\ Holds(y[17], R[3], {})
      /\ y[17][16] = mm[Slot(R[3][s4])]
      /\ y[17][17] = 8 * Slot(R[4][s5])
      /\ y[17][9] = y[0][9]
    BY <1>1, <1>2, <1>3, <1>61, <1>31, <1>12, Homes DEF Holds, Wrote, Updated
<1>63. /\ Holds(y[18], R[3], {})
      /\ y[18][16] = mm[Slot(R[3][s4])]
      /\ y[18][17] = mm[Slot(R[4][s5])]
      /\ y[18][9] = y[0][9]
    <2>1. y[17][17] = 8 * Slot(R[4][s5]) /\ (0 + 8 * Slot(R[4][s5])) \div 8 = Slot(R[4][s5])
        BY <1>62, <1>6, <1>7
    <2>2. Wrote(y[17], y[18], 17, mm[Slot(R[4][s5])])
        BY <1>32, <2>1
    <2> QED
        BY <1>1, <1>2, <1>3, <1>62, <2>2, Homes DEF Holds, Wrote
<1>64. /\ Holds(y[19], R[3], {d4})
      /\ y[19][d4] = h4
      /\ y[19][16] = mm[Slot(R[3][s4])]
      /\ y[19][17] = mm[Slot(R[4][s5])]
      /\ y[19][9] = y[0][9]
    BY <1>1, <1>2, <1>3, <1>63, <1>33, Homes DEF Holds, Wrote, h4
<1>65. /\ Holds(y[20], R[3], {d4, d5})
      /\ y[20][d4] = h4
      /\ y[20][d5] = h5
      /\ y[20][16] = mm[Slot(R[3][s4])]
      /\ y[20][17] = mm[Slot(R[4][s5])]
      /\ y[20][9] = y[0][9]
    BY <1>1, <1>2, <1>3, <1>64, <1>34, <1>12, Homes DEF Holds, Wrote, Updated, h5
<1>66. /\ Holds(y[21], R[3], {d4, d5})
      /\ y[21][d4] = h4
      /\ y[21][d5] = h5
      /\ y[21][14] = Or(R[0][d0], y[0][9])
      /\ y[21][16] = mm[Slot(R[3][s4])]
      /\ y[21][17] = mm[Slot(R[4][s5])]
      /\ y[21][9] = y[0][9]
    BY <1>1, <1>2, <1>3, <1>65, <1>35, <1>9, <1>10, <1>11, Homes DEF Holds, Wrote, Updated
<1>67. /\ Holds(y[22], R[4], {d5})
      /\ y[22][d5] = h5
      /\ y[22][14] = Or(R[0][d0], y[0][9])
      /\ y[22][17] = mm[Slot(R[4][s5])]
      /\ y[22][9] = y[0][9]
    BY <1>1, <1>2, <1>3, <1>66, <1>36, <1>12, Homes DEF Holds, Wrote, Updated
<1>68. /\ Holds(y[23], R[5], {})
      /\ y[23][14] = Or(R[0][d0], y[0][9])
      /\ y[23][9] = y[0][9]
    BY <1>1, <1>2, <1>3, <1>67, <1>37, <1>13, Homes DEF Holds, Wrote, Updated
<1>69. /\ Holds(y[24], R[5], {})
      /\ y[24][14] = Or(R[0][d0], y[0][9])
      /\ y[24][16] = 8 * Slot(R[5][s6])
      /\ y[24][9] = y[0][9]
    BY <1>1, <1>2, <1>3, <1>68, <1>38, Homes DEF Holds, Wrote
<1>70. /\ Holds(y[25], R[5], {})
      /\ y[25][14] = Or(R[0][d0], y[0][9])
      /\ y[25][16] = mm[Slot(R[5][s6])]
      /\ y[25][9] = y[0][9]
    <2>1. y[24][16] = 8 * Slot(R[5][s6]) /\ (0 + 8 * Slot(R[5][s6])) \div 8 = Slot(R[5][s6])
        BY <1>69, <1>6, <1>7
    <2>2. Wrote(y[24], y[25], 16, mm[Slot(R[5][s6])])
        BY <1>39, <2>1
    <2> QED
        BY <1>1, <1>2, <1>3, <1>69, <2>2, Homes DEF Holds, Wrote
<1>71. /\ Holds(y[26], R[5], {})
      /\ y[26][14] = Or(R[0][d0], y[0][9])
      /\ y[26][16] = mm[Slot(R[5][s6])]
      /\ y[26][17] = 8 * Slot(R[6][s8])
      /\ y[26][9] = y[0][9]
    BY <1>1, <1>2, <1>3, <1>70, <1>40, <1>14, Homes DEF Holds, Wrote, Updated
<1>72. /\ Holds(y[27], R[5], {})
      /\ y[27][14] = Or(R[0][d0], y[0][9])
      /\ y[27][16] = mm[Slot(R[5][s6])]
      /\ y[27][17] = mm[Slot(R[6][s8])]
      /\ y[27][9] = y[0][9]
    <2>1. y[26][17] = 8 * Slot(R[6][s8]) /\ (0 + 8 * Slot(R[6][s8])) \div 8 = Slot(R[6][s8])
        BY <1>71, <1>6, <1>7
    <2>2. Wrote(y[26], y[27], 17, mm[Slot(R[6][s8])])
        BY <1>41, <2>1
    <2> QED
        BY <1>1, <1>2, <1>3, <1>71, <2>2, Homes DEF Holds, Wrote
<1>73. /\ Holds(y[28], R[5], {d6})
      /\ y[28][d6] = h6
      /\ y[28][14] = Or(R[0][d0], y[0][9])
      /\ y[28][16] = mm[Slot(R[5][s6])]
      /\ y[28][17] = mm[Slot(R[6][s8])]
      /\ y[28][9] = y[0][9]
    BY <1>1, <1>2, <1>3, <1>72, <1>42, Homes DEF Holds, Wrote, h6
<1>74. /\ Holds(y[30], R[5], {d6})
      /\ y[30][d6] = h6
      /\ y[30][16] = mm[Slot(R[5][s6])]
      /\ y[30][17] = mm[Slot(R[6][s8])]
    BY <1>1, <1>2, <1>3, <1>73, <1>45, <1>43, Homes DEF Holds, Wrote
<1>75. /\ Holds(y[31], R[6], {})
      /\ y[31][17] = mm[Slot(R[6][s8])]
    BY <1>1, <1>2, <1>3, <1>74, <1>44, <1>14, Homes DEF Holds, Wrote, Updated
<1> QED
    BY <1>75, <1>73, <1>45 DEF d0, s8

(* What every instruction of a pass leaves alone: the pointer to r[], the  *)
(* constants, the stack pointer, the stack and r[].                        *)
Plain(in) ==
    \/ in.op = "tst"
    \/ in.op \in OneWrite /\ in.to \in (0 .. 17) \ {8, 10, 11}

(* The instructions of a pass are of that kind.                            *)
LEMMA PlainPass ==
    ASSUME NEW p, Scheduled(p)
    PROVE  /\ \A i \in 1 .. 18 : Plain(reg_pass(p)[i])
           /\ \A i \in 1 .. 31 : Plain(mem_pass(p)[i])
           /\ Plain(emit_pre_xas(p[8])) /\ Plain(emit_xas(p[8], p[8].src)) /\ Plain(emit_xas(p[8], 17))
<1>0. \A k \in {0, 1, 2, 3, 4, 5, 6, 8} : p[k].dst \in (0 .. 17) \ {8, 10, 11}
    BY ScheduledApart DEF Apart, Operands
<1>1. \A k \in {2, 4, 6} : Plain(emit_premul(p[k]))
    BY <1>0, PremulIs DEF Scheduled, Plain, OneWrite
<1>2. \A k \in {1, 3, 5, 8} : Plain(emit_pre_xas(p[k]))
    BY <1>0, PreXasIs DEF Scheduled, Plain, OneWrite
<1>3. ASSUME NEW k \in {1, 3, 5, 8}, NEW r PROVE Plain(emit_xas(p[k], r))
    BY <1>0, XasIs DEF Scheduled, Plain, OneWrite
<1>4. \A d \in (0 .. 17) \ {8, 10, 11} : \A r :
          /\ Plain(emit_mul(d, r)) /\ Plain(emit_ror(d, r)) /\ Plain(Mov(d, r))
          /\ Plain(emit_and_2040(d, r)) /\ Plain(emit_ldr_sp(d))
    BY DEF emit_mul, emit_ror, Mov, emit_and_2040, emit_ldr_sp, Alu, Plain, OneWrite
<1>5. \A d, r : Plain(emit_orr(14, d, r)) /\ Plain(tst_flag) /\ Plain(cinc_loops)
    BY DEF emit_orr, tst_flag, cinc_loops, Alu, Plain, OneWrite
<1>6. \A i \in 1 .. 18 : Plain(reg_pass(p)[i])
    BY <1>0, <1>1, <1>2, <1>3, <1>4, <1>5 DEF reg_pass
<1>7. \A i \in 1 .. 31 : Plain(mem_pass(p)[i])
    BY <1>0, <1>1, <1>2, <1>3, <1>4, <1>5 DEF mem_pass
<1> QED
    BY <1>2, <1>3, <1>6, <1>7

(* The pointer to r[] and the constants are in their registers.            *)
Kept(s) == DOMAIN s.x = 0 .. 17 /\ s.x[8] = Ptr /\ s.x[10] = 9 /\ s.x[11] = 33
Same(s, t) == t.sp = s.sp /\ t.stack = s.stack /\ t.io = s.io

(* One of them keeps what they all leave alone.                            *)
LEMMA PlainKeeps ==
    ASSUME NEW in, Plain(in), NEW s, Kept(s)
    PROVE  Kept(Effect(in, s)) /\ Same(s, Effect(in, s))
<1>1. CASE in.op = "tst"
    BY <1>1 DEF Effect, OneWrite, Tested, State, Kept, Same
<1>2. CASE in.op \in OneWrite /\ in.to \in (0 .. 17) \ {8, 10, 11}
    <2>1. Effect(in, s) = Put(s, in.to, Result(in, s))
        BY <1>2 DEF Effect
    <2> QED
        BY <1>2, <2>1 DEF Put, State, Kept, Same
<1> QED
    BY <1>1, <1>2 DEF Plain

(* A run of m instructions of f.                                           *)
Ran(f, m, T) == \A i \in 0 .. m - 1 : T[i + 1] = Effect(f[i + 1], T[i])

(* So does a run of them.                                                  *)
LEMMA PlainRun ==
    ASSUME NEW f, NEW m \in Nat, NEW T, Ran(f, m, T), \A i \in 1 .. m : Plain(f[i]), Kept(T[0])
    PROVE  \A i \in 0 .. m : Kept(T[i]) /\ Same(T[0], T[i])
<1> SUFFICES ASSUME NEW k \in 0 .. m, ~(Kept(T[k]) /\ Same(T[0], T[k]))
             PROVE  FALSE
    OBVIOUS
<1> DEFINE S == {i \in 0 .. m : ~(Kept(T[i]) /\ Same(T[0], T[i]))}
<1>1. S \subseteq Nat /\ S # {}
    OBVIOUS
<1>2. PICK i \in S : \A j \in S : i <= j
    <2> HIDE DEF S
    <2> QED
        BY <1>1, LeastExists
<1>3. i # 0
    BY DEF Same
<1>4. i - 1 \in 0 .. m - 1 /\ i - 1 \notin S /\ (i - 1) + 1 = i /\ i \in 1 .. m
    BY <1>2, <1>3
<1>5. Kept(T[i - 1]) /\ Same(T[0], T[i - 1])
    BY <1>4
<1>6. T[i] = Effect(f[i], T[i - 1])
    BY <1>4 DEF Ran
<1>7. Kept(T[i]) /\ Same(T[i - 1], T[i])
    BY <1>4, <1>5, <1>6, PlainKeeps
<1>8. Same(T[0], T[i])
    BY <1>5, <1>7 DEF Same
<1> QED
    BY <1>7, <1>8

(* A register is written and nothing else.                                 *)
LEMMA PutWrote ==
    ASSUME NEW s, NEW t, NEW d \in 0 .. 17, NEW v, Kept(s), t = Put(s, d, v)
    PROVE  Wrote(s.x, t.x, d, v) /\ t.flag = s.flag
BY DEF Put, State, Kept, Wrote

(* Register d becomes v and the flag stays.                                *)
Turns(s, t, d, v) == Wrote(s.x, t.x, d, v) /\ t.flag = s.flag

(* The two halves of an instruction, on a state.                           *)
LEMMA HalvesTurn ==
    ASSUME NEW p, Scheduled(p), NEW s, Kept(s)
    PROVE  /\ \A k \in {2, 4, 6} :
                 /\ Turns(s, Effect(emit_premul(p[k]), s), p[k].dst, Half(p, k, s.x[p[k].dst]))
                 /\ \A r : Turns(s, Effect(emit_mul(p[k].dst, r), s), p[k].dst,
                                Full(p, k, s.x[p[k].dst], s.x[r]))
           /\ \A k \in {1, 3, 5, 8} :
                 /\ Turns(s, Effect(emit_pre_xas(p[k]), s), p[k].dst, Half(p, k, s.x[p[k].dst]))
                 /\ \A r : Turns(s, Effect(emit_xas(p[k], r), s), p[k].dst,
                                Full(p, k, s.x[p[k].dst], s.x[r]))
<1>1. \A k \in {1, 2, 3, 4, 5, 6, 8} : p[k].dst \in 0 .. 17
    BY ScheduledApart DEF Apart, Operands
<1>2. ASSUME NEW d \in 0 .. 17, NEW v PROVE Turns(s, Put(s, d, v), d, v)
    BY PutWrote DEF Turns
<1>3. ASSUME NEW k \in {2, 4, 6}
      PROVE  Effect(emit_premul(p[k]), s) = Put(s, p[k].dst, Half(p, k, s.x[p[k].dst]))
    BY PremulIs DEF Scheduled, Half, Kept
<1>4. ASSUME NEW k \in {2, 4, 6}, NEW r
      PROVE  Effect(emit_mul(p[k].dst, r), s) = Put(s, p[k].dst, Full(p, k, s.x[p[k].dst], s.x[r]))
    BY OthersAre DEF Full
<1>5. ASSUME NEW k \in {1, 3, 5, 8}
      PROVE  Effect(emit_pre_xas(p[k]), s) = Put(s, p[k].dst, Half(p, k, s.x[p[k].dst]))
    BY PreXasIs DEF Scheduled, Half
<1>6. ASSUME NEW k \in {1, 3, 5, 8}, NEW r
      PROVE  Effect(emit_xas(p[k], r), s) = Put(s, p[k].dst, Full(p, k, s.x[p[k].dst], s.x[r]))
    BY XasIs DEF Scheduled, Full
<1> QED
    BY <1>1, <1>2, <1>3, <1>4, <1>5, <1>6

(* The instructions between them, on a state.                              *)
LEMMA OthersTurn ==
    ASSUME NEW s, Kept(s), NEW d \in 0 .. 17
    PROVE  /\ \A r : Turns(s, Effect(emit_mul(d, r), s), d, Mul(s.x[d], s.x[r]))
           /\ \A imm : Turns(s, Effect(emit_ror(d, imm), s), d, Ror(s.x[d], imm))
           /\ \A r : Turns(s, Effect(emit_orr(14, d, r), s), 14, Or(s.x[d], s.x[r]))
           /\ \A r : Turns(s, Effect(Mov(d, X(r)), s), d, s.x[r])
           /\ \A r : Turns(s, Effect(emit_and_2040(d, r), s), d, 8 * Slot(s.x[r]))
           /\ Turns(s, Effect(emit_ldr_sp(d), s), d, s.stack[(s.sp + s.x[d]) \div 8])
           /\ Turns(s, Effect(cinc_loops, s), 9, IF s.flag = 1 THEN Add(s.x[9], 1) ELSE s.x[9])
<1>1. ASSUME NEW q \in 0 .. 17, NEW v PROVE Turns(s, Put(s, q, v), q, v)
    BY PutWrote DEF Turns
<1>2. 9 \in 0 .. 17 /\ 14 \in 0 .. 17
    OBVIOUS
<1>3. \A r : Turns(s, Effect(emit_mul(d, r), s), d, Mul(s.x[d], s.x[r]))
    BY <1>1, OthersAre
<1>4. \A imm : Turns(s, Effect(emit_ror(d, imm), s), d, Ror(s.x[d], imm))
    BY <1>1, OthersAre
<1>5. \A r : Turns(s, Effect(emit_orr(14, d, r), s), 14, Or(s.x[d], s.x[r]))
    BY <1>1, <1>2, OthersAre
<1>6. \A r : Turns(s, Effect(Mov(d, X(r)), s), d, s.x[r])
    BY <1>1, OthersAre
<1>7. \A r : Turns(s, Effect(emit_and_2040(d, r), s), d, 8 * Slot(s.x[r]))
    BY <1>1, OthersAre
<1>8. Turns(s, Effect(emit_ldr_sp(d), s), d, s.stack[(s.sp + s.x[d]) \div 8])
    BY <1>1, OthersAre
<1>9. Turns(s, Effect(cinc_loops, s), 9, IF s.flag = 1 THEN Add(s.x[9], 1) ELSE s.x[9])
    BY <1>1, <1>2, OthersAre
<1> QED
    BY <1>3, <1>4, <1>5, <1>6, <1>7, <1>8, <1>9

(* What the flag and the counter of loops are after a pass: the flag tells *)
(* what x14 asked for, and a loop it asks for is counted.                  *)
Counted(T, m, q) ==
    /\ T[m].flag = IF Looping(T[q].x[14]) THEN 1 ELSE 0
    /\ T[m].x[9] = IF T[m].flag = 1 THEN Add(T[q].x[9], 1) ELSE T[q].x[9]

(* Eighteen instructions of the machine are the eighteen of RegRun.        *)
LEMMA RegTrace ==
    ASSUME NEW p, Scheduled(p), NEW T, Ran(reg_pass(p), 18, T), Kept(T[0]),
           NEW y, y = [i \in 0 .. 18 |-> T[i].x]
    PROVE  RegRun(p, y) /\ Counted(T, 18, 15)
<1>1. \A i \in 0 .. 18 : Kept(T[i]) /\ y[i] = T[i].x
    BY PlainRun, PlainPass
<1>2. \A i \in 0 .. 17 : T[i + 1] = Effect(reg_pass(p)[i + 1], T[i])
    BY DEF Ran
<1>3. /\ \A k \in {0, 1, 2, 3, 4, 5, 6} : p[k].dst \in 0 .. 7
    BY ScheduledApart DEF Apart, Operands
<1>4. p[0].dst \in 0 .. 17 /\ 14 \in 0 .. 17
    BY <1>3
<1>5. Turns(T[0], T[1], p[0].dst, Mul(T[0].x[p[0].dst], T[0].x[p[0].src + 4]))
    <2>1. T[1] = Effect(emit_mul(p[0].dst, p[0].src + 4), T[0])
        BY <1>2 DEF reg_pass
    <2>2. Kept(T[0])
        BY <1>1
    <2>3. Turns(T[0], Effect(emit_mul(p[0].dst, p[0].src + 4), T[0]), p[0].dst,
                Mul(T[0].x[p[0].dst], T[0].x[p[0].src + 4]))
        BY <1>4, <2>2, OthersTurn, Zenon
    <2> QED
        BY <2>1, <2>3
<1>6. Turns(T[1], T[2], p[1].dst, Half(p, 1, T[1].x[p[1].dst]))
    <2>1. T[2] = Effect(emit_pre_xas(p[1]), T[1])
        BY <1>2 DEF reg_pass
    <2> QED
        BY <1>1, <1>3, <2>1, HalvesTurn
<1>7. Turns(T[2], T[3], 14, T[2].x[p[1].src])
    <2>1. T[3] = Effect(Mov(14, X(p[1].src)), T[2])
        BY <1>2 DEF reg_pass
    <2>2. Kept(T[2])
        BY <1>1
    <2>3. Turns(T[2], Effect(Mov(14, X(p[1].src)), T[2]), 14, T[2].x[p[1].src])
        BY <1>4, <2>2, OthersTurn, Zenon
    <2> QED
        BY <2>1, <2>3
<1>8. Turns(T[3], T[4], p[2].dst, Half(p, 2, T[3].x[p[2].dst]))
    <2>1. T[4] = Effect(emit_premul(p[2]), T[3])
        BY <1>2 DEF reg_pass
    <2> QED
        BY <1>1, <1>3, <2>1, HalvesTurn
<1>9. Turns(T[4], T[5], p[1].dst, Full(p, 1, T[4].x[p[1].dst], T[4].x[14]))
    <2>1. T[5] = Effect(emit_xas(p[1], 14), T[4])
        BY <1>2 DEF reg_pass
    <2> QED
        BY <1>1, <1>3, <2>1, HalvesTurn
<1>10. Turns(T[5], T[6], p[2].dst, Full(p, 2, T[5].x[p[2].dst], T[5].x[p[2].src]))
    <2>1. T[6] = Effect(emit_mul(p[2].dst, p[2].src), T[5])
        BY <1>2 DEF reg_pass
    <2> QED
        BY <1>1, <1>3, <2>1, HalvesTurn
<1>11. Turns(T[6], T[7], p[3].dst, Half(p, 3, T[6].x[p[3].dst]))
    <2>1. T[7] = Effect(emit_pre_xas(p[3]), T[6])
        BY <1>2 DEF reg_pass
    <2> QED
        BY <1>1, <1>3, <2>1, HalvesTurn
<1>12. Turns(T[7], T[8], p[0].dst, Ror(T[7].x[p[0].dst], p[0].imm))
    <2>1. T[8] = Effect(emit_ror(p[0].dst, p[0].imm), T[7])
        BY <1>2 DEF reg_pass
    <2>2. Kept(T[7])
        BY <1>1
    <2>3. Turns(T[7], Effect(emit_ror(p[0].dst, p[0].imm), T[7]), p[0].dst, Ror(T[7].x[p[0].dst], p[0].imm))
        BY <1>4, <2>2, OthersTurn, Zenon
    <2> QED
        BY <2>1, <2>3
<1>13. Turns(T[8], T[9], p[3].dst, Full(p, 3, T[8].x[p[3].dst], T[8].x[p[3].src]))
    <2>1. T[9] = Effect(emit_xas(p[3], p[3].src), T[8])
        BY <1>2 DEF reg_pass
    <2> QED
        BY <1>1, <1>3, <2>1, HalvesTurn
<1>14. Turns(T[9], T[10], p[4].dst, Half(p, 4, T[9].x[p[4].dst]))
    <2>1. T[10] = Effect(emit_premul(p[4]), T[9])
        BY <1>2 DEF reg_pass
    <2> QED
        BY <1>1, <1>3, <2>1, HalvesTurn
<1>15. Turns(T[10], T[11], p[4].dst, Full(p, 4, T[10].x[p[4].dst], T[10].x[p[4].src]))
    <2>1. T[11] = Effect(emit_mul(p[4].dst, p[4].src), T[10])
        BY <1>2 DEF reg_pass
    <2> QED
        BY <1>1, <1>3, <2>1, HalvesTurn
<1>16. Turns(T[11], T[12], p[5].dst, Half(p, 5, T[11].x[p[5].dst]))
    <2>1. T[12] = Effect(emit_pre_xas(p[5]), T[11])
        BY <1>2 DEF reg_pass
    <2> QED
        BY <1>1, <1>3, <2>1, HalvesTurn
<1>17. Turns(T[12], T[13], 14, Or(T[12].x[p[0].dst], T[12].x[9]))
    <2>1. T[13] = Effect(emit_orr(14, p[0].dst, 9), T[12])
        BY <1>2 DEF reg_pass
    <2>2. Kept(T[12])
        BY <1>1
    <2>3. Turns(T[12], Effect(emit_orr(14, p[0].dst, 9), T[12]), 14, Or(T[12].x[p[0].dst], T[12].x[9]))
        BY <1>4, <2>2, OthersTurn, Zenon
    <2> QED
        BY <2>1, <2>3
<1>18. Turns(T[13], T[14], p[5].dst, Full(p, 5, T[13].x[p[5].dst], T[13].x[p[5].src]))
    <2>1. T[14] = Effect(emit_xas(p[5], p[5].src), T[13])
        BY <1>2 DEF reg_pass
    <2> QED
        BY <1>1, <1>3, <2>1, HalvesTurn
<1>19. Turns(T[14], T[15], p[6].dst, Half(p, 6, T[14].x[p[6].dst]))
    <2>1. T[15] = Effect(emit_premul(p[6]), T[14])
        BY <1>2 DEF reg_pass
    <2> QED
        BY <1>1, <1>3, <2>1, HalvesTurn
<1>20. T[16] = Tested(T[15])
    BY <1>2, OthersAre DEF reg_pass
<1>21. Turns(T[16], T[17], 9, IF T[16].flag = 1 THEN Add(T[16].x[9], 1) ELSE T[16].x[9])
    <2>1. T[17] = Effect(cinc_loops, T[16])
        BY <1>2 DEF reg_pass
    <2>2. Kept(T[16])
        BY <1>1
    <2>3. Turns(T[16], Effect(cinc_loops, T[16]), 9,
                IF T[16].flag = 1 THEN Add(T[16].x[9], 1) ELSE T[16].x[9])
        BY <1>4, <2>2, OthersTurn, Zenon
    <2> QED
        BY <2>1, <2>3
<1>22. Turns(T[17], T[18], p[6].dst, Full(p, 6, T[17].x[p[6].dst], T[17].x[p[6].src]))
    <2>1. T[18] = Effect(emit_mul(p[6].dst, p[6].src), T[17])
        BY <1>2 DEF reg_pass
    <2> QED
        BY <1>1, <1>3, <2>1, HalvesTurn
<1>23. T[16].x = T[15].x /\ T[16].flag = IF Looping(T[15].x[14]) THEN 1 ELSE 0
    BY <1>20 DEF Tested, State
<1>24. RegRun(p, y)
    <2>1. /\ y[0] = T[0].x
          /\ y[1] = T[1].x
          /\ y[2] = T[2].x
          /\ y[3] = T[3].x
          /\ y[4] = T[4].x
          /\ y[5] = T[5].x
          /\ y[6] = T[6].x
          /\ y[7] = T[7].x
          /\ y[8] = T[8].x
          /\ y[9] = T[9].x
          /\ y[10] = T[10].x
          /\ y[11] = T[11].x
          /\ y[12] = T[12].x
          /\ y[13] = T[13].x
          /\ y[14] = T[14].x
          /\ y[15] = T[15].x
          /\ y[16] = T[16].x
          /\ y[17] = T[17].x
          /\ y[18] = T[18].x
        BY <1>1
    <2>2. Wrote(y[0], y[1], p[0].dst, Mul(y[0][p[0].dst], y[0][p[0].src + 4]))
        BY <2>1, <1>5 DEF Turns
    <2>3. Wrote(y[1], y[2], p[1].dst, Half(p, 1, y[1][p[1].dst]))
        BY <2>1, <1>6 DEF Turns
    <2>4. Wrote(y[2], y[3], 14, y[2][p[1].src])
        BY <2>1, <1>7 DEF Turns
    <2>5. Wrote(y[3], y[4], p[2].dst, Half(p, 2, y[3][p[2].dst]))
        BY <2>1, <1>8 DEF Turns
    <2>6. Wrote(y[4], y[5], p[1].dst, Full(p, 1, y[4][p[1].dst], y[4][14]))
        BY <2>1, <1>9 DEF Turns
    <2>7. Wrote(y[5], y[6], p[2].dst, Full(p, 2, y[5][p[2].dst], y[5][p[2].src]))
        BY <2>1, <1>10 DEF Turns
    <2>8. Wrote(y[6], y[7], p[3].dst, Half(p, 3, y[6][p[3].dst]))
        BY <2>1, <1>11 DEF Turns
    <2>9. Wrote(y[7], y[8], p[0].dst, Ror(y[7][p[0].dst], p[0].imm))
        BY <2>1, <1>12 DEF Turns
    <2>10. Wrote(y[8], y[9], p[3].dst, Full(p, 3, y[8][p[3].dst], y[8][p[3].src]))
        BY <2>1, <1>13 DEF Turns
    <2>11. Wrote(y[9], y[10], p[4].dst, Half(p, 4, y[9][p[4].dst]))
        BY <2>1, <1>14 DEF Turns
    <2>12. Wrote(y[10], y[11], p[4].dst, Full(p, 4, y[10][p[4].dst], y[10][p[4].src]))
        BY <2>1, <1>15 DEF Turns
    <2>13. Wrote(y[11], y[12], p[5].dst, Half(p, 5, y[11][p[5].dst]))
        BY <2>1, <1>16 DEF Turns
    <2>14. Wrote(y[12], y[13], 14, Or(y[12][p[0].dst], y[12][9]))
        BY <2>1, <1>17 DEF Turns
    <2>15. Wrote(y[13], y[14], p[5].dst, Full(p, 5, y[13][p[5].dst], y[13][p[5].src]))
        BY <2>1, <1>18 DEF Turns
    <2>16. Wrote(y[14], y[15], p[6].dst, Half(p, 6, y[14][p[6].dst]))
        BY <2>1, <1>19 DEF Turns
    <2>17. y[16] = y[15]
        BY <2>1, <1>23
    <2>18. Wrote(y[16], y[17], 9, y[17][9])
        BY <2>1, <1>21 DEF Turns, Wrote
    <2>19. Wrote(y[17], y[18], p[6].dst, Full(p, 6, y[17][p[6].dst], y[17][p[6].src]))
        BY <2>1, <1>22 DEF Turns
    <2> QED
        BY <2>2, <2>3, <2>4, <2>5, <2>6, <2>7, <2>8, <2>9, <2>10, <2>11, <2>12, <2>13,
           <2>14, <2>15, <2>16, <2>17, <2>18, <2>19, Zenon DEF RegRun
<1>25. Counted(T, 18, 15)
    <2>1. T[18].flag = T[17].flag /\ T[17].flag = T[16].flag
        BY <1>21, <1>22 DEF Turns
    <2>2. T[18].x[9] = T[17].x[9] /\ T[17].x[9] = IF T[16].flag = 1 THEN Add(T[16].x[9], 1) ELSE T[16].x[9]
        <3>1. p[6].dst \in 0 .. 7
            BY <1>3
        <3>2. Wrote(T[17].x, T[18].x, p[6].dst, Full(p, 6, T[17].x[p[6].dst], T[17].x[p[6].src]))
            BY <1>22 DEF Turns
        <3>3. Wrote(T[16].x, T[17].x, 9, IF T[16].flag = 1 THEN Add(T[16].x[9], 1) ELSE T[16].x[9])
            BY <1>21 DEF Turns
        <3>4. T[18].x[9] = T[17].x[9]
            BY <3>1, <3>2 DEF Wrote
        <3> QED
            BY <3>3, <3>4 DEF Wrote
    <2> QED
        BY <1>23, <2>1, <2>2 DEF Counted
<1> QED
    BY <1>24, <1>25

(* Thirty-one instructions of the machine are those of MemRun.             *)
LEMMA MemTrace ==
    ASSUME NEW p, Scheduled(p), NEW T, Ran(mem_pass(p), 31, T), Kept(T[0]),
           NEW mm, T[0].sp = 0, T[0].stack = mm,
           NEW y, y = [i \in 0 .. 31 |-> T[i].x]
    PROVE  MemRun(p, y, mm) /\ Counted(T, 31, 28)
<1>1. \A i \in 0 .. 31 : Kept(T[i]) /\ y[i] = T[i].x /\ T[i].sp = 0 /\ T[i].stack = mm
    <2>1. \A i \in 0 .. 31 : Kept(T[i]) /\ Same(T[0], T[i])
        BY PlainRun, PlainPass
    <2> QED
        BY <2>1 DEF Same
<1>2. \A i \in 0 .. 30 : T[i + 1] = Effect(mem_pass(p)[i + 1], T[i])
    BY DEF Ran
<1>3. /\ \A k \in {0, 1, 2, 3, 4, 5, 6, 8} : p[k].dst \in 0 .. 7
    BY ScheduledApart DEF Apart, Operands
<1>4. p[0].dst \in 0 .. 17 /\ 14 \in 0 .. 17 /\ 15 \in 0 .. 17 /\ 16 \in 0 .. 17 /\ 17 \in 0 .. 17
    BY <1>3
<1>5. Turns(T[0], T[1], 15, 8 * Slot(T[0].x[p[1].src]))
    <2>1. T[1] = Effect(emit_and_2040(15, p[1].src), T[0])
        BY <1>2 DEF mem_pass
    <2>2. Kept(T[0])
        BY <1>1
    <2>3. Turns(T[0], Effect(emit_and_2040(15, p[1].src), T[0]), 15, 8 * Slot(T[0].x[p[1].src]))
        BY <1>4, <2>2, OthersTurn, Zenon
    <2> QED
        BY <2>1, <2>3
<1>6. Turns(T[1], T[2], 15, T[1].stack[(T[1].sp + T[1].x[15]) \div 8])
    <2>1. T[2] = Effect(emit_ldr_sp(15), T[1])
        BY <1>2 DEF mem_pass
    <2>2. Kept(T[1])
        BY <1>1
    <2>3. Turns(T[1], Effect(emit_ldr_sp(15), T[1]), 15, T[1].stack[(T[1].sp + T[1].x[15]) \div 8])
        BY <1>4, <2>2, OthersTurn, Zenon
    <2> QED
        BY <2>1, <2>3
<1>7. Turns(T[2], T[3], p[1].dst, Half(p, 1, T[2].x[p[1].dst]))
    <2>1. T[3] = Effect(emit_pre_xas(p[1]), T[2])
        BY <1>2 DEF mem_pass
    <2> QED
        BY <1>1, <1>3, <2>1, HalvesTurn
<1>8. Turns(T[3], T[4], p[0].dst, Mul(T[3].x[p[0].dst], T[3].x[p[0].src + 4]))
    <2>1. T[4] = Effect(emit_mul(p[0].dst, p[0].src + 4), T[3])
        BY <1>2 DEF mem_pass
    <2>2. Kept(T[3])
        BY <1>1
    <2>3. Turns(T[3], Effect(emit_mul(p[0].dst, p[0].src + 4), T[3]), p[0].dst,
                Mul(T[3].x[p[0].dst], T[3].x[p[0].src + 4]))
        BY <1>4, <2>2, OthersTurn, Zenon
    <2> QED
        BY <2>1, <2>3
<1>9. Turns(T[4], T[5], p[1].dst, Full(p, 1, T[4].x[p[1].dst], T[4].x[15]))
    <2>1. T[5] = Effect(emit_xas(p[1], 15), T[4])
        BY <1>2 DEF mem_pass
    <2> QED
        BY <1>1, <1>3, <2>1, HalvesTurn
<1>10. Turns(T[5], T[6], 16, 8 * Slot(T[5].x[p[2].src]))
    <2>1. T[6] = Effect(emit_and_2040(16, p[2].src), T[5])
        BY <1>2 DEF mem_pass
    <2>2. Kept(T[5])
        BY <1>1
    <2>3. Turns(T[5], Effect(emit_and_2040(16, p[2].src), T[5]), 16, 8 * Slot(T[5].x[p[2].src]))
        BY <1>4, <2>2, OthersTurn, Zenon
    <2> QED
        BY <2>1, <2>3
<1>11. Turns(T[6], T[7], 16, T[6].stack[(T[6].sp + T[6].x[16]) \div 8])
    <2>1. T[7] = Effect(emit_ldr_sp(16), T[6])
        BY <1>2 DEF mem_pass
    <2>2. Kept(T[6])
        BY <1>1
    <2>3. Turns(T[6], Effect(emit_ldr_sp(16), T[6]), 16, T[6].stack[(T[6].sp + T[6].x[16]) \div 8])
        BY <1>4, <2>2, OthersTurn, Zenon
    <2> QED
        BY <2>1, <2>3
<1>12. Turns(T[7], T[8], 17, 8 * Slot(T[7].x[p[3].src]))
    <2>1. T[8] = Effect(emit_and_2040(17, p[3].src), T[7])
        BY <1>2 DEF mem_pass
    <2>2. Kept(T[7])
        BY <1>1
    <2>3. Turns(T[7], Effect(emit_and_2040(17, p[3].src), T[7]), 17, 8 * Slot(T[7].x[p[3].src]))
        BY <1>4, <2>2, OthersTurn, Zenon
    <2> QED
        BY <2>1, <2>3
<1>13. Turns(T[8], T[9], 17, T[8].stack[(T[8].sp + T[8].x[17]) \div 8])
    <2>1. T[9] = Effect(emit_ldr_sp(17), T[8])
        BY <1>2 DEF mem_pass
    <2>2. Kept(T[8])
        BY <1>1
    <2>3. Turns(T[8], Effect(emit_ldr_sp(17), T[8]), 17, T[8].stack[(T[8].sp + T[8].x[17]) \div 8])
        BY <1>4, <2>2, OthersTurn, Zenon
    <2> QED
        BY <2>1, <2>3
<1>14. Turns(T[9], T[10], p[2].dst, Half(p, 2, T[9].x[p[2].dst]))
    <2>1. T[10] = Effect(emit_premul(p[2]), T[9])
        BY <1>2 DEF mem_pass
    <2> QED
        BY <1>1, <1>3, <2>1, HalvesTurn
<1>15. Turns(T[10], T[11], p[3].dst, Half(p, 3, T[10].x[p[3].dst]))
    <2>1. T[11] = Effect(emit_pre_xas(p[3]), T[10])
        BY <1>2 DEF mem_pass
    <2> QED
        BY <1>1, <1>3, <2>1, HalvesTurn
<1>16. Turns(T[11], T[12], p[0].dst, Ror(T[11].x[p[0].dst], p[0].imm))
    <2>1. T[12] = Effect(emit_ror(p[0].dst, p[0].imm), T[11])
        BY <1>2 DEF mem_pass
    <2>2. Kept(T[11])
        BY <1>1
    <2>3. Turns(T[11], Effect(emit_ror(p[0].dst, p[0].imm), T[11]), p[0].dst,
                Ror(T[11].x[p[0].dst], p[0].imm))
        BY <1>4, <2>2, OthersTurn, Zenon
    <2> QED
        BY <2>1, <2>3
<1>17. Turns(T[12], T[13], p[2].dst, Full(p, 2, T[12].x[p[2].dst], T[12].x[16]))
    <2>1. T[13] = Effect(emit_mul(p[2].dst, 16), T[12])
        BY <1>2 DEF mem_pass
    <2> QED
        BY <1>1, <1>3, <2>1, HalvesTurn
<1>18. Turns(T[13], T[14], p[3].dst, Full(p, 3, T[13].x[p[3].dst], T[13].x[17]))
    <2>1. T[14] = Effect(emit_xas(p[3], 17), T[13])
        BY <1>2 DEF mem_pass
    <2> QED
        BY <1>1, <1>3, <2>1, HalvesTurn
<1>19. Turns(T[14], T[15], 16, 8 * Slot(T[14].x[p[4].src]))
    <2>1. T[15] = Effect(emit_and_2040(16, p[4].src), T[14])
        BY <1>2 DEF mem_pass
    <2>2. Kept(T[14])
        BY <1>1
    <2>3. Turns(T[14], Effect(emit_and_2040(16, p[4].src), T[14]), 16, 8 * Slot(T[14].x[p[4].src]))
        BY <1>4, <2>2, OthersTurn, Zenon
    <2> QED
        BY <2>1, <2>3
<1>20. Turns(T[15], T[16], 16, T[15].stack[(T[15].sp + T[15].x[16]) \div 8])
    <2>1. T[16] = Effect(emit_ldr_sp(16), T[15])
        BY <1>2 DEF mem_pass
    <2>2. Kept(T[15])
        BY <1>1
    <2>3. Turns(T[15], Effect(emit_ldr_sp(16), T[15]), 16, T[15].stack[(T[15].sp + T[15].x[16]) \div 8])
        BY <1>4, <2>2, OthersTurn, Zenon
    <2> QED
        BY <2>1, <2>3
<1>21. Turns(T[16], T[17], 17, 8 * Slot(T[16].x[p[5].src]))
    <2>1. T[17] = Effect(emit_and_2040(17, p[5].src), T[16])
        BY <1>2 DEF mem_pass
    <2>2. Kept(T[16])
        BY <1>1
    <2>3. Turns(T[16], Effect(emit_and_2040(17, p[5].src), T[16]), 17, 8 * Slot(T[16].x[p[5].src]))
        BY <1>4, <2>2, OthersTurn, Zenon
    <2> QED
        BY <2>1, <2>3
<1>22. Turns(T[17], T[18], 17, T[17].stack[(T[17].sp + T[17].x[17]) \div 8])
    <2>1. T[18] = Effect(emit_ldr_sp(17), T[17])
        BY <1>2 DEF mem_pass
    <2>2. Kept(T[17])
        BY <1>1
    <2>3. Turns(T[17], Effect(emit_ldr_sp(17), T[17]), 17, T[17].stack[(T[17].sp + T[17].x[17]) \div 8])
        BY <1>4, <2>2, OthersTurn, Zenon
    <2> QED
        BY <2>1, <2>3
<1>23. Turns(T[18], T[19], p[4].dst, Half(p, 4, T[18].x[p[4].dst]))
    <2>1. T[19] = Effect(emit_premul(p[4]), T[18])
        BY <1>2 DEF mem_pass
    <2> QED
        BY <1>1, <1>3, <2>1, HalvesTurn
<1>24. Turns(T[19], T[20], p[5].dst, Half(p, 5, T[19].x[p[5].dst]))
    <2>1. T[20] = Effect(emit_pre_xas(p[5]), T[19])
        BY <1>2 DEF mem_pass
    <2> QED
        BY <1>1, <1>3, <2>1, HalvesTurn
<1>25. Turns(T[20], T[21], 14, Or(T[20].x[p[0].dst], T[20].x[9]))
    <2>1. T[21] = Effect(emit_orr(14, p[0].dst, 9), T[20])
        BY <1>2 DEF mem_pass
    <2>2. Kept(T[20])
        BY <1>1
    <2>3. Turns(T[20], Effect(emit_orr(14, p[0].dst, 9), T[20]), 14, Or(T[20].x[p[0].dst], T[20].x[9]))
        BY <1>4, <2>2, OthersTurn, Zenon
    <2> QED
        BY <2>1, <2>3
<1>26. Turns(T[21], T[22], p[4].dst, Full(p, 4, T[21].x[p[4].dst], T[21].x[16]))
    <2>1. T[22] = Effect(emit_mul(p[4].dst, 16), T[21])
        BY <1>2 DEF mem_pass
    <2> QED
        BY <1>1, <1>3, <2>1, HalvesTurn
<1>27. Turns(T[22], T[23], p[5].dst, Full(p, 5, T[22].x[p[5].dst], T[22].x[17]))
    <2>1. T[23] = Effect(emit_xas(p[5], 17), T[22])
        BY <1>2 DEF mem_pass
    <2> QED
        BY <1>1, <1>3, <2>1, HalvesTurn
<1>28. Turns(T[23], T[24], 16, 8 * Slot(T[23].x[p[6].src]))
    <2>1. T[24] = Effect(emit_and_2040(16, p[6].src), T[23])
        BY <1>2 DEF mem_pass
    <2>2. Kept(T[23])
        BY <1>1
    <2>3. Turns(T[23], Effect(emit_and_2040(16, p[6].src), T[23]), 16, 8 * Slot(T[23].x[p[6].src]))
        BY <1>4, <2>2, OthersTurn, Zenon
    <2> QED
        BY <2>1, <2>3
<1>29. Turns(T[24], T[25], 16, T[24].stack[(T[24].sp + T[24].x[16]) \div 8])
    <2>1. T[25] = Effect(emit_ldr_sp(16), T[24])
        BY <1>2 DEF mem_pass
    <2>2. Kept(T[24])
        BY <1>1
    <2>3. Turns(T[24], Effect(emit_ldr_sp(16), T[24]), 16, T[24].stack[(T[24].sp + T[24].x[16]) \div 8])
        BY <1>4, <2>2, OthersTurn, Zenon
    <2> QED
        BY <2>1, <2>3
<1>30. Turns(T[25], T[26], 17, 8 * Slot(T[25].x[p[8].src]))
    <2>1. T[26] = Effect(emit_and_2040(17, p[8].src), T[25])
        BY <1>2 DEF mem_pass
    <2>2. Kept(T[25])
        BY <1>1
    <2>3. Turns(T[25], Effect(emit_and_2040(17, p[8].src), T[25]), 17, 8 * Slot(T[25].x[p[8].src]))
        BY <1>4, <2>2, OthersTurn, Zenon
    <2> QED
        BY <2>1, <2>3
<1>31. Turns(T[26], T[27], 17, T[26].stack[(T[26].sp + T[26].x[17]) \div 8])
    <2>1. T[27] = Effect(emit_ldr_sp(17), T[26])
        BY <1>2 DEF mem_pass
    <2>2. Kept(T[26])
        BY <1>1
    <2>3. Turns(T[26], Effect(emit_ldr_sp(17), T[26]), 17, T[26].stack[(T[26].sp + T[26].x[17]) \div 8])
        BY <1>4, <2>2, OthersTurn, Zenon
    <2> QED
        BY <2>1, <2>3
<1>32. Turns(T[27], T[28], p[6].dst, Half(p, 6, T[27].x[p[6].dst]))
    <2>1. T[28] = Effect(emit_premul(p[6]), T[27])
        BY <1>2 DEF mem_pass
    <2> QED
        BY <1>1, <1>3, <2>1, HalvesTurn
<1>33. T[29] = Tested(T[28])
    BY <1>2, OthersAre DEF mem_pass
<1>34. Turns(T[29], T[30], 9, IF T[29].flag = 1 THEN Add(T[29].x[9], 1) ELSE T[29].x[9])
    <2>1. T[30] = Effect(cinc_loops, T[29])
        BY <1>2 DEF mem_pass
    <2>2. Kept(T[29])
        BY <1>1
    <2>3. Turns(T[29], Effect(cinc_loops, T[29]), 9,
                IF T[29].flag = 1 THEN Add(T[29].x[9], 1) ELSE T[29].x[9])
        BY <1>4, <2>2, OthersTurn, Zenon
    <2> QED
        BY <2>1, <2>3
<1>35. Turns(T[30], T[31], p[6].dst, Full(p, 6, T[30].x[p[6].dst], T[30].x[16]))
    <2>1. T[31] = Effect(emit_mul(p[6].dst, 16), T[30])
        BY <1>2 DEF mem_pass
    <2> QED
        BY <1>1, <1>3, <2>1, HalvesTurn
<1>36. T[29].x = T[28].x /\ T[29].flag = IF Looping(T[28].x[14]) THEN 1 ELSE 0
    BY <1>33 DEF Tested, State
<1>37. MemRun(p, y, mm)
    <2>1. /\ y[0] = T[0].x
          /\ y[1] = T[1].x
          /\ y[2] = T[2].x
          /\ y[3] = T[3].x
          /\ y[4] = T[4].x
          /\ y[5] = T[5].x
          /\ y[6] = T[6].x
          /\ y[7] = T[7].x
          /\ y[8] = T[8].x
          /\ y[9] = T[9].x
          /\ y[10] = T[10].x
          /\ y[11] = T[11].x
          /\ y[12] = T[12].x
          /\ y[13] = T[13].x
          /\ y[14] = T[14].x
          /\ y[15] = T[15].x
          /\ y[16] = T[16].x
          /\ y[17] = T[17].x
          /\ y[18] = T[18].x
          /\ y[19] = T[19].x
          /\ y[20] = T[20].x
          /\ y[21] = T[21].x
          /\ y[22] = T[22].x
          /\ y[23] = T[23].x
          /\ y[24] = T[24].x
          /\ y[25] = T[25].x
          /\ y[26] = T[26].x
          /\ y[27] = T[27].x
          /\ y[28] = T[28].x
          /\ y[29] = T[29].x
          /\ y[30] = T[30].x
          /\ y[31] = T[31].x
        BY <1>1
    <2>2. Wrote(y[0], y[1], 15, 8 * Slot(y[0][p[1].src]))
        BY <2>1, <1>5 DEF Turns
    <2>3. Wrote(y[1], y[2], 15, mm[(0 + y[1][15]) \div 8])
        BY <1>1, <2>1, <1>6 DEF Turns
    <2>4. Wrote(y[2], y[3], p[1].dst, Half(p, 1, y[2][p[1].dst]))
        BY <2>1, <1>7 DEF Turns
    <2>5. Wrote(y[3], y[4], p[0].dst, Mul(y[3][p[0].dst], y[3][p[0].src + 4]))
        BY <2>1, <1>8 DEF Turns
    <2>6. Wrote(y[4], y[5], p[1].dst, Full(p, 1, y[4][p[1].dst], y[4][15]))
        BY <2>1, <1>9 DEF Turns
    <2>7. Wrote(y[5], y[6], 16, 8 * Slot(y[5][p[2].src]))
        BY <2>1, <1>10 DEF Turns
    <2>8. Wrote(y[6], y[7], 16, mm[(0 + y[6][16]) \div 8])
        BY <1>1, <2>1, <1>11 DEF Turns
    <2>9. Wrote(y[7], y[8], 17, 8 * Slot(y[7][p[3].src]))
        BY <2>1, <1>12 DEF Turns
    <2>10. Wrote(y[8], y[9], 17, mm[(0 + y[8][17]) \div 8])
        BY <1>1, <2>1, <1>13 DEF Turns
    <2>11. Wrote(y[9], y[10], p[2].dst, Half(p, 2, y[9][p[2].dst]))
        BY <2>1, <1>14 DEF Turns
    <2>12. Wrote(y[10], y[11], p[3].dst, Half(p, 3, y[10][p[3].dst]))
        BY <2>1, <1>15 DEF Turns
    <2>13. Wrote(y[11], y[12], p[0].dst, Ror(y[11][p[0].dst], p[0].imm))
        BY <2>1, <1>16 DEF Turns
    <2>14. Wrote(y[12], y[13], p[2].dst, Full(p, 2, y[12][p[2].dst], y[12][16]))
        BY <2>1, <1>17 DEF Turns
    <2>15. Wrote(y[13], y[14], p[3].dst, Full(p, 3, y[13][p[3].dst], y[13][17]))
        BY <2>1, <1>18 DEF Turns
    <2>16. Wrote(y[14], y[15], 16, 8 * Slot(y[14][p[4].src]))
        BY <2>1, <1>19 DEF Turns
    <2>17. Wrote(y[15], y[16], 16, mm[(0 + y[15][16]) \div 8])
        BY <1>1, <2>1, <1>20 DEF Turns
    <2>18. Wrote(y[16], y[17], 17, 8 * Slot(y[16][p[5].src]))
        BY <2>1, <1>21 DEF Turns
    <2>19. Wrote(y[17], y[18], 17, mm[(0 + y[17][17]) \div 8])
        BY <1>1, <2>1, <1>22 DEF Turns
    <2>20. Wrote(y[18], y[19], p[4].dst, Half(p, 4, y[18][p[4].dst]))
        BY <2>1, <1>23 DEF Turns
    <2>21. Wrote(y[19], y[20], p[5].dst, Half(p, 5, y[19][p[5].dst]))
        BY <2>1, <1>24 DEF Turns
    <2>22. Wrote(y[20], y[21], 14, Or(y[20][p[0].dst], y[20][9]))
        BY <2>1, <1>25 DEF Turns
    <2>23. Wrote(y[21], y[22], p[4].dst, Full(p, 4, y[21][p[4].dst], y[21][16]))
        BY <2>1, <1>26 DEF Turns
    <2>24. Wrote(y[22], y[23], p[5].dst, Full(p, 5, y[22][p[5].dst], y[22][17]))
        BY <2>1, <1>27 DEF Turns
    <2>25. Wrote(y[23], y[24], 16, 8 * Slot(y[23][p[6].src]))
        BY <2>1, <1>28 DEF Turns
    <2>26. Wrote(y[24], y[25], 16, mm[(0 + y[24][16]) \div 8])
        BY <1>1, <2>1, <1>29 DEF Turns
    <2>27. Wrote(y[25], y[26], 17, 8 * Slot(y[25][p[8].src]))
        BY <2>1, <1>30 DEF Turns
    <2>28. Wrote(y[26], y[27], 17, mm[(0 + y[26][17]) \div 8])
        BY <1>1, <2>1, <1>31 DEF Turns
    <2>29. Wrote(y[27], y[28], p[6].dst, Half(p, 6, y[27][p[6].dst]))
        BY <2>1, <1>32 DEF Turns
    <2>30. y[29] = y[28]
        BY <2>1, <1>36
    <2>31. Wrote(y[29], y[30], 9, y[30][9])
        BY <2>1, <1>34 DEF Turns, Wrote
    <2>32. Wrote(y[30], y[31], p[6].dst, Full(p, 6, y[30][p[6].dst], y[30][16]))
        BY <2>1, <1>35 DEF Turns
    <2> QED
        BY <2>2, <2>3, <2>4, <2>5, <2>6, <2>7, <2>8, <2>9, <2>10, <2>11, <2>12, <2>13,
           <2>14, <2>15, <2>16, <2>17, <2>18, <2>19, <2>20, <2>21, <2>22, <2>23, <2>24,
           <2>25, <2>26, <2>27, <2>28, <2>29, <2>30, <2>31, <2>32, Zenon DEF MemRun
<1>38. Counted(T, 31, 28)
    <2>1. T[31].flag = T[30].flag /\ T[30].flag = T[29].flag
        BY <1>34, <1>35 DEF Turns
    <2>2. T[31].x[9] = T[30].x[9] /\ T[30].x[9] = IF T[29].flag = 1 THEN Add(T[29].x[9], 1) ELSE T[29].x[9]
        <3>1. p[6].dst \in 0 .. 7
            BY <1>3
        <3>2. Wrote(T[30].x, T[31].x, p[6].dst, Full(p, 6, T[30].x[p[6].dst], T[30].x[16]))
            BY <1>35 DEF Turns
        <3>3. Wrote(T[29].x, T[30].x, 9, IF T[29].flag = 1 THEN Add(T[29].x[9], 1) ELSE T[29].x[9])
            BY <1>34 DEF Turns
        <3>4. T[31].x[9] = T[30].x[9]
            BY <3>1, <3>2 DEF Wrote
        <3> QED
            BY <3>3, <3>4 DEF Wrote
    <2> QED
        BY <1>36, <2>1, <2>2 DEF Counted
<1> QED
    BY <1>37, <1>38

(* What HashwxVM makes of the registers rs: in a pass, by RMCG and at the  *)
(* end of the program.                                                     *)
Looped(p, rs, ph, mm) ==
    LET r0 == Do(p, 0, rs, ph, mm)
        r1 == Do(p, 1, r0, ph, mm)
        r2 == Do(p, 2, r1, ph, mm)
        r3 == Do(p, 3, r2, ph, mm)
        r4 == Do(p, 4, r3, ph, mm)
        r5 == Do(p, 5, r4, ph, mm)
    IN  Do(p, 6, r5, ph, mm)
Flagged(p, rs, ph, mm) == Do(p, 0, rs, ph, mm)[p[0].dst]
Ended(p, rs, ph, mm) == Do(p, 8, Looped(p, rs, ph, mm), ph, mm)

(* The registers of a pass as a sequence of them.                          *)
LEMMA PassesExist ==
    ASSUME NEW p, NEW rs, NEW ph, NEW mm
    PROVE  \E R : /\ Passes(p, rs, ph, mm, R)
                  /\ R[6] = Looped(p, rs, ph, mm) /\ R[8] = Ended(p, rs, ph, mm)
                  /\ R[0][p[0].dst] = Flagged(p, rs, ph, mm)
<1> DEFINE r0 == Do(p, 0, rs, ph, mm)
           r1 == Do(p, 1, r0, ph, mm)
           r2 == Do(p, 2, r1, ph, mm)
           r3 == Do(p, 3, r2, ph, mm)
           r4 == Do(p, 4, r3, ph, mm)
           r5 == Do(p, 5, r4, ph, mm)
           r6 == Do(p, 6, r5, ph, mm)
           r8 == Do(p, 8, r6, ph, mm)
           R == [k \in 0 .. 8 |-> IF k = 0 THEN r0 ELSE IF k = 1 THEN r1 ELSE IF k = 2 THEN r2
                                  ELSE IF k = 3 THEN r3 ELSE IF k = 4 THEN r4 ELSE IF k = 5 THEN r5
                                  ELSE IF k = 6 THEN r6 ELSE r8]
<1>1. r6 = Looped(p, rs, ph, mm) /\ r8 = Ended(p, rs, ph, mm) /\ r0[p[0].dst] = Flagged(p, rs, ph, mm)
    BY DEF Looped, Ended, Flagged
<1>2. /\ r1 = Do(p, 1, r0, ph, mm) /\ r2 = Do(p, 2, r1, ph, mm) /\ r3 = Do(p, 3, r2, ph, mm)
      /\ r4 = Do(p, 4, r3, ph, mm) /\ r5 = Do(p, 5, r4, ph, mm) /\ r6 = Do(p, 6, r5, ph, mm)
      /\ r8 = Do(p, 8, r6, ph, mm) /\ r0 = Do(p, 0, rs, ph, mm)
    OBVIOUS
<1> HIDE DEF r0, r1, r2, r3, r4, r5, r6, r8
<1>3. /\ R[0] = r0 /\ R[1] = r1 /\ R[2] = r2 /\ R[3] = r3 /\ R[4] = r4 /\ R[5] = r5
      /\ R[6] = r6 /\ R[8] = r8
    OBVIOUS
<1> HIDE DEF R
<1>4. Passes(p, rs, ph, mm, R)
    BY <1>2, <1>3 DEF Passes
<1> QED
    BY <1>1, <1>3, <1>4

(* The halves of an instruction compute words of words.                    *)
LEMMA HalvesTyped ==
    ASSUME NEW p, Scheduled(p), NEW k \in Operands \ {0}, NEW v \in Word, NEW s \in Word
    PROVE  Full(p, k, Half(p, k, v), s) \in Word
<1>1. p[k].imm \in Imm /\ p[k].imm \in Word
    <2>1. p[k] \in Instr
        BY DEF Scheduled, Program, Operands, Line
    <2> QED
        BY <2>1, WordAssumption DEF Instr
<1>2. CASE k \in {2, 4, 6}
    BY <1>1, <1>2, WordAssumption DEF Full, Half, Mixed
<1>3. CASE k \notin {2, 4, 6}
    <2>1. Half(p, k, v) \in Word
        BY <1>1, <1>3, WordAssumption DEF Half, Shifted
    <2> QED
        BY <1>3, <2>1, WordAssumption DEF Full, Combined
<1> QED
    BY <1>2, <1>3

(* Every cell of the memory holds a word.                                  *)
Words(mm) == mm \in [0 .. MemSize - 1 -> Word]

(* An instruction keeps the registers words and R8 and R9 as they are.     *)
LEMMA DoTyped ==
    ASSUME NEW p, Scheduled(p), NEW rs \in Registers, NEW ph \in {"reg", "mem"}, NEW mm,
           ph = "mem" => Words(mm), NEW k \in Operands
    PROVE  LET t == Do(p, k, rs, ph, mm)
           IN  t \in Registers /\ t[8] = rs[8] /\ t[9] = rs[9]
<1> DEFINE t == Do(p, k, rs, ph, mm)
<1>1. DOMAIN rs = Reg /\ \A q \in Reg : rs[q] \in Word
    BY DEF Registers
<1>2. p[k].dst \in 0 .. 7 /\ (k # 0 => p[k].src \in 0 .. 7) /\ p[0].src \in {8, 9}
    BY ScheduledApart DEF Apart
<1>3. \E v \in Word : Updated(rs, t, p[k].dst, v)
    <2>1. CASE k = 0
        <3>1. p[0].imm \in Imm
            BY DEF Scheduled, Program, Instr, Line
        <3>2. Ror(Mul(rs[p[0].dst], rs[p[0].src]), p[0].imm) \in Word
            BY <1>1, <1>2, <2>1, <3>1, WordAssumption DEF Reg
        <3> QED
            BY <1>1, <2>1, <3>2, DoIs
    <2>2. CASE k # 0
        <3>1. k \in Operands \ {0}
            BY <2>2
        <3>2. Source(p, k, rs, ph, mm) \in Word
            <4>1. rs[p[k].src] \in Word
                BY <1>1, <1>2, <2>2 DEF Reg
            <4>2. Slot(rs[p[k].src]) \in 0 .. MemSize - 1
                BY <4>1, WordAssumption
            <4> QED
                BY <4>1, <4>2 DEF Source, Words
        <3>3. rs[p[k].dst] \in Word
            BY <1>1, <1>2 DEF Reg
        <3>4. Full(p, k, Half(p, k, rs[p[k].dst]), Source(p, k, rs, ph, mm)) \in Word
            BY <3>1, <3>2, <3>3, HalvesTyped
        <3>5. Updated(rs, t, p[k].dst, Full(p, k, Half(p, k, rs[p[k].dst]), Source(p, k, rs, ph, mm)))
            BY <1>1, <3>1, DoIs
        <3> QED
            BY <3>4, <3>5
    <2> QED
        BY <2>1, <2>2
<1>4. \E f : f = t /\ f = [q \in Reg |-> t[q]]
    <2>1. \E r, d, v : t = [r EXCEPT ![d] = v]
        BY DEF Do, Apply
    <2>2. DOMAIN t = Reg
        BY <1>3 DEF Updated
    <2> QED
        BY <2>1, <2>2
<1> HIDE DEF t
<1>5. t = [q \in Reg |-> t[q]] /\ \A q \in Reg : t[q] \in Word
    BY <1>1, <1>3, <1>4 DEF Updated
<1>6. t[8] = rs[8] /\ t[9] = rs[9]
    BY <1>2, <1>3 DEF Updated, Reg
<1> QED
    BY <1>5, <1>6 DEF Registers, t

(* So does a pass.                                                         *)
LEMMA PassTyped ==
    ASSUME NEW p, Scheduled(p), NEW rs \in Registers, NEW ph \in {"reg", "mem"}, NEW mm,
           ph = "mem" => Words(mm),
           NEW R, Passes(p, rs, ph, mm, R)
    PROVE  /\ \A k \in Operands : R[k] \in Registers /\ R[k][8] = rs[8] /\ R[k][9] = rs[9]
<1>1. ASSUME NEW r \in Registers, NEW k \in Operands
      PROVE  LET t == Do(p, k, r, ph, mm)
             IN  t \in Registers /\ t[8] = r[8] /\ t[9] = r[9]
    BY DoTyped
<1>2. {0, 1, 2, 3, 4, 5, 6, 8} \subseteq Operands
    BY DEF Operands
<1>3. R[0] \in Registers /\ R[0][8] = rs[8] /\ R[0][9] = rs[9]
    BY <1>1, <1>2 DEF Passes
<1>4. R[1] \in Registers /\ R[1][8] = rs[8] /\ R[1][9] = rs[9]
    BY <1>1, <1>2, <1>3 DEF Passes
<1>5. R[2] \in Registers /\ R[2][8] = rs[8] /\ R[2][9] = rs[9]
    BY <1>1, <1>2, <1>4 DEF Passes
<1>6. R[3] \in Registers /\ R[3][8] = rs[8] /\ R[3][9] = rs[9]
    BY <1>1, <1>2, <1>5 DEF Passes
<1>7. R[4] \in Registers /\ R[4][8] = rs[8] /\ R[4][9] = rs[9]
    BY <1>1, <1>2, <1>6 DEF Passes
<1>8. R[5] \in Registers /\ R[5][8] = rs[8] /\ R[5][9] = rs[9]
    BY <1>1, <1>2, <1>7 DEF Passes
<1>9. R[6] \in Registers /\ R[6][8] = rs[8] /\ R[6][9] = rs[9]
    BY <1>1, <1>2, <1>8 DEF Passes
<1>10. R[8] \in Registers /\ R[8][8] = rs[8] /\ R[8][9] = rs[9]
    BY <1>1, <1>2, <1>9 DEF Passes
<1> QED
    BY <1>3, <1>4, <1>5, <1>6, <1>7, <1>8, <1>9, <1>10 DEF Operands

(* What the instructions of a pass leave: the registers of HashwxVM, and   *)
(* the flag and the counter as the branch finds them.                      *)
Passed(p, rs, ph, mm, s, t) ==
    /\ Kept(t) /\ Same(s, t)
    /\ Holds(t.x, Looped(p, rs, ph, mm), {})
    /\ t.flag = IF Looping(Or(Flagged(p, rs, ph, mm), s.x[9])) THEN 1 ELSE 0
    /\ t.x[9] = IF t.flag = 1 THEN Add(s.x[9], 1) ELSE s.x[9]
    /\ ph = "mem" => t.x[17] = mm[Slot(Looped(p, rs, ph, mm)[p[8].src])]

(* A pass of the first phase leaves what HashwxVM computes.                *)
LEMMA RegPassed ==
    ASSUME NEW p, Scheduled(p), NEW rs \in Registers, NEW mm, NEW T, Ran(reg_pass(p), 18, T),
           Kept(T[0]), Holds(T[0].x, rs, {})
    PROVE  Passed(p, rs, "reg", mm, T[0], T[18])
<1>1. PICK R : /\ Passes(p, rs, "reg", mm, R)
               /\ R[6] = Looped(p, rs, "reg", mm)
               /\ R[0][p[0].dst] = Flagged(p, rs, "reg", mm)
    BY PassesExist
<1>2. Chain(p, rs, "reg", mm, R)
    <2>1. DOMAIN rs = Reg /\ "reg" \in {"reg", "mem"}
        BY DEF Registers
    <2> QED
        BY <1>1, <2>1, PassesChain
<1> DEFINE y == [i \in 0 .. 18 |-> T[i].x]
<1>3. RegRun(p, y) /\ Counted(T, 18, 15)
    BY RegTrace
<1>4. /\ y[0] = T[0].x /\ y[14] = T[14].x /\ y[15] = T[15].x /\ y[16] = T[16].x /\ y[18] = T[18].x
    OBVIOUS
<1> HIDE DEF y
<1>5. Holds(y[0], rs, {})
    BY <1>4
<1>6. /\ Holds(y[18], R[6], {})
      /\ y[14][14] = Or(R[0][p[0].dst], y[0][9])
      /\ y[16][9] = y[0][9]
    BY <1>2, <1>3, <1>5, RegPass
<1>7. y[16] = y[15] /\ y[15][14] = y[14][14]
    <2>1. Wrote(y[14], y[15], p[6].dst, Half(p, 6, y[14][p[6].dst])) /\ y[16] = y[15]
        BY <1>3, Zenon DEF RegRun
    <2>2. p[6].dst \in 0 .. 7
        BY ScheduledApart DEF Apart, Operands
    <2> QED
        BY <2>1, <2>2 DEF Wrote
<1>8. Kept(T[18]) /\ Same(T[0], T[18])
    <2>1. 18 \in 0 .. 18
        OBVIOUS
    <2> QED
        BY <2>1, PlainRun, PlainPass
<1>9. /\ T[18].flag = IF Looping(T[15].x[14]) THEN 1 ELSE 0
      /\ T[18].x[9] = IF T[18].flag = 1 THEN Add(T[15].x[9], 1) ELSE T[15].x[9]
    BY <1>3 DEF Counted
<1> QED
    BY <1>1, <1>4, <1>6, <1>7, <1>8, <1>9 DEF Passed

(* A pass of the second phase does.                                        *)
LEMMA MemPassed ==
    ASSUME NEW p, Scheduled(p), NEW rs \in Registers, NEW mm, Words(mm),
           NEW T, Ran(mem_pass(p), 31, T),
           Kept(T[0]), Holds(T[0].x, rs, {}), T[0].sp = 0, T[0].stack = mm
    PROVE  Passed(p, rs, "mem", mm, T[0], T[31])
<1>1. PICK R : /\ Passes(p, rs, "mem", mm, R)
               /\ R[6] = Looped(p, rs, "mem", mm)
               /\ R[0][p[0].dst] = Flagged(p, rs, "mem", mm)
    BY PassesExist
<1>2. Chain(p, rs, "mem", mm, R)
    <2>1. DOMAIN rs = Reg /\ "mem" \in {"reg", "mem"}
        BY DEF Registers
    <2> QED
        BY <1>1, <2>1, PassesChain
<1>a. AllRegisters(rs, R)
    <2>1. \A k \in Operands : R[k] \in Registers
        BY <1>1, PassTyped
    <2> QED
        BY <2>1 DEF Operands, AllRegisters
<1> DEFINE y == [i \in 0 .. 31 |-> T[i].x]
<1>3. MemRun(p, y, mm) /\ Counted(T, 31, 28)
    BY MemTrace
<1>4. /\ y[0] = T[0].x /\ y[28] = T[28].x /\ y[29] = T[29].x /\ y[31] = T[31].x
    OBVIOUS
<1> HIDE DEF y
<1>5. Holds(y[0], rs, {})
    BY <1>4
<1>6. /\ Holds(y[31], R[6], {})
      /\ y[31][17] = mm[Slot(R[6][p[8].src])]
      /\ y[28][14] = Or(R[0][p[0].dst], y[0][9])
      /\ y[29][9] = y[0][9]
    <2>1. MemRun(p, y, mm)
        BY <1>3
    <2> QED
        BY <1>2, <1>5, <1>a, <2>1, MemPass
<1>7. y[29] = y[28]
    BY <1>3, Zenon DEF MemRun
<1>8. Kept(T[31]) /\ Same(T[0], T[31])
    <2>1. 31 \in 0 .. 31
        OBVIOUS
    <2> QED
        BY <2>1, PlainRun, PlainPass
<1>9. /\ T[31].flag = IF Looping(T[28].x[14]) THEN 1 ELSE 0
      /\ T[31].x[9] = IF T[31].flag = 1 THEN Add(T[28].x[9], 1) ELSE T[28].x[9]
    BY <1>3 DEF Counted
<1> QED
    BY <1>1, <1>4, <1>6, <1>7, <1>8, <1>9 DEF Passed

(* Instruction 8 of a program, in two halves.                              *)
LastRun(p, rs, ph, mm, f, g, h) ==
    /\ Holds(f, rs, {})
    /\ Wrote(f, g, p[8].dst, Half(p, 8, f[p[8].dst]))
    /\ Wrote(g, h, p[8].dst, Full(p, 8, g[p[8].dst], Source(p, 8, rs, ph, mm)))
LastDone(d, E, f, g, h) ==
    /\ Holds(h, E, {})
    /\ \A q \in (0 .. 7) \ {d} : f[q] = E[q] /\ g[q] = E[q]
    /\ g[9] = f[9] /\ h[9] = f[9]

(* Instruction 8 leaves the registers HashwxVM computes; the others are    *)
(* there before it is done.                                                *)
LEMMA LastInstruction ==
    ASSUME NEW p, Scheduled(p), NEW rs, DOMAIN rs = Reg, NEW ph \in {"reg", "mem"}, NEW mm,
           NEW f, NEW g, NEW h, LastRun(p, rs, ph, mm, f, g, h)
    PROVE  LastDone(p[8].dst, Do(p, 8, rs, ph, mm), f, g, h)
<1> DEFINE E == Do(p, 8, rs, ph, mm)
           d == p[8].dst
           s == Source(p, 8, rs, ph, mm)
<1>1. d \in 0 .. 7
    BY ScheduledApart DEF Apart, Operands
<1>2. Updated(rs, E, d, Full(p, 8, Half(p, 8, rs[d]), s))
    BY DoIs DEF Operands
<1>3. Wrote(f, g, d, Half(p, 8, f[d])) /\ Wrote(g, h, d, Full(p, 8, g[d], s)) /\ Holds(f, rs, {})
    BY DEF LastRun
<1> HIDE DEF E, d, s
<1>4. g[d] = Half(p, 8, rs[d])
    BY <1>1, <1>3, Homes DEF Wrote, Holds
<1>5. Wrote(g, h, d, Full(p, 8, Half(p, 8, rs[d]), s))
    BY <1>3, <1>4
<1>6. Holds(h, E, {})
    BY <1>1, <1>2, <1>3, <1>5, Homes DEF Wrote, Holds, Updated
<1>7. \A q \in (0 .. 7) \ {d} : f[q] = E[q] /\ g[q] = E[q]
    BY <1>1, <1>2, <1>3, Homes DEF Wrote, Holds, Updated
<1>8. g[9] = f[9] /\ h[9] = f[9]
    BY <1>1, <1>3 DEF Wrote
<1> QED
    BY <1>6, <1>7, <1>8 DEF E, d, LastDone

(* The cells a pair is stored to, from b on.                               *)
Cell(k) == IF k % 4 = 0 THEN 4 ELSE IF k % 4 = 1 THEN 2 ELSE IF k % 4 = 2 THEN 0 ELSE 6
Cells(g) == g = [a \in 0 .. MemSize - 1 |-> g[a]]
Pushed(f, g, b, c, u, v) ==
    /\ Cells(g)
    /\ \A a \in 0 .. MemSize - 1 : g[a] = IF a = b + c THEN u ELSE IF a = b + c + 1 THEN v ELSE f[a]

(* What a push of a pair does to the stack.                                *)
LEMMA PushIs ==
    ASSUME NEW k \in 0 .. 6, NEW s, NEW b \in Nat, s.sp = 8 * b, Cells(s.stack)
    PROVE  LET t == Effect(store_pair(k), s)
               c == Cell(k)
           IN  /\ t.x = s.x /\ t.sp = s.sp /\ t.flag = s.flag /\ t.io = s.io
               /\ Pushed(s.stack, t.stack, b, c, s.x[7 - c], s.x[6 - c])
<1> DEFINE t == Effect(store_pair(k), s)
           c == Cell(k)
<1>1. store_pair(k) = Push(7 - c, 6 - c, c) /\ c \in {0, 2, 4, 6}
    <2>1. k % 4 \in 0 .. 3
        OBVIOUS
    <2> QED
        BY <2>1, StorePairIs DEF Cell
<1> HIDE DEF c
<1>2. Effect(Push(7 - c, 6 - c, c), s) =
          State(s.x, s.sp, s.flag,
                Put2(s.stack, (s.sp \div 8) + c, s.x[7 - c], (s.sp \div 8) + c + 1, s.x[6 - c]), s.io)
    BY DEF Effect, Push, OneWrite
<1>3. s.sp \div 8 = b
    OBVIOUS
<1>4. t = State(s.x, s.sp, s.flag, Put2(s.stack, b + c, s.x[7 - c], b + c + 1, s.x[6 - c]), s.io)
    BY <1>1, <1>2, <1>3
<1>5. DOMAIN s.stack = 0 .. MemSize - 1
    BY DEF Cells
<1>6. Pushed(s.stack, Put2(s.stack, b + c, s.x[7 - c], b + c + 1, s.x[6 - c]), b, c, s.x[7 - c], s.x[6 - c])
    <2>1. b + c # b + c + 1
        BY <1>1
    <2> QED
        BY <1>5, <2>1 DEF Pushed, Put2, Cells
<1> QED
    BY <1>4, <1>6 DEF State, c

(* Four pairs in any rotation fill the block of a program.                 *)
LEMMA PairsFill ==
    ASSUME NEW k \in 0 .. 3, NEW e \in 1 .. n, NEW E, NEW f0, NEW f1, NEW f2, NEW f3, NEW f4, Cells(f0),
           LET b == MemSize - 8 * e
           IN  /\ Pushed(f0, f1, b, Cell(k), E[7 - Cell(k)], E[6 - Cell(k)])
               /\ Pushed(f1, f2, b, Cell(k + 1), E[7 - Cell(k + 1)], E[6 - Cell(k + 1)])
               /\ Pushed(f2, f3, b, Cell(k + 2), E[7 - Cell(k + 2)], E[6 - Cell(k + 2)])
               /\ Pushed(f3, f4, b, Cell(k + 3), E[7 - Cell(k + 3)], E[6 - Cell(k + 3)])
    PROVE  f4 = Store(f0, e - 1, E)
<1> DEFINE b == MemSize - 8 * e
<1>1. b \in Nat /\ MemSize \in Nat /\ b + 8 <= MemSize /\ e \in Nat
    BY NIsNat DEF MemSize, n
<1>2. Block(e - 1) = b .. b + 7
    BY <1>1 DEF Block
<1>3. \A a \in Int : (MemSize - 1 - 8 * (e - 1)) - a = (b + 7) - a
    BY <1>1
<1>4. Store(f0, e - 1, E) = [a \in 0 .. MemSize - 1 |-> IF a \in b .. b + 7 THEN E[(b + 7) - a] ELSE f0[a]]
    BY <1>1, <1>2, <1>3 DEF Store
<1>5. /\ Pushed(f0, f1, b, Cell(k), E[7 - Cell(k)], E[6 - Cell(k)])
      /\ Pushed(f1, f2, b, Cell(k + 1), E[7 - Cell(k + 1)], E[6 - Cell(k + 1)])
      /\ Pushed(f2, f3, b, Cell(k + 2), E[7 - Cell(k + 2)], E[6 - Cell(k + 2)])
      /\ Pushed(f3, f4, b, Cell(k + 3), E[7 - Cell(k + 3)], E[6 - Cell(k + 3)])
    OBVIOUS
<1> HIDE DEF b
<1>6. Cells(f4)
    BY <1>5 DEF Pushed
<1>7. ASSUME NEW a \in 0 .. MemSize - 1
      PROVE  f4[a] = IF a \in b .. b + 7 THEN E[(b + 7) - a] ELSE f0[a]
    <2>1. CASE k = 0
        BY <1>1, <1>5, <2>1 DEF Pushed, Cell
    <2>2. CASE k = 1
        BY <1>1, <1>5, <2>2 DEF Pushed, Cell
    <2>3. CASE k = 2
        BY <1>1, <1>5, <2>3 DEF Pushed, Cell
    <2>4. CASE k = 3
        BY <1>1, <1>5, <2>4 DEF Pushed, Cell
    <2> QED
        BY <2>1, <2>2, <2>3, <2>4
<1> QED
    BY <1>4, <1>6, <1>7 DEF Cells

(* The end of a program of the first phase: instruction 8, and R0-R7 to    *)
(* the stack.                                                              *)
LEMMA RegEnded ==
    ASSUME NEW p, Scheduled(p), NEW rs, DOMAIN rs = Reg, NEW mm, NEW e \in 1 .. n,
           NEW U, Ran(reg_end(p), 6, U), Kept(U[0]), Holds(U[0].x, rs, {}),
           U[0].sp = 8 * (MemSize - 8 * e), Cells(U[0].stack)
    PROVE  LET E == Do(p, 8, rs, "reg", mm)
           IN  /\ Kept(U[6]) /\ Holds(U[6].x, E, {}) /\ U[6].x[9] = U[0].x[9]
               /\ U[6].sp = U[0].sp /\ U[6].io = U[0].io /\ U[6].flag = U[0].flag
               /\ U[6].stack = Store(U[0].stack, e - 1, E)
<1> DEFINE E == Do(p, 8, rs, "reg", mm)
           b == MemSize - 8 * e
           k == pair_idx(p)
           d == p[8].dst
<1>1. d \in 0 .. 7 /\ p[8].src \in 0 .. 7 /\ p[8].src # d /\ k = d \div 2
    BY ScheduledApart DEF Apart, Operands, pair_idx
<1>2. b \in Nat
    BY NIsNat DEF MemSize, n
<1>3. k \in 0 .. 3 /\ {k, k + 1, k + 2, k + 3} \subseteq 0 .. 6
    BY <1>1
<1>4. /\ U[1] = Effect(store_pair(k), U[0]) /\ U[2] = Effect(emit_pre_xas(p[8]), U[1])
      /\ U[3] = Effect(store_pair(k + 1), U[2]) /\ U[4] = Effect(emit_xas(p[8], p[8].src), U[3])
      /\ U[5] = Effect(store_pair(k + 2), U[4]) /\ U[6] = Effect(store_pair(k + 3), U[5])
    <2>1. \A i \in 0 .. 5 : U[i + 1] = Effect(reg_end(p)[i + 1], U[i])
        BY DEF Ran
    <2> QED
        BY <2>1 DEF reg_end
<1> HIDE DEF E, b, k, d
<1>5. ASSUME NEW q \in 0 .. 6, NEW s, NEW t, t = Effect(store_pair(q), s), s.sp = 8 * b, Cells(s.stack)
      PROVE  /\ t.x = s.x /\ t.sp = s.sp /\ t.flag = s.flag /\ t.io = s.io
             /\ Pushed(s.stack, t.stack, b, Cell(q), s.x[7 - Cell(q)], s.x[6 - Cell(q)])
             /\ Cells(t.stack)
    BY <1>2, <1>5, PushIs DEF Pushed
<1>6. /\ U[1].x = U[0].x /\ U[1].sp = U[0].sp /\ U[1].flag = U[0].flag /\ U[1].io = U[0].io
      /\ Pushed(U[0].stack, U[1].stack, b, Cell(k), U[0].x[7 - Cell(k)], U[0].x[6 - Cell(k)])
      /\ Cells(U[1].stack)
    <2>1. U[0].sp = 8 * b
        BY DEF b
    <2> QED
        BY <1>3, <1>4, <1>5, <2>1
<1>7. Kept(U[1])
    BY <1>6 DEF Kept
<1>8. /\ Kept(U[2]) /\ Same(U[1], U[2]) /\ Turns(U[1], U[2], p[8].dst, Half(p, 8, U[1].x[p[8].dst]))
    BY <1>4, <1>7, PlainPass, PlainKeeps, HalvesTurn
<1>9. U[2].sp = 8 * b /\ Cells(U[2].stack) /\ U[2].stack = U[1].stack /\ U[2].io = U[0].io
    BY <1>6, <1>8 DEF Same, b
<1>10. /\ U[3].x = U[2].x /\ U[3].sp = U[2].sp /\ U[3].flag = U[2].flag /\ U[3].io = U[2].io
       /\ Pushed(U[2].stack, U[3].stack, b, Cell(k + 1), U[2].x[7 - Cell(k + 1)], U[2].x[6 - Cell(k + 1)])
       /\ Cells(U[3].stack)
    BY <1>3, <1>4, <1>5, <1>9
<1>11. Kept(U[3])
    BY <1>8, <1>10 DEF Kept
<1>12. /\ Kept(U[4]) /\ Same(U[3], U[4])
       /\ Turns(U[3], U[4], p[8].dst, Full(p, 8, U[3].x[p[8].dst], U[3].x[p[8].src]))
    BY <1>4, <1>11, PlainPass, PlainKeeps, HalvesTurn
<1>13. U[4].sp = 8 * b /\ Cells(U[4].stack) /\ U[4].stack = U[3].stack /\ U[4].io = U[0].io
    BY <1>9, <1>10, <1>12 DEF Same
<1>14. /\ U[5].x = U[4].x /\ U[5].sp = U[4].sp /\ U[5].flag = U[4].flag /\ U[5].io = U[4].io
       /\ Pushed(U[4].stack, U[5].stack, b, Cell(k + 2), U[4].x[7 - Cell(k + 2)], U[4].x[6 - Cell(k + 2)])
       /\ Cells(U[5].stack)
    BY <1>3, <1>4, <1>5, <1>13
<1>15. U[5].sp = 8 * b
    BY <1>13, <1>14
<1>16. /\ U[6].x = U[5].x /\ U[6].sp = U[5].sp /\ U[6].flag = U[5].flag /\ U[6].io = U[5].io
       /\ Pushed(U[5].stack, U[6].stack, b, Cell(k + 3), U[5].x[7 - Cell(k + 3)], U[5].x[6 - Cell(k + 3)])
    BY <1>3, <1>4, <1>5, <1>14, <1>15
<1>17. /\ Holds(U[4].x, E, {})
       /\ \A q \in (0 .. 7) \ {d} : U[0].x[q] = E[q] /\ U[2].x[q] = E[q]
       /\ U[4].x[9] = U[0].x[9]
    <2>1. Wrote(U[0].x, U[2].x, p[8].dst, Half(p, 8, U[0].x[p[8].dst]))
        BY <1>6, <1>8 DEF Turns
    <2>2. U[2].x[p[8].src] = rs[p[8].src]
        <3>1. p[8].src \in 0 .. 7 /\ p[8].src # p[8].dst
            BY <1>1 DEF d
        <3>2. U[0].x[p[8].src] = rs[p[8].src]
            BY <3>1, Homes DEF Holds
        <3> QED
            BY <2>1, <3>1, <3>2 DEF Wrote
    <2>3. Source(p, 8, rs, "reg", mm) = U[2].x[p[8].src]
        BY <2>2 DEF Source
    <2>4. Wrote(U[2].x, U[4].x, p[8].dst, Full(p, 8, U[2].x[p[8].dst], Source(p, 8, rs, "reg", mm)))
        BY <1>10, <1>12, <2>3 DEF Turns
    <2>5. "reg" \in {"reg", "mem"}
        OBVIOUS
    <2>6. LastRun(p, rs, "reg", mm, U[0].x, U[2].x, U[4].x)
        BY <2>1, <2>4 DEF LastRun
    <2>7. LastDone(p[8].dst, Do(p, 8, rs, "reg", mm), U[0].x, U[2].x, U[4].x)
        BY <2>5, <2>6, LastInstruction
    <2> QED
        BY <2>7 DEF E, d, LastDone
<1>18. \A q \in 0 .. 7 : U[4].x[q] = E[q]
    BY <1>17, Homes DEF Holds
<1>19. /\ {7 - Cell(k), 6 - Cell(k)} \subseteq (0 .. 7) \ {d}
       /\ {7 - Cell(k + 1), 6 - Cell(k + 1)} \subseteq (0 .. 7) \ {d}
       /\ {7 - Cell(k + 2), 6 - Cell(k + 2)} \subseteq 0 .. 7
       /\ {7 - Cell(k + 3), 6 - Cell(k + 3)} \subseteq 0 .. 7
    BY <1>1 DEF Cell
<1>20. /\ Pushed(U[0].stack, U[1].stack, b, Cell(k), E[7 - Cell(k)], E[6 - Cell(k)])
       /\ Pushed(U[1].stack, U[3].stack, b, Cell(k + 1), E[7 - Cell(k + 1)], E[6 - Cell(k + 1)])
       /\ Pushed(U[3].stack, U[5].stack, b, Cell(k + 2), E[7 - Cell(k + 2)], E[6 - Cell(k + 2)])
       /\ Pushed(U[5].stack, U[6].stack, b, Cell(k + 3), E[7 - Cell(k + 3)], E[6 - Cell(k + 3)])
    <2>1. Pushed(U[0].stack, U[1].stack, b, Cell(k), E[7 - Cell(k)], E[6 - Cell(k)])
        BY <1>6, <1>17, <1>19
    <2>2. Pushed(U[1].stack, U[3].stack, b, Cell(k + 1), E[7 - Cell(k + 1)], E[6 - Cell(k + 1)])
        BY <1>9, <1>10, <1>17, <1>19
    <2>3. Pushed(U[3].stack, U[5].stack, b, Cell(k + 2), E[7 - Cell(k + 2)], E[6 - Cell(k + 2)])
        BY <1>13, <1>14, <1>18, <1>19
    <2>4. Pushed(U[5].stack, U[6].stack, b, Cell(k + 3), E[7 - Cell(k + 3)], E[6 - Cell(k + 3)])
        BY <1>14, <1>16, <1>18, <1>19
    <2> QED
        BY <2>1, <2>2, <2>3, <2>4
<1>21. U[6].stack = Store(U[0].stack, e - 1, E)
    BY <1>3, <1>20, PairsFill DEF b
<1>22. U[6].x = U[4].x
    BY <1>14, <1>16
<1>23. /\ U[6].sp = U[0].sp /\ U[6].io = U[0].io /\ U[6].flag = U[0].flag
    BY <1>6, <1>8, <1>9, <1>10, <1>12, <1>13, <1>14, <1>16 DEF Turns, Same
<1>24. Kept(U[6])
    BY <1>12, <1>22 DEF Kept
<1> QED
    BY <1>17, <1>21, <1>22, <1>23, <1>24 DEF E

(* The end of a program of the second phase: instruction 8, whose operand  *)
(* was loaded before the branch.                                           *)
LEMMA MemEnded ==
    ASSUME NEW p, Scheduled(p), NEW rs, DOMAIN rs = Reg, NEW mm,
           NEW U, Ran(mem_end(p), 2, U), Kept(U[0]), Holds(U[0].x, rs, {}),
           U[0].x[17] = mm[Slot(rs[p[8].src])]
    PROVE  /\ Kept(U[2]) /\ Same(U[0], U[2]) /\ U[2].flag = U[0].flag /\ U[2].x[9] = U[0].x[9]
           /\ Holds(U[2].x, Do(p, 8, rs, "mem", mm), {})
<1>1. U[1] = Effect(emit_pre_xas(p[8]), U[0]) /\ U[2] = Effect(emit_xas(p[8], 17), U[1])
    <2>1. \A i \in 0 .. 1 : U[i + 1] = Effect(mem_end(p)[i + 1], U[i])
        BY DEF Ran
    <2> QED
        BY <2>1 DEF mem_end
<1>2. Kept(U[1]) /\ Same(U[0], U[1]) /\ Turns(U[0], U[1], p[8].dst, Half(p, 8, U[0].x[p[8].dst]))
    BY <1>1, PlainPass, PlainKeeps, HalvesTurn
<1>3. /\ Kept(U[2]) /\ Same(U[1], U[2])
      /\ Turns(U[1], U[2], p[8].dst, Full(p, 8, U[1].x[p[8].dst], U[1].x[17]))
    BY <1>1, <1>2, PlainPass, PlainKeeps, HalvesTurn
<1>4. p[8].dst \in 0 .. 7
    BY ScheduledApart DEF Apart, Operands
<1>5. Wrote(U[0].x, U[1].x, p[8].dst, Half(p, 8, U[0].x[p[8].dst]))
    BY <1>2 DEF Turns
<1>6. U[1].x[17] = Source(p, 8, rs, "mem", mm)
    <2>1. U[1].x[17] = U[0].x[17]
        BY <1>4, <1>5 DEF Wrote
    <2> QED
        BY <2>1 DEF Source
<1>7. Wrote(U[1].x, U[2].x, p[8].dst, Full(p, 8, U[1].x[p[8].dst], Source(p, 8, rs, "mem", mm)))
    BY <1>3, <1>6 DEF Turns
<1>8. Holds(U[2].x, Do(p, 8, rs, "mem", mm), {}) /\ U[2].x[9] = U[0].x[9]
    <2>1. "mem" \in {"reg", "mem"}
        OBVIOUS
    <2>2. LastRun(p, rs, "mem", mm, U[0].x, U[1].x, U[2].x)
        BY <1>5, <1>7 DEF LastRun
    <2>3. LastDone(p[8].dst, Do(p, 8, rs, "mem", mm), U[0].x, U[1].x, U[2].x)
        BY <2>1, <2>2, LastInstruction
    <2> QED
        BY <2>3 DEF LastDone
<1> QED
    BY <1>2, <1>3, <1>8 DEF Same, Turns

(* The machine has eighteen registers.                                     *)
File(s) == DOMAIN s.x = 0 .. 17

(* A pair of r[] is loaded.                                                *)
Loaded(s, t, a, b, c) ==
    /\ File(t) /\ Same(s, t)
    /\ t.x[a] = s.io[c] /\ t.x[b] = s.io[c + 1]
    /\ \A q \in 0 .. 17 : q # a /\ q # b => t.x[q] = s.x[q]

(* What loading a pair of r[] does.                                        *)
LEMMA LdpLoads ==
    ASSUME NEW s, NEW a, NEW b, NEW c, a \in 0 .. 17 /\ b \in 0 .. 17 /\ a # b, File(s)
    PROVE  Loaded(s, Effect(Ldp(a, b, 0, c), s), a, b, c)
<1> DEFINE t == Effect(Ldp(a, b, 0, c), s)
<1>1. t = State(Put2(s.x, a, s.io[c], b, s.io[c + 1]), s.sp, s.flag, s.stack, s.io)
    BY DEF Effect, Ldp, OneWrite
<1> QED
    BY <1>1 DEF State, Put2, Same, Loaded, File

(* The prologue loads r[] and the constants.                               *)
LEMMA PrologueLoads ==
    ASSUME NEW U, Ran(code_prologue, 9, U), File(U[0]), U[0].x[0] = Ptr
    PROVE  /\ Kept(U[9]) /\ Same(U[0], U[9]) /\ U[9].x[9] = 0
           /\ Holds(U[9].x, U[0].io, {})
<1> DEFINE r == U[0].io
           Loads(s, t, f) == t = State(f, s.sp, s.flag, s.stack, s.io)
<1>1. /\ U[1] = Effect(Ldp(12, 13, 0, 8), U[0]) /\ U[2] = Effect(Mov(8, X(0)), U[1])
      /\ U[3] = Effect(Ldp(6, 7, 0, 6), U[2]) /\ U[4] = Effect(Ldp(4, 5, 0, 4), U[3])
      /\ U[5] = Effect(Ldp(2, 3, 0, 2), U[4]) /\ U[6] = Effect(Ldp(0, 1, 0, 0), U[5])
      /\ U[7] = Effect(Mov(9, N(0)), U[6]) /\ U[8] = Effect(Mov(10, N(9)), U[7])
      /\ U[9] = Effect(Mov(11, N(33)), U[8])
    <2>1. \A i \in 0 .. 8 : U[i + 1] = Effect(code_prologue[i + 1], U[i])
        BY DEF Ran
    <2> QED
        BY <2>1 DEF code_prologue
<1>4. ASSUME NEW s, NEW t, NEW d \in 0 .. 17, NEW v, t = Put(s, d, v), File(s)
      PROVE  /\ File(t) /\ Same(s, t) /\ Wrote(s.x, t.x, d, v)
    BY <1>4 DEF Put, State, Same, Wrote, File
<1> HIDE DEF r
<1>5. /\ File(U[1]) /\ U[1].io = r /\ Same(U[0], U[1])
      /\ U[1].x[12] = r[8] /\ U[1].x[13] = r[9] /\ U[1].x[0] = Ptr
    <2>1. 9 = 8 + 1
        OBVIOUS
    <2>2. Loaded(U[0], U[1], 12, 13, 8)
        <3>1. File(U[0])
            OBVIOUS
        <3>2. Loaded(U[0], Effect(Ldp(12, 13, 0, 8), U[0]), 12, 13, 8)
            BY <2>1, <3>1, LdpLoads
        <3> QED
            BY <1>1, <3>2
    <2> QED
        BY <2>1, <2>2 DEF r, Same, Loaded
<1>6. /\ File(U[2]) /\ U[2].io = r /\ Same(U[0], U[2])
      /\ U[2].x[12] = r[8] /\ U[2].x[13] = r[9] /\ U[2].x[8] = Ptr
    <2>1. U[2] = Put(U[1], 8, U[1].x[0])
        BY <1>1, OthersAre
    <2>2. File(U[2]) /\ Same(U[1], U[2]) /\ Wrote(U[1].x, U[2].x, 8, U[1].x[0])
        <3>1. File(U[1]) /\ 8 \in 0 .. 17
            BY <1>5
        <3> QED
            BY <1>4, <2>1, <3>1
    <2> QED
        BY <1>5, <2>2 DEF Same, Wrote
<1>7. /\ File(U[3]) /\ U[3].io = r /\ Same(U[0], U[3])
      /\ U[3].x[12] = r[8] /\ U[3].x[13] = r[9] /\ U[3].x[8] = Ptr
      /\ U[3].x[6] = r[6] /\ U[3].x[7] = r[7]
    <2>1. 7 = 6 + 1
        OBVIOUS
    <2>2. Loaded(U[2], U[3], 6, 7, 6)
        <3>1. File(U[2])
            BY <1>6
        <3>2. Loaded(U[2], Effect(Ldp(6, 7, 0, 6), U[2]), 6, 7, 6)
            BY <2>1, <3>1, LdpLoads
        <3> QED
            BY <1>1, <3>2
    <2> QED
        BY <1>6, <2>1, <2>2 DEF Same, Loaded
<1>8. /\ File(U[4]) /\ U[4].io = r /\ Same(U[0], U[4])
      /\ U[4].x[12] = r[8] /\ U[4].x[13] = r[9] /\ U[4].x[8] = Ptr
      /\ \A q \in 4 .. 7 : U[4].x[q] = r[q]
    <2>1. 5 = 4 + 1
        OBVIOUS
    <2>2. Loaded(U[3], U[4], 4, 5, 4)
        <3>1. File(U[3])
            BY <1>7
        <3>2. Loaded(U[3], Effect(Ldp(4, 5, 0, 4), U[3]), 4, 5, 4)
            BY <2>1, <3>1, LdpLoads
        <3> QED
            BY <1>1, <3>2
    <2> QED
        BY <1>7, <2>1, <2>2 DEF Same, Loaded
<1>9. /\ File(U[5]) /\ U[5].io = r /\ Same(U[0], U[5])
      /\ U[5].x[12] = r[8] /\ U[5].x[13] = r[9] /\ U[5].x[8] = Ptr
      /\ \A q \in 2 .. 7 : U[5].x[q] = r[q]
    <2>1. 3 = 2 + 1
        OBVIOUS
    <2>2. Loaded(U[4], U[5], 2, 3, 2)
        <3>1. File(U[4])
            BY <1>8
        <3>2. Loaded(U[4], Effect(Ldp(2, 3, 0, 2), U[4]), 2, 3, 2)
            BY <2>1, <3>1, LdpLoads
        <3> QED
            BY <1>1, <3>2
    <2> QED
        BY <1>8, <2>1, <2>2 DEF Same, Loaded
<1>10. /\ File(U[6]) /\ U[6].io = r /\ Same(U[0], U[6])
       /\ U[6].x[12] = r[8] /\ U[6].x[13] = r[9] /\ U[6].x[8] = Ptr
       /\ \A q \in 0 .. 7 : U[6].x[q] = r[q]
    <2>1. 1 = 0 + 1
        OBVIOUS
    <2>2. Loaded(U[5], U[6], 0, 1, 0)
        <3>1. File(U[5])
            BY <1>9
        <3>2. Loaded(U[5], Effect(Ldp(0, 1, 0, 0), U[5]), 0, 1, 0)
            BY <2>1, <3>1, LdpLoads
        <3> QED
            BY <1>1, <3>2
    <2> QED
        BY <1>9, <2>1, <2>2 DEF Same, Loaded
<1>11. /\ File(U[7]) /\ Same(U[6], U[7]) /\ Wrote(U[6].x, U[7].x, 9, 0)
    <2>1. U[7] = Put(U[6], 9, 0)
        BY <1>1, OthersAre
    <2>2. File(U[6]) /\ 9 \in 0 .. 17
        BY <1>10
    <2> QED
        BY <1>4, <2>1, <2>2
<1>12. /\ File(U[8]) /\ Same(U[7], U[8]) /\ Wrote(U[7].x, U[8].x, 10, 9)
    <2>1. U[8] = Put(U[7], 10, 9)
        BY <1>1, OthersAre
    <2> QED
        BY <1>4, <1>11, <2>1
<1>13. /\ File(U[9]) /\ Same(U[8], U[9]) /\ Wrote(U[8].x, U[9].x, 11, 33)
    <2>1. U[9] = Put(U[8], 11, 33)
        BY <1>1, OthersAre
    <2> QED
        BY <1>4, <1>12, <2>1
<1>14. Same(U[0], U[9])
    BY <1>10, <1>11, <1>12, <1>13 DEF Same
<1>15. /\ U[9].x[12] = r[8] /\ U[9].x[13] = r[9] /\ U[9].x[8] = Ptr /\ U[9].x[9] = 0
       /\ U[9].x[10] = 9 /\ U[9].x[11] = 33 /\ \A q \in 0 .. 7 : U[9].x[q] = r[q]
    BY <1>10, <1>11, <1>12, <1>13 DEF Wrote
<1>16. Holds(U[9].x, r, {})
    BY <1>15 DEF Holds, HomeOf, Reg
<1> QED
    BY <1>13, <1>14, <1>15, <1>16 DEF Kept, r, File

(* The epilogue stores R0-R7 in r[] and takes the stack down.              *)
LEMMA EpilogueStores ==
    ASSUME NEW U, Ran(code_epilogue, 6, U), NEW rs, Holds(U[0].x, rs, {}),
           U[0].sp = 0, DOMAIN U[0].io = Reg, U[0].io[8] = rs[8], U[0].io[9] = rs[9]
    PROVE  U[6].sp = 8 * MemSize /\ U[6].stack = U[0].stack /\ \A k \in Reg : U[6].io[k] = rs[k]
<1> DEFINE f == U[0].x
<1>1. /\ U[1] = Effect(Stp(6, 7, 6), U[0]) /\ U[2] = Effect(Sp(8 * MemSize), U[1])
      /\ U[3] = Effect(Stp(4, 5, 4), U[2]) /\ U[4] = Effect(Stp(2, 3, 2), U[3])
      /\ U[5] = Effect(Stp(0, 1, 0), U[4]) /\ U[6] = Effect([op |-> "ret"], U[5])
    <2>1. \A i \in 0 .. 5 : U[i + 1] = Effect(code_epilogue[i + 1], U[i])
        BY DEF Ran
    <2> QED
        BY <2>1 DEF code_epilogue
<1>2. \A q \in 0 .. 7 : f[q] = rs[q]
    BY Homes DEF Holds
<1>3. ASSUME NEW s, NEW t, NEW c \in 0 .. 7, NEW d \in 0 .. 7, d = c + 1,
             t = Effect(Stp(c, d, c), s), DOMAIN s.io = Reg
      PROVE  /\ t.x = s.x /\ t.sp = s.sp /\ t.stack = s.stack /\ DOMAIN t.io = Reg
             /\ \A k \in Reg : t.io[k] = IF k = c THEN s.x[c] ELSE IF k = d THEN s.x[d] ELSE s.io[k]
    <2>1. t = State(s.x, s.sp, s.flag, s.stack, Put2(s.io, c, s.x[c], c + 1, s.x[d]))
        BY <1>3 DEF Effect, Stp, OneWrite
    <2>2. c # c + 1
        OBVIOUS
    <2> QED
        BY <1>3, <2>1, <2>2 DEF State, Put2
<1> HIDE DEF f
<1>4. /\ U[1].x = f /\ U[1].sp = 0 /\ U[1].stack = U[0].stack /\ DOMAIN U[1].io = Reg
      /\ \A k \in Reg : U[1].io[k] = IF k = 6 THEN f[6] ELSE IF k = 7 THEN f[7] ELSE U[0].io[k]
    BY <1>1, <1>3 DEF f
<1>5. U[2] = Moved(U[1], 8 * MemSize)
    BY <1>1, OthersAre
<1>6. /\ U[2].x = f /\ U[2].sp = 8 * MemSize /\ U[2].stack = U[0].stack /\ U[2].io = U[1].io
    BY <1>4, <1>5, NIsNat DEF Moved, State, MemSize, n
<1>7. /\ U[3].x = f /\ U[3].sp = U[2].sp /\ U[3].stack = U[2].stack /\ DOMAIN U[3].io = Reg
      /\ \A k \in Reg : U[3].io[k] = IF k = 4 THEN f[4] ELSE IF k = 5 THEN f[5] ELSE U[2].io[k]
    BY <1>1, <1>3, <1>4, <1>6
<1>8. /\ U[4].x = f /\ U[4].sp = U[3].sp /\ U[4].stack = U[3].stack /\ DOMAIN U[4].io = Reg
      /\ \A k \in Reg : U[4].io[k] = IF k = 2 THEN f[2] ELSE IF k = 3 THEN f[3] ELSE U[3].io[k]
    BY <1>1, <1>3, <1>7
<1>9. /\ U[5].x = f /\ U[5].sp = U[4].sp /\ U[5].stack = U[4].stack /\ DOMAIN U[5].io = Reg
      /\ \A k \in Reg : U[5].io[k] = IF k = 0 THEN f[0] ELSE IF k = 1 THEN f[1] ELSE U[4].io[k]
    BY <1>1, <1>3, <1>8
<1>10. U[6] = U[5]
    BY <1>1 DEF Effect, OneWrite
<1>11. ASSUME NEW k \in Reg PROVE U[5].io[k] = rs[k]
    <2>1. 6 \in Reg /\ k \in Int
        BY DEF Reg
    <2>2. U[5].io[k] = IF k \in 0 .. 7 THEN f[k] ELSE U[0].io[k]
        BY <1>4, <1>6, <1>7, <1>8, <1>9 DEF Reg
    <2> QED
        BY <1>2, <2>2 DEF Reg
<1> QED
    BY <1>6, <1>7, <1>8, <1>9, <1>10, <1>11

-----------------------------------------------------------------------------
(* Only a push writes the stack, and in a program of the first phase it    *)
(* writes the block of that program.                                       *)
Quiet(in) == in.op \notin {"push", "sp"}

(* Only a push changes the stack, and only sp the stack pointer.           *)
LEMMA QuietKeeps ==
    ASSUME NEW in, NEW s
    PROVE  /\ in.op # "push" => Effect(in, s).stack = s.stack
           /\ in.op # "sp" => Effect(in, s).sp = s.sp
BY DEF Effect, State, Put, Moved, Tested

(* A program of the first phase pushes pairs and moves no stack pointer.   *)
LEMMA RegKinds ==
    ASSUME NEW list \in ProgramLists, NEW e \in 1 .. n, NEW j \in 0 .. 24
    PROVE  Quiet(Isn(list, e, j)) \/ \E k \in 0 .. 6 : Isn(list, e, j) = store_pair(k)
<1> DEFINE p == ProgramOf(list, e)
<1>1. Scheduled(p) /\ Isn(list, e, j) = RegIsn(p, j)
    <2>1. e \in 1 .. 2 * n /\ e # 0 /\ e <= n /\ j < 25
        BY NIsNat
    <2> QED
        BY <2>1, ProgramScheduled DEF Isn
<1> HIDE DEF p
<1>2. \A in : Plain(in) => Quiet(in)
    BY DEF Plain, Quiet, OneWrite
<1>3. CASE j < 18
    <2>1. j + 1 \in 1 .. 18 /\ RegIsn(p, j) = reg_pass(p)[j + 1]
        BY <1>3 DEF RegIsn
    <2> QED
        BY <1>1, <1>2, <2>1, PlainPass
<1>4. CASE j = 18
    BY <1>1, <1>4 DEF RegIsn, Quiet
<1>5. CASE j > 18
    <2>1. j - 18 \in 1 .. 6 /\ RegIsn(p, j) = reg_end(p)[j - 18]
        BY <1>5 DEF RegIsn
    <2>2. pair_idx(p) \in 0 .. 3
        BY <1>1, ScheduledApart DEF Apart, Operands, pair_idx
    <2>3. /\ reg_end(p)[1] = store_pair(pair_idx(p)) /\ reg_end(p)[2] = emit_pre_xas(p[8])
          /\ reg_end(p)[3] = store_pair(pair_idx(p) + 1) /\ reg_end(p)[4] = emit_xas(p[8], p[8].src)
          /\ reg_end(p)[5] = store_pair(pair_idx(p) + 2) /\ reg_end(p)[6] = store_pair(pair_idx(p) + 3)
        BY DEF reg_end
    <2>4. Plain(emit_pre_xas(p[8])) /\ Plain(emit_xas(p[8], p[8].src))
        BY <1>1, PlainPass
    <2>5. \A i \in 0 .. 3 : pair_idx(p) + i \in 0 .. 6
        BY <2>2
    <2>6. ASSUME NEW i \in {1, 3, 5, 6} PROVE \E k \in 0 .. 6 : reg_end(p)[i] = store_pair(k)
        <3>1. pair_idx(p) + 0 = pair_idx(p)
            BY <2>2
        <3> QED
            BY <2>3, <2>5, <3>1
    <2> QED
        BY <1>1, <1>2, <2>1, <2>3, <2>4, <2>6
<1> QED
    BY <1>3, <1>4, <1>5

(* Nothing is pushed after the first phase.                                *)
LEMMA MemKinds ==
    ASSUME NEW list \in ProgramLists, NEW e \in n + 1 .. 2 * n + 1, NEW j \in 0 .. Span(e) - 1
    PROVE  Isn(list, e, j).op # "push"
<1>1. n \in Nat \ {0}
    BY NIsNat
<1>2. \A in : Plain(in) => in.op # "push"
    BY DEF Plain, OneWrite
<1>3. CASE e <= 2 * n
    <2> DEFINE p == ProgramOf(list, e)
    <2>1. e \in 1 .. 2 * n /\ j \in 0 .. 33 /\ Isn(list, e, j) = MemIsn(p, j)
        BY <1>1, <1>3 DEF Isn, Span
    <2>2. Scheduled(p)
        BY <2>1, ProgramScheduled
    <2> HIDE DEF p
    <2>3. CASE j < 31
        <3>1. j + 1 \in 1 .. 31 /\ MemIsn(p, j) = mem_pass(p)[j + 1]
            BY <2>1, <2>3 DEF MemIsn
        <3> QED
            BY <1>2, <2>1, <2>2, <3>1, PlainPass
    <2>4. CASE j >= 31
        <3>1. MemIsn(p, j) \in {[op |-> "beq", back |-> 31], emit_pre_xas(p[8]), emit_xas(p[8], 17)}
            BY <2>1, <2>4 DEF MemIsn
        <3> QED
            BY <1>2, <2>1, <2>2, <3>1, PlainPass
    <2> QED
        BY <2>1, <2>3, <2>4
<1>4. CASE e = 2 * n + 1
    <2>1. j + 1 \in 1 .. 6 /\ Isn(list, e, j) = code_epilogue[j + 1]
        BY <1>1, <1>4 DEF Span, Isn
    <2>2. \A i \in 1 .. 6 : code_epilogue[i].op # "push"
        BY DEF code_epilogue, Stp, Sp
    <2> QED
        BY <2>1, <2>2
<1> QED
    BY <1>1, <1>3, <1>4

(* The first j instructions of segment e.                                  *)
Trace(list, e, j, T) == \A i \in 0 .. j - 1 : T[i + 1] = Effect(Isn(list, e, i), T[i])

(* The stack pointer stays where the program put it.                       *)
LEMMA RegUndisturbed ==
    ASSUME NEW list \in ProgramLists, NEW e \in 1 .. n, NEW m \in 0 .. 25, NEW T, Trace(list, e, m, T),
           T[0].sp = 8 * (MemSize - 8 * e), Cells(T[0].stack)
    PROVE  \A i \in 0 .. m : T[i].sp = 8 * (MemSize - 8 * e) /\ Cells(T[i].stack)
<1> DEFINE b == MemSize - 8 * e
           Q(i) == T[i].sp = 8 * b /\ Cells(T[i].stack)
<1>1. b \in Nat
    BY NIsNat DEF MemSize, n
<1>2. Q(0)
    OBVIOUS
<1>3. ASSUME NEW i \in 0 .. m - 1, Q(i) PROVE Q(i + 1)
    <2>1. T[i + 1] = Effect(Isn(list, e, i), T[i]) /\ i \in 0 .. 24
        BY DEF Trace
    <2>2. CASE Quiet(Isn(list, e, i))
        BY <1>3, <2>1, <2>2, QuietKeeps DEF Quiet
    <2>3. ASSUME NEW k \in 0 .. 6, Isn(list, e, i) = store_pair(k) PROVE Q(i + 1)
        BY <1>1, <1>3, <2>1, <2>3, PushIs DEF Pushed
    <2> QED
        BY <2>1, <2>2, <2>3, RegKinds
<1> HIDE DEF Q
<1>4. \A i \in 0 .. m : Q(i)
    <2> SUFFICES ASSUME NEW k \in 0 .. m, ~Q(k) PROVE FALSE
        OBVIOUS
    <2> DEFINE S == {i \in 0 .. m : ~Q(i)}
    <2>1. S \subseteq Nat /\ S # {}
        OBVIOUS
    <2>2. PICK i \in S : \A q \in S : i <= q
        <3> HIDE DEF S
        <3> QED
            BY <2>1, LeastExists
    <2>3. i # 0
        BY <1>2
    <2>4. i - 1 \in 0 .. m - 1 /\ i - 1 \notin S /\ (i - 1) + 1 = i
        BY <2>2, <2>3
    <2> QED
        BY <1>3, <2>4
<1> QED
    BY <1>4 DEF Q, b

(* The cells above the block of a program are not written.                 *)
LEMMA RegStack ==
    ASSUME NEW list \in ProgramLists, NEW e \in 1 .. n, NEW j \in 0 .. 25, NEW s,
           j < 25 => s.sp = 8 * (MemSize - 8 * e) /\ Cells(s.stack)
    PROVE  \A a \in 0 .. MemSize - 1 :
               a >= MemSize - 8 * (e - 1) => Effect(Isn(list, e, j), s).stack[a] = s.stack[a]
<1> DEFINE b == MemSize - 8 * e
<1>1. b \in Nat /\ MemSize - 8 * (e - 1) = b + 8
    BY NIsNat DEF MemSize, n
<1>2. CASE Isn(list, e, j).op # "push"
    BY <1>2, QuietKeeps
<1>3. ASSUME NEW k \in 0 .. 6, Isn(list, e, j) = store_pair(k), j < 25
      PROVE  \A a \in 0 .. MemSize - 1 :
                 a >= b + 8 => Effect(Isn(list, e, j), s).stack[a] = s.stack[a]
    <2>1. Pushed(s.stack, Effect(store_pair(k), s).stack, b, Cell(k), s.x[7 - Cell(k)], s.x[6 - Cell(k)])
        BY <1>1, <1>3, PushIs
    <2>2. Cell(k) \in 0 .. 6
        BY DEF Cell
    <2> QED
        BY <1>1, <1>3, <2>1, <2>2 DEF Pushed
<1>4. CASE j < 25
    <2>1. j \in 0 .. 24
        BY <1>4
    <2> QED
        BY <1>1, <1>2, <1>3, <1>4, <2>1, RegKinds DEF Quiet
<1>5. CASE j = 25
    <2>1. Isn(list, e, j).op # "push"
        BY <1>5, NIsNat DEF Isn, Sp, Mov
    <2> QED
        BY <1>2, <2>1
<1> QED
    BY <1>4, <1>5

-----------------------------------------------------------------------------
(* The machine at a meeting point: rs are the registers of HashwxVM and    *)
(* left the loops it has left.                                             *)
StackTop(e) == IF e <= n THEN MemSize - 8 * e ELSE 0
Good(e, s, rs, left) ==
    /\ Kept(s) /\ Holds(s.x, rs, {}) /\ rs \in Registers
    /\ s.x[9] \in 0 .. BranchLimit /\ left = BranchLimit - s.x[9]
    /\ s.sp = 8 * StackTop(e)
    /\ Cells(s.stack)
    /\ \A a \in 0 .. MemSize - 1 : e > n \/ a >= MemSize - 8 * (e - 1) => s.stack[a] \in Word
    /\ DOMAIN s.io = Reg /\ s.io[8] = rs[8] /\ s.io[9] = rs[9]
Fresh(s, rs, left) ==
    /\ File(s) /\ s.x[0] = Ptr
    /\ s.sp = 8 * MemSize /\ Cells(s.stack)
    /\ s.io = rs /\ rs \in Registers /\ left = BranchLimit
Opened(e, s, rs, left) == IF e = 0 THEN Fresh(s, rs, left) ELSE Good(e, s, rs, left)

(* The phase of a segment of a program.                                    *)
PhaseOf(e) == IF e <= n THEN "reg" ELSE "mem"

(* The pass of segment e over its program, from its first instruction to   *)
(* the branch.                                                             *)
AskedAgain(p, rs, ph, mm, left) == left # 0 /\ Looping(Flagged(p, rs, ph, mm))
PassDone(p, rs, ph, mm, left, s, t) ==
    /\ Passed(p, rs, ph, mm, s, t)
    /\ Looped(p, rs, ph, mm) \in Registers
    /\ Looped(p, rs, ph, mm)[8] = rs[8] /\ Looped(p, rs, ph, mm)[9] = rs[9]
    /\ t.flag = 1 <=> AskedAgain(p, rs, ph, mm, left)
    /\ t.flag \in {0, 1}
    /\ t.x[9] = IF t.flag = 1 THEN s.x[9] + 1 ELSE s.x[9]

(* In the second phase every cell of the stack holds a word.               *)
LEMMA WordsThere ==
    ASSUME NEW e \in 1 .. 2 * n + 1, NEW s, NEW rs, NEW left, Good(e, s, rs, left), e > n
    PROVE  Words(s.stack) /\ s.sp = 0
<1>1. s.stack = [a \in 0 .. MemSize - 1 |-> s.stack[a]] /\ \A a \in 0 .. MemSize - 1 : s.stack[a] \in Word
    BY DEF Good, Cells
<1>2. s.sp = 0
    BY NIsNat DEF Good, StackTop
<1> QED
    BY <1>1, <1>2 DEF Words

(* The machine comes to the branch with what HashwxVM computes, and the    *)
(* flag says whether HashwxVM repeats the program.                         *)
LEMMA PassRuns ==
    ASSUME NEW list \in ProgramLists, NEW e \in 1 .. 2 * n, NEW T, Trace(list, e, Back(e), T),
           NEW rs, NEW left, Good(e, T[0], rs, left), NEW mm, PhaseOf(e) = "mem" => mm = T[0].stack
    PROVE  PassDone(ProgramOf(list, e), rs, PhaseOf(e), mm, left, T[0], T[Back(e)])
<1> DEFINE p == ProgramOf(list, e)
           ph == PhaseOf(e)
           t == T[Back(e)]
<1>1. n \in Nat \ {0} /\ e \in Nat /\ Scheduled(p) /\ ph \in {"reg", "mem"}
    BY NIsNat, ProgramScheduled DEF PhaseOf
<1>2. Kept(T[0]) /\ Holds(T[0].x, rs, {}) /\ rs \in Registers
    BY DEF Good
<1>w. ph = "mem" => Words(mm)
    <2>1. ph = "mem" => e > n /\ e \in 1 .. 2 * n + 1
        BY <1>1 DEF PhaseOf
    <2> QED
        BY <2>1, WordsThere
<1>3. Passed(p, rs, ph, mm, T[0], t)
    <2>1. CASE e <= n
        <3>1. Ran(reg_pass(p), 18, T) /\ t = T[18] /\ ph = "reg"
            <4>1. Back(e) = 18 /\ e # 0
                BY <1>1, <2>1 DEF Back
            <4>2. ASSUME NEW i \in 0 .. 17 PROVE T[i + 1] = Effect(reg_pass(p)[i + 1], T[i])
                <5>1. T[i + 1] = Effect(Isn(list, e, i), T[i])
                    BY <4>1 DEF Trace
                <5>2. Isn(list, e, i) = reg_pass(p)[i + 1]
                    BY <2>1, <4>1 DEF Isn, RegIsn
                <5> QED
                    BY <5>1, <5>2
            <4>3. 18 - 1 = 17
                OBVIOUS
            <4> QED
                BY <2>1, <4>1, <4>2, <4>3 DEF Ran, PhaseOf
        <3> HIDE DEF p, t, ph
        <3>2. Passed(p, rs, "reg", mm, T[0], T[18])
            BY <1>1, <1>2, <3>1, RegPassed
        <3> QED
            BY <3>1, <3>2
    <2>2. CASE ~(e <= n)
        <3>1. Ran(mem_pass(p), 31, T) /\ t = T[31] /\ ph = "mem"
            <4>1. Back(e) = 31 /\ e # 0 /\ e <= 2 * n
                BY <1>1, <2>2 DEF Back
            <4>2. ASSUME NEW i \in 0 .. 30 PROVE T[i + 1] = Effect(mem_pass(p)[i + 1], T[i])
                <5>1. T[i + 1] = Effect(Isn(list, e, i), T[i])
                    BY <4>1 DEF Trace
                <5>2. Isn(list, e, i) = mem_pass(p)[i + 1]
                    BY <2>2, <4>1 DEF Isn, MemIsn
                <5> QED
                    BY <5>1, <5>2
            <4>3. 31 - 1 = 30
                OBVIOUS
            <4> QED
                BY <2>2, <4>1, <4>2, <4>3 DEF Ran, PhaseOf
        <3>2. T[0].sp = 0 /\ T[0].stack = mm /\ Words(mm)
            <4>1. e > n /\ e \in 1 .. 2 * n + 1
                BY <1>1, <2>2
            <4> QED
                BY <1>w, <3>1, <4>1, WordsThere
        <3> HIDE DEF p, t, ph
        <3>3. Passed(p, rs, "mem", mm, T[0], T[31])
            BY <1>1, <1>2, <3>1, <3>2, MemPassed
        <3> QED
            BY <3>1, <3>3
    <2> QED
        BY <2>1, <2>2
<1> HIDE DEF p, t, ph
<1>4. PICK R : /\ Passes(p, rs, ph, mm, R)
               /\ R[6] = Looped(p, rs, ph, mm)
               /\ R[0][p[0].dst] = Flagged(p, rs, ph, mm)
    BY PassesExist
<1>5. \A k \in Operands : R[k] \in Registers /\ R[k][8] = rs[8] /\ R[k][9] = rs[9]
    BY <1>1, <1>2, <1>4, <1>w, PassTyped
<1>6. /\ Looped(p, rs, ph, mm) \in Registers
      /\ Looped(p, rs, ph, mm)[8] = rs[8] /\ Looped(p, rs, ph, mm)[9] = rs[9]
    BY <1>4, <1>5 DEF Operands
<1>7. Flagged(p, rs, ph, mm) \in Word
    <2>1. p[0].dst \in Reg
        BY <1>1, ScheduledApart DEF Apart, Operands, Reg
    <2>2. R[0] \in Registers
        BY <1>5 DEF Operands
    <2> QED
        BY <1>4, <2>1, <2>2 DEF Registers
<1>8. T[0].x[9] \in 0 .. BranchLimit /\ left = BranchLimit - T[0].x[9]
    BY DEF Good
<1>9. t.flag = 1 <=> AskedAgain(p, rs, ph, mm, left)
    <2>1. Looping(Or(Flagged(p, rs, ph, mm), T[0].x[9]))
              = (T[0].x[9] # BranchLimit /\ Looping(Flagged(p, rs, ph, mm)))
        BY <1>7, <1>8, CounterAssumption
    <2>2. left # 0 <=> T[0].x[9] # BranchLimit
        BY <1>8, SizesAssumption
    <2> DEFINE asked == Looping(Or(Flagged(p, rs, ph, mm), T[0].x[9]))
    <2>3. t.flag = IF asked THEN 1 ELSE 0
        BY <1>3 DEF Passed
    <2>4. asked <=> AskedAgain(p, rs, ph, mm, left)
        BY <2>1, <2>2, Zenon DEF AskedAgain
    <2> HIDE DEF asked
    <2> QED
        BY <2>3, <2>4
<1>10. t.flag \in {0, 1}
    BY <1>3 DEF Passed
<1>11. t.x[9] = IF t.flag = 1 THEN T[0].x[9] + 1 ELSE T[0].x[9]
    <2>1. CASE t.flag = 1
        <3>1. T[0].x[9] # BranchLimit
            BY <1>8, <1>9, <2>1, SizesAssumption DEF AskedAgain
        <3>2. Add(T[0].x[9], 1) = T[0].x[9] + 1
            BY <1>8, <3>1, CounterAssumption
        <3> QED
            BY <1>3, <2>1, <3>2 DEF Passed
    <2>2. CASE t.flag # 1
        BY <1>3, <2>2 DEF Passed
    <2> QED
        BY <2>1, <2>2
<1> QED
    BY <1>3, <1>6, <1>9, <1>10, <1>11 DEF PassDone, p, t, ph

(* A pass that is to be repeated.                                          *)
LEMMA PassRepeats ==
    ASSUME NEW p, NEW e \in 1 .. 2 * n, NEW s, NEW t, NEW rs, NEW left, NEW ph, NEW mm, Good(e, s, rs, left),
           PassDone(p, rs, ph, mm, left, s, t), t.flag = 1
    PROVE  Good(e, t, Looped(p, rs, ph, mm), left - 1)
<1> DEFINE L == Looped(p, rs, ph, mm)
<1>1. /\ Kept(t) /\ Same(s, t) /\ Holds(t.x, L, {}) /\ L \in Registers
      /\ L[8] = rs[8] /\ L[9] = rs[9] /\ left # 0
      /\ t.x[9] = s.x[9] + 1
    BY DEF PassDone, Passed, AskedAgain
<1> HIDE DEF L
<1>2. s.x[9] \in 0 .. BranchLimit /\ left = BranchLimit - s.x[9]
    BY DEF Good
<1>3. t.x[9] \in 0 .. BranchLimit /\ left - 1 = BranchLimit - t.x[9]
    BY <1>1, <1>2, SizesAssumption
<1> QED
    BY <1>1, <1>3 DEF Good, Same, L

(* Behind the branch of a program of the first phase its registers are     *)
(* stored while instruction 8 is done.                                     *)
LEMMA RegEnds ==
    ASSUME NEW list \in ProgramLists, NEW e \in 1 .. n, NEW T, Trace(list, e, 26, T),
           NEW rs, NEW left, Good(e, T[0], rs, left), NEW mm,
           PassDone(ProgramOf(list, e), rs, "reg", mm, left, T[0], T[18]), T[18].flag = 0
    PROVE  LET E == Ended(ProgramOf(list, e), rs, "reg", mm)
           IN  /\ Good(e + 1, T[26], E, IF e = n THEN BranchLimit ELSE left)
               /\ T[26].stack = Store(T[0].stack, e - 1, E) /\ T[25].stack = T[26].stack
<1> DEFINE p == ProgramOf(list, e)
           L == Looped(p, rs, "reg", mm)
           E == Ended(p, rs, "reg", mm)
           U == [i \in 0 .. 6 |-> T[19 + i]]
<1>1. n \in Nat \ {0} /\ e \in Nat /\ e # 0 /\ e <= n /\ Scheduled(p)
    <2>1. e \in 1 .. 2 * n
        BY NIsNat
    <2> QED
        BY <2>1, NIsNat, ProgramScheduled
<1>2. \A i \in 0 .. 25 : T[i + 1] = Effect(Isn(list, e, i), T[i])
    <2>1. 26 - 1 = 25
        OBVIOUS
    <2> QED
        BY <2>1 DEF Trace
<1>3. T[19] = T[18]
    <2>1. Isn(list, e, 18) = [op |-> "beq", back |-> 18]
        BY <1>1 DEF Isn, RegIsn
    <2>2. T[18 + 1] = Effect([op |-> "beq", back |-> 18], T[18])
        BY <1>2, <2>1
    <2> QED
        BY <2>2 DEF Effect, OneWrite
<1>4. Ran(reg_end(p), 6, U)
    <2>1. ASSUME NEW i \in 0 .. 5 PROVE U[i + 1] = Effect(reg_end(p)[i + 1], U[i])
        <3>1. T[(19 + i) + 1] = Effect(Isn(list, e, 19 + i), T[19 + i])
            BY <1>2
        <3>2. Isn(list, e, 19 + i) = reg_end(p)[i + 1]
            <4>1. 19 + i < 25 /\ ~(19 + i < 18) /\ 19 + i # 18 /\ (19 + i) - 18 = i + 1
                OBVIOUS
            <4> QED
                BY <1>1, <4>1 DEF Isn, RegIsn
        <3>3. U[i] = T[19 + i] /\ U[i + 1] = T[(19 + i) + 1]
            OBVIOUS
        <3> QED
            BY <3>1, <3>2, <3>3
    <2>2. 6 - 1 = 5
        OBVIOUS
    <2> QED
        BY <2>1, <2>2 DEF Ran
<1>5. U[0] = T[18] /\ U[6] = T[25]
    BY <1>3
<1>6. /\ Kept(T[18]) /\ Same(T[0], T[18]) /\ Holds(T[18].x, L, {}) /\ L \in Registers
      /\ L[8] = rs[8] /\ L[9] = rs[9] /\ T[18].x[9] = T[0].x[9]
    BY DEF PassDone, Passed
<1>7. E = Do(p, 8, L, "reg", mm)
    BY DEF Ended
<1>8. /\ T[0].x[9] \in 0 .. BranchLimit /\ left = BranchLimit - T[0].x[9]
      /\ T[0].sp = 8 * (MemSize - 8 * e)
      /\ Cells(T[0].stack)
      /\ \A a \in 0 .. MemSize - 1 : a >= MemSize - 8 * (e - 1) => T[0].stack[a] \in Word
      /\ DOMAIN T[0].io = Reg /\ T[0].io[8] = rs[8] /\ T[0].io[9] = rs[9]
    BY <1>1 DEF Good, StackTop
<1>9. E \in Registers /\ E[8] = rs[8] /\ E[9] = rs[9]
    <2>1. "reg" \in {"reg", "mem"} /\ 8 \in Operands
        BY DEF Operands
    <2> HIDE DEF p, L, E
    <2> QED
        BY <1>1, <1>6, <1>7, <2>1, DoTyped
<1> HIDE DEF p, L, E, U
<1>10. /\ Kept(T[25]) /\ Holds(T[25].x, E, {}) /\ T[25].x[9] = T[18].x[9]
       /\ T[25].sp = T[18].sp /\ T[25].io = T[18].io
       /\ T[25].stack = Store(T[18].stack, e - 1, E)
    <2>1. DOMAIN L = Reg
        BY <1>6 DEF Registers
    <2>2. U[0].sp = 8 * (MemSize - 8 * e) /\ Cells(U[0].stack) /\ Kept(U[0]) /\ Holds(U[0].x, L, {})
        BY <1>5, <1>6, <1>8 DEF Same
    <2> QED
        BY <1>1, <1>4, <1>5, <1>7, <2>1, <2>2, RegEnded
<1>11. /\ T[25].x[9] = T[0].x[9] /\ T[25].sp = 8 * (MemSize - 8 * e) /\ T[25].io = T[0].io
       /\ T[25].stack = Store(T[0].stack, e - 1, E)
    BY <1>6, <1>8, <1>10 DEF Same
<1>12. T[26] = Effect(IF e < n THEN Sp(-64) ELSE Mov(9, N(0)), T[25])
    <2>1. T[25 + 1] = Effect(Isn(list, e, 25), T[25])
        BY <1>2
    <2> QED
        BY <1>1, <2>1 DEF Isn
<1>13. /\ Kept(T[26]) /\ Holds(T[26].x, E, {}) /\ T[26].sp = 8 * StackTop(e + 1)
       /\ T[26].x[9] = (IF e = n THEN 0 ELSE T[0].x[9])
       /\ T[26].io = T[0].io /\ T[26].stack = T[25].stack
    <2>1. CASE e < n
        <3>1. T[26] = Moved(T[25], -64)
            BY <1>12, <2>1, OthersAre
        <3>2. 8 * (MemSize - 8 * e) + (-64) = 8 * (MemSize - 8 * (e + 1)) /\ e + 1 <= n /\ e # n
            BY <1>1, <2>1 DEF MemSize, n
        <3> QED
            BY <1>10, <1>11, <3>1, <3>2 DEF Moved, State, Kept, StackTop
    <2>2. CASE e = n
        <3>1. T[26] = Put(T[25], 9, 0)
            BY <1>1, <1>12, <2>2, OthersAre
        <3>2. 8 * (MemSize - 8 * e) = 0 /\ ~(e + 1 <= n)
            BY <1>1, <2>2 DEF MemSize, n
        <3>3. Holds(T[26].x, E, {})
            BY <1>10, <3>1, Homes DEF Put, State, Holds, Kept
        <3> QED
            BY <1>10, <1>11, <2>2, <3>1, <3>2, <3>3 DEF Put, State, Kept, StackTop
    <2> QED
        BY <1>1, <2>1, <2>2
<1>14. T[26].stack = Store(T[0].stack, e - 1, E)
    BY <1>11, <1>13
<1>15. Cells(T[26].stack)
    BY <1>14 DEF Store, Cells
<1>16. ASSUME NEW a \in 0 .. MemSize - 1, e + 1 > n \/ a >= MemSize - 8 * ((e + 1) - 1)
       PROVE  T[26].stack[a] \in Word
    <2>1. MemSize = 8 * n
        BY DEF MemSize, n
    <2>2. a >= MemSize - 8 * e
        BY <1>1, <1>16, <2>1
    <2>3. T[26].stack[a] = IF a \in Block(e - 1) THEN E[MemSize - 1 - 8 * (e - 1) - a] ELSE T[0].stack[a]
        BY <1>14 DEF Store
    <2>4. CASE a \in Block(e - 1)
        <3>1. MemSize - 1 - 8 * (e - 1) - a \in Reg
            BY <1>1, <2>1, <2>4 DEF Block, Reg
        <3> QED
            BY <1>9, <2>3, <2>4, <3>1 DEF Registers
    <2>5. CASE a \notin Block(e - 1)
        <3>1. a >= MemSize - 8 * (e - 1)
            BY <1>1, <2>1, <2>2, <2>5 DEF Block
        <3> QED
            BY <1>8, <2>3, <2>5, <3>1
    <2> QED
        BY <2>4, <2>5
<1>17. Good(e + 1, T[26], E, IF e = n THEN BranchLimit ELSE left)
    <2>1. /\ T[26].x[9] \in 0 .. BranchLimit
          /\ (IF e = n THEN BranchLimit ELSE left) = BranchLimit - T[26].x[9]
        BY <1>8, <1>13, SizesAssumption
    <2>2. DOMAIN T[26].io = Reg /\ T[26].io[8] = E[8] /\ T[26].io[9] = E[9]
        BY <1>8, <1>9, <1>13
    <2> QED
        BY <1>9, <1>13, <1>15, <1>16, <2>1, <2>2 DEF Good
<1> QED
    BY <1>13, <1>14, <1>17 DEF E, p

(* Behind the branch of a program of the second phase.                     *)
LEMMA MemEnds ==
    ASSUME NEW list \in ProgramLists, NEW e \in n + 1 .. 2 * n, NEW T, Trace(list, e, 34, T),
           NEW rs, NEW left, Good(e, T[0], rs, left), NEW mm, mm = T[0].stack,
           PassDone(ProgramOf(list, e), rs, "mem", mm, left, T[0], T[31]), T[31].flag = 0
    PROVE  /\ Good(e + 1, T[34], Ended(ProgramOf(list, e), rs, "mem", mm), left)
           /\ T[34].stack = T[0].stack
<1> DEFINE p == ProgramOf(list, e)
           L == Looped(p, rs, "mem", mm)
           E == Ended(p, rs, "mem", mm)
           U == [i \in 0 .. 2 |-> T[32 + i]]
<1>1. n \in Nat \ {0} /\ e \in Nat /\ e # 0 /\ ~(e <= n) /\ e <= 2 * n /\ Scheduled(p)
    <2>1. e \in 1 .. 2 * n
        BY NIsNat
    <2> QED
        BY <2>1, NIsNat, ProgramScheduled
<1>2. \A i \in 0 .. 33 : T[i + 1] = Effect(Isn(list, e, i), T[i])
    <2>1. 34 - 1 = 33
        OBVIOUS
    <2> QED
        BY <2>1 DEF Trace
<1>3. T[32] = T[31]
    <2>1. Isn(list, e, 31) = [op |-> "beq", back |-> 31]
        BY <1>1 DEF Isn, MemIsn
    <2>2. T[31 + 1] = Effect([op |-> "beq", back |-> 31], T[31])
        BY <1>2, <2>1
    <2> QED
        BY <2>2 DEF Effect, OneWrite
<1>4. Ran(mem_end(p), 2, U)
    <2>1. ASSUME NEW i \in 0 .. 1 PROVE U[i + 1] = Effect(mem_end(p)[i + 1], U[i])
        <3>1. T[(32 + i) + 1] = Effect(Isn(list, e, 32 + i), T[32 + i])
            BY <1>2
        <3>2. Isn(list, e, 32 + i) = mem_end(p)[i + 1]
            BY <1>1 DEF Isn, MemIsn, mem_end
        <3>3. U[i] = T[32 + i] /\ U[i + 1] = T[(32 + i) + 1]
            OBVIOUS
        <3> QED
            BY <3>1, <3>2, <3>3
    <2>2. 2 - 1 = 1
        OBVIOUS
    <2> QED
        BY <2>1, <2>2 DEF Ran
<1>5. U[0] = T[31] /\ U[2] = T[34]
    BY <1>3
<1>6. /\ Kept(T[31]) /\ Same(T[0], T[31]) /\ Holds(T[31].x, L, {}) /\ L \in Registers
      /\ L[8] = rs[8] /\ L[9] = rs[9] /\ T[31].x[9] = T[0].x[9]
      /\ T[31].x[17] = mm[Slot(L[p[8].src])]
    BY DEF PassDone, Passed
<1>7. E = Do(p, 8, L, "mem", mm)
    BY DEF Ended
<1>9. E \in Registers /\ E[8] = rs[8] /\ E[9] = rs[9]
    <2>1. "mem" \in {"reg", "mem"} /\ 8 \in Operands
        BY DEF Operands
    <2>2. Words(mm)
        <3>1. e \in 1 .. 2 * n + 1 /\ e > n
            BY <1>1
        <3> QED
            BY <3>1, WordsThere
    <2> HIDE DEF p, L, E
    <2> QED
        BY <1>1, <1>6, <1>7, <2>1, <2>2, DoTyped
<1> HIDE DEF p, L, E, U
<1>10. /\ Kept(T[34]) /\ Same(T[31], T[34]) /\ T[34].x[9] = T[31].x[9]
       /\ Holds(T[34].x, E, {})
    <2>1. DOMAIN L = Reg
        BY <1>6 DEF Registers
    <2>2. Kept(U[0]) /\ Holds(U[0].x, L, {}) /\ U[0].x[17] = mm[Slot(L[p[8].src])]
        BY <1>5, <1>6
    <2>3. /\ Kept(U[2]) /\ Same(U[0], U[2]) /\ U[2].flag = U[0].flag /\ U[2].x[9] = U[0].x[9]
          /\ Holds(U[2].x, Do(p, 8, L, "mem", mm), {})
        BY <1>1, <1>4, <2>1, <2>2, MemEnded
    <2> QED
        BY <1>5, <1>7, <2>3
<1>11. StackTop(e) = StackTop(e + 1) /\ e > n /\ e + 1 > n
    BY <1>1 DEF StackTop
<1> QED
    BY <1>6, <1>9, <1>10, <1>11 DEF Good, Same, E, p

(* The prologue comes to the first pass.                                   *)
LEMMA PrologueEnds ==
    ASSUME NEW list, NEW T, Trace(list, 0, 10, T), NEW rs, NEW left, Fresh(T[0], rs, left)
    PROVE  Good(1, T[10], rs, left)
<1>1. \A i \in 0 .. 9 : T[i + 1] = Effect(Isn(list, 0, i), T[i])
    <2>1. 10 - 1 = 9
        OBVIOUS
    <2> QED
        BY <2>1 DEF Trace
<1>2. Ran(code_prologue, 9, T)
    <2>1. \A i \in 0 .. 8 : Isn(list, 0, i) = code_prologue[i + 1]
        BY DEF Isn
    <2> QED
        BY <1>1, <2>1 DEF Ran
<1>3. T[10] = Moved(T[9], -64)
    <2>1. T[9 + 1] = Effect(Sp(-64), T[9])
        BY <1>1 DEF Isn
    <2> QED
        BY <2>1, OthersAre
<1>4. /\ Kept(T[9]) /\ Same(T[0], T[9]) /\ T[9].x[9] = 0 /\ Holds(T[9].x, T[0].io, {})
    BY <1>2, PrologueLoads DEF Fresh, File
<1>5. 8 * MemSize + (-64) = 8 * StackTop(1) /\ ~(1 > n) /\ MemSize - 8 * (1 - 1) = MemSize /\ MemSize \in Nat
    BY NIsNat DEF MemSize, n, StackTop
<1>6. /\ T[10].x = T[9].x /\ T[10].sp = 8 * MemSize + (-64) /\ T[10].stack = T[0].stack
      /\ T[10].io = rs
    BY <1>3, <1>4 DEF Moved, State, Same, Fresh
<1>7. Kept(T[10]) /\ Holds(T[10].x, rs, {}) /\ T[10].x[9] = 0
    BY <1>4, <1>6 DEF Kept, Fresh
<1>8. 0 \in 0 .. BranchLimit /\ left = BranchLimit - 0
    BY SizesAssumption DEF Fresh
<1>9. Cells(T[10].stack) /\ rs \in Registers /\ DOMAIN rs = Reg
    BY <1>6 DEF Fresh, Registers
<1> QED
    BY <1>5, <1>6, <1>7, <1>8, <1>9 DEF Good

(* The stack is given back and rs is in r[].                               *)
Returns(s, rs) == s.sp = 8 * MemSize /\ \A k \in Reg : s.io[k] = rs[k]

(* The epilogue returns what the last pass left.                           *)
LEMMA EpilogueEnds ==
    ASSUME NEW list, NEW e, e = 2 * n + 1, NEW T, Trace(list, e, 6, T),
           NEW rs, NEW left, Good(e, T[0], rs, left)
    PROVE  Returns(T[6], rs)
<1>1. Ran(code_epilogue, 6, T)
    <2>1. \A i \in 0 .. 5 : Isn(list, e, i) = code_epilogue[i + 1]
        BY NIsNat DEF Isn
    <2>2. 6 - 1 = 5
        OBVIOUS
    <2> QED
        BY <2>1, <2>2 DEF Ran, Trace
<1>2. Holds(T[0].x, rs, {}) /\ DOMAIN T[0].io = Reg /\ T[0].io[8] = rs[8] /\ T[0].io[9] = rs[9]
    BY DEF Good
<1>3. T[0].sp = 0
    BY NIsNat DEF Good, StackTop
<1> QED
    BY <1>1, <1>2, <1>3, EpilogueStores DEF Returns

(* HashwxVM's operators on instructions are those of HashwxIsa.            *)
LEMMA SameOperators ==
    ASSUME NEW in, NEW rs, NEW s, NEW ph, NEW mm
    PROVE  /\ VM!Apply(in, rs, s) = Apply(in, rs, s)
           /\ VM!Second(in, rs, ph, mm) = Second(in, rs, ph, mm)
<1>1. \A o, d, i : VM!Mixed(o, d, i) = Mixed(o, d, i)
    BY DEF VM!Mixed, Mixed, VM!MULOR, VM!MULXOR, MULOR, MULXOR
<1>2. \A o, d, i : VM!Shifted(o, d, i) = Shifted(o, d, i)
    BY DEF VM!Shifted, Shifted, VM!XORROR, VM!SUBROR, VM!XORASR, VM!SUBASR, XORROR, SUBROR, XORASR, SUBASR
<1>3. \A o, d, i : VM!Combined(o, d, i) = Combined(o, d, i)
    BY DEF VM!Combined, Combined, VM!XORROR, VM!XORASR, VM!XORLSR, VM!ADDROR, VM!ADDASR, VM!ADDLSR,
           XORROR, XORASR, XORLSR, ADDROR, ADDASR, ADDLSR
<1>4. VM!MulOps = MulOps /\ VM!RMCG = RMCG
    BY DEF VM!MulOps, MulOps, VM!MULOR, MULOR, VM!MULADD, MULADD, VM!RMCG, RMCG
<1>5. \A o, d, i : VM!Operate(o, d, i, s) = Operate(o, d, i, s)
    BY <1>1, <1>2, <1>3, <1>4 DEF VM!Operate, Operate
<1> QED
    BY <1>4, <1>5 DEF VM!Apply, Apply, VM!Second, Second

(* What HashwxVM computes under the mapping.                               *)
LEMMA VmPass ==
    ASSUME NEW mm, mm = Filled, NEW ph, ph = Phase
    PROVE  LET p == program_list[Prog]
           IN  /\ VM!Pass = Looped(p, start, ph, mm)
               /\ VM!Flag = Flagged(p, start, ph, mm)
               /\ VM!Exec(8, VM!Pass) = Ended(p, start, ph, mm)
<1> DEFINE p == program_list[Prog]
<1>1. ASSUME NEW k, NEW rs PROVE VM!Exec(k, rs) = Do(p, k, rs, ph, mm)
    BY SameOperators DEF VM!Exec, Do
<1> HIDE DEF p
<1>2. VM!Pass = Looped(p, start, ph, mm)
    BY <1>1 DEF VM!Pass, Looped
<1>3. VM!Flag = Flagged(p, start, ph, mm)
    BY <1>1 DEF VM!Flag, Flagged, p
<1>4. VM!Exec(8, VM!Pass) = Ended(p, start, ph, mm)
    BY <1>1, <1>2 DEF Ended
<1> QED
    BY <1>2, <1>3, <1>4 DEF p

-----------------------------------------------------------------------------
(* The mapping at a segment.                                               *)
Done(e) == IF e = 0 THEN 0 ELSE e - 1
PhaseAt(e) == IF e <= n THEN "reg" ELSE IF e <= 2 * n THEN "mem" ELSE "done"
ProgAt(e) == IF e <= n THEN Done(e) ELSE Done(e) - n
FilledAt(e, cells) ==
    [a \in 0 .. MemSize - 1 |->
        IF e <= n /\ a < MemSize - 8 * Done(e) THEN Uninit ELSE cells[a]]

(* The mapping is that of the segment entered last.                        *)
LEMMA MapsTo ==
    /\ entered \in Segment
           => Phase = PhaseAt(entered) /\ Prog = ProgAt(entered) /\ Filled = FilledAt(entered, stack)
    /\ entered' \in Segment
           => Phase' = PhaseAt(entered') /\ Prog' = ProgAt(entered')
              /\ Filled' = FilledAt(entered', stack')
<1>1. ASSUME entered \in Segment
      PROVE  Phase = PhaseAt(entered) /\ Prog = ProgAt(entered) /\ Filled = FilledAt(entered, stack)
    <2>1. n = NumPrograms /\ n \in Nat \ {0} /\ entered \in 0 .. 2 * n + 1
        BY <1>1, NIsNat DEF Segment, n
    <2>2. Phase = PhaseAt(entered)
        BY <2>1 DEF Phase, Reached, PhaseAt
    <2>3. Prog = ProgAt(entered)
        BY <2>1, <2>2 DEF Prog, Reached, PhaseAt, ProgAt, Done
    <2>4. Phase = "reg" => Prog = Done(entered)
        BY <2>1, <2>2, <2>3 DEF ProgAt, PhaseAt
    <2>5. Phase = "reg" <=> entered <= n
        BY <2>1, <2>2 DEF PhaseAt
    <2>6. Filled = FilledAt(entered, stack)
        BY <2>4, <2>5 DEF Filled, FilledAt
    <2> QED
        BY <2>2, <2>3, <2>6
<1>2. ASSUME entered' \in Segment
      PROVE  Phase' = PhaseAt(entered') /\ Prog' = ProgAt(entered')
             /\ Filled' = FilledAt(entered', stack')
    <2>1. PICK e, r : e = entered' /\ r = Reached'
        OBVIOUS
    <2>2. n = NumPrograms /\ n \in Nat \ {0} /\ e \in 0 .. 2 * n + 1
        BY <1>2, <2>1, NIsNat DEF Segment, n
    <2>3. r = Done(e)
        BY <2>1 DEF Reached, Done
    <2>4. Phase' = IF r = 2 * n THEN "done" ELSE IF r < n THEN "reg" ELSE "mem"
        BY <2>1, <2>2 DEF Phase
    <2>5. Phase' = PhaseAt(e)
        BY <2>2, <2>3, <2>4 DEF Done, PhaseAt
    <2>6. Prog' = IF Phase' = "reg" THEN r ELSE r - n
        BY <2>1, <2>2 DEF Prog
    <2>7. Prog' = ProgAt(e) /\ (Phase' = "reg" <=> e <= n) /\ (e <= n => Prog' = Done(e))
        BY <2>2, <2>3, <2>5, <2>6 DEF PhaseAt, ProgAt
    <2>8. Filled' = FilledAt(e, stack')
        BY <2>7 DEF Filled, FilledAt
    <2> QED
        BY <2>1, <2>5, <2>7, <2>8
<1> QED
    BY <1>1, <1>2

(* The instructions of a segment one by one do not change what HashwxVM    *)
(* sees of the stack.                                                      *)
LEMMA FilledKept ==
    ASSUME NEW list \in ProgramLists, NEW e \in Segment, NEW j \in 0 .. Span(e) - 1, NEW T,
           Trace(list, e, j, T), NEW rs, NEW left, Opened(e, T[0], rs, left)
    PROVE  FilledAt(e, Effect(Isn(list, e, j), T[j]).stack) = FilledAt(e, T[j].stack)
<1>0. n \in Nat \ {0} /\ e \in 0 .. 2 * n + 1 /\ MemSize \in Nat
    BY NIsNat DEF Segment, MemSize, n
<1>1. CASE e = 0
    BY <1>0, <1>1 DEF FilledAt, Done
<1>2. CASE e \in 1 .. n
    <2>1. j \in 0 .. 25
        BY <1>0, <1>2 DEF Span
    <2>2. Good(e, T[0], rs, left)
        BY <1>2 DEF Opened
    <2>3. T[0].sp = 8 * (MemSize - 8 * e) /\ Cells(T[0].stack)
        BY <1>2, <2>2 DEF Good, StackTop
    <2>4. \A i \in 0 .. j : T[i].sp = 8 * (MemSize - 8 * e) /\ Cells(T[i].stack)
        BY <1>2, <2>1, <2>3, RegUndisturbed
    <2>5. T[j].sp = 8 * (MemSize - 8 * e) /\ Cells(T[j].stack)
        BY <2>1, <2>4
    <2>6. \A a \in 0 .. MemSize - 1 :
              a >= MemSize - 8 * (e - 1) => Effect(Isn(list, e, j), T[j]).stack[a] = T[j].stack[a]
        BY <1>2, <2>1, <2>5, RegStack
    <2>7. Done(e) = e - 1
        BY <1>2 DEF Done
    <2>8. PICK g, h : g = Effect(Isn(list, e, j), T[j]).stack /\ h = T[j].stack
        OBVIOUS
    <2>9. \A a \in 0 .. MemSize - 1 : a < MemSize - 8 * Done(e) \/ g[a] = h[a]
        BY <1>0, <2>6, <2>7, <2>8
    <2>10. FilledAt(e, g) = FilledAt(e, h)
        BY <1>2, <2>9 DEF FilledAt
    <2> QED
        BY <2>8, <2>10
<1>3. CASE e \in n + 1 .. 2 * n + 1
    <2>1. Isn(list, e, j).op # "push"
        BY <1>3, MemKinds
    <2>2. Effect(Isn(list, e, j), T[j]).stack = T[j].stack
        BY <2>1, QuietKeeps
    <2> QED
        BY <2>2
<1> QED
    BY <1>0, <1>1, <1>2, <1>3

(* In the second phase the stack stays as it was.                          *)
LEMMA StackStays ==
    ASSUME NEW list \in ProgramLists, NEW e \in n + 1 .. 2 * n + 1, NEW j \in 0 .. Span(e), NEW T,
           Trace(list, e, j, T), NEW rs, NEW left, Opened(e, T[0], rs, left)
    PROVE  T[j].stack = T[0].stack /\ FilledAt(e, T[j].stack) = T[0].stack
<1> DEFINE f == [i \in 0 .. j |-> T[i].stack]
<1>1. n \in Nat \ {0} /\ e > n /\ e # 0 /\ e \in Segment /\ j \in Nat
    BY NIsNat, MeetFacts DEF Segment
<1>2. ASSUME NEW i \in 0 .. j - 1 PROVE f[i + 1] = f[i]
    <2>1. i \in 0 .. Span(e) - 1 /\ i \in 0 .. j /\ i + 1 \in 0 .. j
        BY <1>1, MeetFacts
    <2>2. T[i + 1] = Effect(Isn(list, e, i), T[i])
        BY DEF Trace
    <2>3. Effect(Isn(list, e, i), T[i]).stack = T[i].stack
        BY <2>1, MemKinds, QuietKeeps
    <2> QED
        BY <2>1, <2>2, <2>3
<1>3. \A i \in 0 .. j : f[i] = f[0]
    <2> HIDE DEF f
    <2> QED
        BY <1>1, <1>2, Steady
<1>4. T[j].stack = T[0].stack
    BY <1>1, <1>3
<1>5. Cells(T[0].stack)
    BY <1>1 DEF Opened, Good
<1>6. ~(e <= n)
    BY <1>1
<1> QED
    BY <1>4, <1>5, <1>6 DEF FilledAt, Cells

(* One more instruction.                                                   *)
LEMMA TraceGrows ==
    ASSUME NEW list, NEW e, NEW j \in Nat, NEW T, Trace(list, e, j, T)
    PROVE  \E U : /\ Trace(list, e, j + 1, U)
                  /\ U[j + 1] = Effect(Isn(list, e, j), T[j])
                  /\ \A i \in 0 .. j : U[i] = T[i]
<1> DEFINE U == [i \in 0 .. j + 1 |-> IF i = j + 1 THEN Effect(Isn(list, e, j), T[j]) ELSE T[i]]
<1>1. U[j + 1] = Effect(Isn(list, e, j), T[j]) /\ \A i \in 0 .. j : U[i] = T[i]
    OBVIOUS
<1> HIDE DEF U
<1>2. Trace(list, e, j + 1, U)
    <2>1. ASSUME NEW i \in 0 .. j PROVE U[i + 1] = Effect(Isn(list, e, i), U[i])
        <3>1. CASE i = j
            BY <1>1, <3>1
        <3>2. CASE i # j
            <4>1. i \in 0 .. j - 1 /\ i + 1 \in 0 .. j
                BY <3>2
            <4> QED
                BY <1>1, <4>1 DEF Trace
        <3> QED
            BY <3>1, <3>2
    <2>2. (j + 1) - 1 = j
        OBVIOUS
    <2> QED
        BY <2>1, <2>2 DEF Trace
<1> QED
    BY <1>1, <1>2

(* What a program stores at its end is what HashwxVM stores.               *)
LEMMA FilledStored ==
    ASSUME NEW e \in 1 .. n, NEW g, NEW h, NEW E, g = Store(h, e - 1, E)
    PROVE  FilledAt(e + 1, g) = Store(FilledAt(e, g), e - 1, E)
<1>1. n \in Nat \ {0} /\ e \in Nat /\ e <= n /\ MemSize = 8 * n
    BY NIsNat DEF MemSize, n
<1>2. Done(e) = e - 1 /\ Done(e + 1) = e
    BY <1>1 DEF Done
<1>3. \A a \in 0 .. MemSize - 1 :
          a \in Block(e - 1) <=> a >= MemSize - 8 * e /\ a < MemSize - 8 * (e - 1)
    BY <1>1 DEF Block
<1>4. \A a \in 0 .. MemSize - 1 : a \in Block(e - 1) => g[a] = E[MemSize - 1 - 8 * (e - 1) - a]
    BY DEF Store
<1>5. e = n => \A a \in 0 .. MemSize - 1 : a >= MemSize - 8 * e
    BY <1>1
<1>6. FilledAt(e + 1, g) =
          [a \in 0 .. MemSize - 1 |-> IF a < MemSize - 8 * e THEN Uninit ELSE g[a]]
    <2>1. ASSUME NEW a \in 0 .. MemSize - 1
          PROVE  e + 1 <= n /\ a < MemSize - 8 * e <=> a < MemSize - 8 * e
        BY <1>1, <1>5
    <2> QED
        BY <1>2, <2>1 DEF FilledAt
<1>7. FilledAt(e, g) =
          [a \in 0 .. MemSize - 1 |-> IF a < MemSize - 8 * (e - 1) THEN Uninit ELSE g[a]]
    BY <1>1, <1>2 DEF FilledAt
<1>8. ASSUME NEW a \in 0 .. MemSize - 1
      PROVE  (IF a < MemSize - 8 * e THEN Uninit ELSE g[a])
                 = IF a \in Block(e - 1) THEN E[MemSize - 1 - 8 * (e - 1) - a] ELSE FilledAt(e, g)[a]
    <2>1. CASE a \in Block(e - 1)
        BY <1>1, <1>3, <1>4, <2>1
    <2>2. CASE a < MemSize - 8 * e
        BY <1>1, <1>3, <1>7, <2>2
    <2>3. CASE a >= MemSize - 8 * (e - 1)
        BY <1>1, <1>3, <1>7, <2>3
    <2> QED
        BY <1>1, <1>3, <2>1, <2>2, <2>3
<1> QED
    BY <1>6, <1>8 DEF Store

(* T is the run of segment e up to its instruction j, which comes next.    *)
Place(list, e, j, T, here, s, rs, left) ==
    /\ j \in 0 .. Span(e) /\ (j = Span(e) => e = 2 * n + 1)
    /\ here = Meet(e) + j
    /\ Trace(list, e, j, T) /\ T[j] = s
    /\ Opened(e, T[0], rs, left)
    /\ e \in 1 .. 2 * n /\ j > Back(e) => T[Back(e)].flag = 0

(* The inductive invariant: the machine is somewhere in a run of the       *)
(* segment entered last, from a state that holds the registers and the     *)
(* loops of HashwxVM.                                                      *)
IInv ==
    /\ Compiled
    /\ entered \in Segment
    /\ \E T, j : Place(program_list, entered, j, T, pc, St, start, budget)

(* A meeting point is the first place of its segment.                      *)
LEMMA Arrives ==
    ASSUME NEW list, NEW f \in 1 .. 2 * n + 1, NEW s, NEW rs, NEW left, Good(f, s, rs, left)
    PROVE  /\ [k \in Reg |-> s.x[HomeOf(k)]] = rs
           /\ BranchLimit - s.x[9] = left
           /\ \E T, j : Place(list, f, j, T, Meet(f), s, rs, left)
<1>1. /\ f # 0 /\ f \in Segment /\ 0 \in 0 .. Span(f) /\ Span(f) # 0
      /\ Meet(f) + 0 = Meet(f) /\ ~(0 > Back(f))
    BY NIsNat, MeetFacts DEF Segment, Back
<1>2. [k \in Reg |-> s.x[HomeOf(k)]] = rs
    BY DEF Good, Holds, Registers
<1>3. BranchLimit - s.x[9] = left
    BY DEF Good
<1> DEFINE T == [i \in {0} |-> s]
<1>4. T[0] = s /\ Trace(list, f, 0, T)
    BY DEF Trace
<1> HIDE DEF T
<1>5. Opened(f, T[0], rs, left)
    BY <1>1, <1>4 DEF Opened
<1>6. Place(list, f, 0, T, Meet(f), s, rs, left)
    BY <1>1, <1>4, <1>5 DEF Place
<1> QED
    BY <1>2, <1>3, <1>6

(* The instruction at a place.                                             *)
LEMMA Here ==
    ASSUME Compiled, entered \in Segment,
           NEW T, NEW j, Place(program_list, entered, j, T, pc, St, start, budget)
    PROVE  /\ j \in Nat /\ pc \in Nat
           /\ j < Span(entered) => Running /\ isn = Isn(program_list, entered, j)
           /\ j = Span(entered) => ~Running /\ entered = 2 * n + 1
<1>1. /\ Meet(entered) \in Nat /\ Span(entered) \in {6, 10, 26, 34}
      /\ 1 <= Meet(entered) /\ Meet(entered) + Span(entered) <= 17 + 60 * n
      /\ entered = 2 * n + 1 <=> Meet(entered) + Span(entered) = 17 + 60 * n
    BY MeetFacts
<1>2. /\ j \in 0 .. Span(entered) /\ (j = Span(entered) => entered = 2 * n + 1)
      /\ pc = Meet(entered) + j
    BY DEF Place
<1>3. Len(code) = 16 + 60 * n
    BY CodeAt
<1>4. ASSUME j < Span(entered) PROVE Running /\ isn = Isn(program_list, entered, j)
    <2>1. j \in 0 .. Span(entered) - 1
        BY <1>1, <1>2, <1>4
    <2>2. code[Meet(entered) + j] = Isn(program_list, entered, j)
        BY <2>1, CodeAt
    <2> QED
        BY <1>1, <1>2, <1>3, <1>4, <2>2, NIsNat DEF Running, isn
<1>5. ASSUME j = Span(entered) PROVE ~Running /\ entered = 2 * n + 1
    BY <1>1, <1>2, <1>3, <1>5, NIsNat DEF Running
<1> QED
    BY <1>1, <1>2, <1>4, <1>5

(* No step writes the code.                                                *)
LEMMA StillCompiled ==
    ASSUME Compiled, Next
    PROVE  Compiled' /\ program_list' = program_list
BY DEF Compiled, Next, input

(* A step inside a segment.                                                *)
LEMMA Within ==
    ASSUME Compiled, Next, entered \in Segment,
           NEW T, NEW j, Place(program_list, entered, j, T, pc, St, start, budget),
           j < Span(entered), ~(isn.op = "beq" /\ z),
           j + 1 < Span(entered) \/ entered = 2 * n + 1
    PROVE  /\ IInv' /\ program_list' = program_list
           /\ start' = start /\ budget' = budget /\ entered' = entered /\ Filled' = Filled
<1> DEFINE e == entered
           list == program_list
           in == Isn(list, e, j)
<1>1. j \in Nat /\ pc \in Nat /\ Running /\ isn = in
    BY Here
<1>2. pc' = pc + 1 /\ St' = Effect(in, St)
    BY <1>1, StepIsEffect
<1>3. Compiled' /\ list' = list /\ list \in ProgramLists
    BY StillCompiled DEF Compiled
<1>4. /\ j \in 0 .. Span(e) - 1 /\ j + 1 \in 0 .. Span(e)
      /\ (j + 1 = Span(e) => e = 2 * n + 1)
      /\ pc = Meet(e) + j /\ Trace(list, e, j, T) /\ T[j] = St
      /\ Opened(e, T[0], start, budget)
      /\ (e \in 1 .. 2 * n /\ j > Back(e) => T[Back(e)].flag = 0)
      /\ Meet(e) \in Nat /\ Span(e) \in Nat
    BY <1>1, MeetFacts DEF Place
<1>5. pc' = Meet(e) + (j + 1) /\ pc' # pc
    BY <1>1, <1>2, <1>4
<1>6. ~Meets(pc')
    <2>1. CASE j + 1 < Span(e)
        <3>1. j + 1 \in 0 .. Span(e) - 1 /\ j + 1 # 0
            BY <1>1, <1>4, <2>1
        <3> QED
            BY <1>5, <3>1, Meeting
    <2>2. CASE j + 1 = Span(e)
        <3>1. pc' = 17 + 60 * n
            BY <1>4, <1>5, <2>2, MeetFacts
        <3> QED
            BY <3>1, Meeting
    <2> QED
        BY <1>1, <1>4, <2>1, <2>2
<1>7. start' = start /\ budget' = budget /\ entered' = e
    BY <1>6 DEF Next, NewPass
<1>8. PICK U : /\ Trace(list, e, j + 1, U)
               /\ U[j + 1] = Effect(in, T[j])
               /\ \A i \in 0 .. j : U[i] = T[i]
    BY <1>1, <1>4, TraceGrows
<1>9. e \in 1 .. 2 * n /\ j + 1 > Back(e) => U[Back(e)].flag = 0
    <2> SUFFICES ASSUME e \in 1 .. 2 * n, j + 1 > Back(e) PROVE U[Back(e)].flag = 0
        OBVIOUS
    <2>1. Back(e) \in 0 .. j
        BY <1>1 DEF Back
    <2>2. U[Back(e)] = T[Back(e)]
        BY <1>8, <2>1
    <2>3. CASE j = Back(e)
        <3>1. in.op = "beq"
            BY <1>3, <1>4, <2>3, Branches
        <3>2. ~z
            BY <1>1, <3>1
        <3>3. St.flag = 0
            BY <3>2 DEF St, State
        <3> QED
            BY <1>4, <2>2, <2>3, <3>3
    <2>4. CASE j # Back(e)
        <3>1. j > Back(e)
            BY <1>1, <2>1, <2>4
        <3> QED
            BY <1>4, <2>2, <3>1
    <2> QED
        BY <2>3, <2>4
<1>10. U[0] = T[0] /\ U[j + 1] = St'
    BY <1>1, <1>2, <1>4, <1>8
<1>11. Place(list', entered', j + 1, U, pc', St', start', budget')
    BY <1>3, <1>4, <1>5, <1>7, <1>8, <1>9, <1>10 DEF Place
<1>12. FilledAt(e, St'.stack) = FilledAt(e, St.stack)
    <2>1. FilledAt(e, Effect(in, T[j]).stack) = FilledAt(e, T[j].stack)
        BY <1>3, <1>4, FilledKept
    <2> QED
        BY <1>2, <1>4, <2>1
<1>13. Filled' = Filled
    <2>1. St.stack = stack /\ St'.stack = stack'
        BY DEF St, State
    <2>2. Filled = FilledAt(e, stack) /\ Filled' = FilledAt(e, stack')
        BY <1>7, MapsTo
    <2> QED
        BY <1>12, <2>1, <2>2
<1> QED
    BY <1>3, <1>7, <1>11, <1>13 DEF IInv

(* What the pass so far has computed.                                      *)
LEMMA PassSoFar ==
    ASSUME Compiled, entered \in 1 .. 2 * n,
           NEW T, NEW j, Place(program_list, entered, j, T, pc, St, start, budget), j >= Back(entered)
    PROVE  /\ PhaseOf(entered) = "mem" => Filled = T[0].stack /\ stack = T[0].stack
           /\ PhaseOf(entered) = Phase /\ ProgramOf(program_list, entered) = program_list[Prog]
           /\ PassDone(ProgramOf(program_list, entered), start, PhaseOf(entered), Filled, budget,
                   T[0], T[Back(entered)])
<1> DEFINE e == entered
           list == program_list
<1>1. n \in Nat \ {0} /\ e \in Segment /\ e # 0 /\ list \in ProgramLists
    BY NIsNat DEF Compiled, Segment
<1>2. /\ j \in 0 .. Span(e) /\ Trace(list, e, j, T) /\ T[j] = St
      /\ Opened(e, T[0], start, budget)
    BY DEF Place
<1>3. PhaseOf(e) = Phase /\ ProgramOf(list, e) = list[Prog]
    <2>1. Phase = PhaseAt(e) /\ Prog = ProgAt(e)
        BY <1>1, MapsTo
    <2> QED
        BY <1>1, <2>1 DEF PhaseAt, ProgAt, PhaseOf, ProgramOf, Done
<1>4. PhaseOf(e) = "mem" => Filled = T[0].stack /\ stack = T[0].stack
    <2> SUFFICES ASSUME PhaseOf(e) = "mem" PROVE Filled = T[0].stack /\ stack = T[0].stack
        OBVIOUS
    <2>1. e \in n + 1 .. 2 * n + 1
        BY <1>1 DEF PhaseOf
    <2>2. T[j].stack = T[0].stack /\ FilledAt(e, T[j].stack) = T[0].stack
        BY <1>1, <1>2, <2>1, StackStays
    <2>3. T[j].stack = stack
        BY <1>2 DEF St, State
    <2> QED
        BY <1>1, <2>2, <2>3, MapsTo
<1>5. Trace(list, e, Back(e), T)
    <2>1. Back(e) \in Nat /\ j \in Nat
        BY <1>1, <1>2, MeetFacts DEF Back
    <2> QED
        BY <1>2, <2>1 DEF Trace
<1>6. Good(e, T[0], start, budget)
    BY <1>1, <1>2 DEF Opened
<1>7. PassDone(ProgramOf(list, e), start, PhaseOf(e), Filled, budget, T[0], T[Back(e)])
    BY <1>1, <1>4, <1>5, <1>6, PassRuns
<1> QED
    BY <1>3, <1>4, <1>7

(* The branch is taken.                                                    *)
LEMMA Repeats ==
    ASSUME Compiled, Next, entered \in Segment,
           NEW T, NEW j, Place(program_list, entered, j, T, pc, St, start, budget),
           j < Span(entered), isn.op = "beq", z
    PROVE  LET p == ProgramOf(program_list, entered)
               ph == PhaseOf(entered)
           IN  /\ IInv' /\ program_list' = program_list
               /\ entered \in 1 .. 2 * n /\ entered' = entered /\ stack' = stack
               /\ ph = Phase /\ p = program_list[Prog]
               /\ AskedAgain(p, start, ph, Filled, budget)
               /\ budget' = budget - 1 /\ start' = Looped(p, start, ph, Filled)
<1> DEFINE e == entered
           list == program_list
           p == ProgramOf(list, e)
           ph == PhaseOf(e)
           L == Looped(p, start, ph, Filled)
<1>1. j \in Nat /\ pc \in Nat /\ Running /\ isn = Isn(list, e, j)
    BY Here
<1>2. Compiled' /\ list' = list /\ list \in ProgramLists
    BY StillCompiled DEF Compiled
<1>3. pc = Meet(e) + j /\ T[j] = St /\ Meet(e) \in Nat /\ Span(e) \in Nat
      /\ Opened(e, T[0], start, budget)
    BY MeetFacts DEF Place
<1>4. e \in 1 .. 2 * n /\ j = Back(e) /\ isn.back = Back(e)
    <2>1. j \in 0 .. Span(e) - 1
        BY <1>1, <1>3
    <2> QED
        BY <1>1, <1>2, <2>1, Branches
<1>5. pc' = Meet(e) /\ pc' # pc /\ St' = St /\ T[Back(e)] = St
    <2>1. pc' = pc - isn.back /\ St' = St
        BY <1>1, StepIsBranch
    <2>2. Back(e) \in Nat \ {0}
        BY DEF Back
    <2> QED
        BY <1>3, <1>4, <2>1, <2>2
<1>6. St.flag = 1
    BY DEF St, State
<1>7. /\ ph = Phase /\ p = list[Prog]
      /\ PassDone(p, start, ph, Filled, budget, T[0], St)
    <2>1. j >= Back(e)
        BY <1>1, <1>4
    <2> QED
        BY <1>4, <1>5, <2>1, PassSoFar
<1>8. AskedAgain(p, start, ph, Filled, budget)
    BY <1>6, <1>7 DEF PassDone
<1>9. Good(e, T[0], start, budget)
    BY <1>3, <1>4 DEF Opened
<1>10. Good(e, St, L, budget - 1)
    BY <1>4, <1>6, <1>7, <1>9, PassRepeats
<1> HIDE DEF L
<1>11. Meets(pc')
    <2>1. 0 \in 0 .. Span(e) - 1 /\ e # 0 /\ Meet(e) + 0 = Meet(e)
        BY <1>3, <1>4, MeetFacts
    <2> QED
        BY <1>5, <2>1, Meeting
<1>12. start' = [k \in Reg |-> x'[HomeOf(k)]] /\ budget' = BranchLimit - x'[9] /\ entered' = e
    BY <1>1, <1>5, <1>11 DEF Next, NewPass, Op
<1>13. x' = St.x /\ stack' = stack
    BY <1>5 DEF St, State
<1>14. /\ [k \in Reg |-> St.x[HomeOf(k)]] = L /\ BranchLimit - St.x[9] = budget - 1
       /\ \E U, i : Place(list, e, i, U, Meet(e), St, L, budget - 1)
    <2>1. e \in 1 .. 2 * n + 1
        BY <1>4, NIsNat
    <2> QED
        BY <1>10, <2>1, Arrives
<1>15. start' = L /\ budget' = budget - 1
    BY <1>12, <1>13, <1>14
<1>16. IInv'
    <2>1. \E U, i : Place(list', entered', i, U, pc', St', start', budget')
        BY <1>2, <1>5, <1>12, <1>14, <1>15
    <2> QED
        BY <1>2, <1>12, <2>1 DEF IInv
<1> QED
    BY <1>2, <1>4, <1>7, <1>8, <1>12, <1>13, <1>15, <1>16 DEF L

(* The last instruction of a segment: the machine comes to the next        *)
(* meeting point.                                                          *)
LEMMA Enters ==
    ASSUME Compiled, Next, entered \in 0 .. 2 * n,
           NEW T, NEW j, Place(program_list, entered, j, T, pc, St, start, budget),
           j + 1 = Span(entered), NEW rs, NEW left,
           Good(entered + 1, Effect(Isn(program_list, entered, j), St), rs, left)
    PROVE  /\ IInv' /\ program_list' = program_list /\ entered' = entered + 1
           /\ start' = rs /\ budget' = left
           /\ stack' = Effect(Isn(program_list, entered, j), St).stack
<1> DEFINE e == entered
           list == program_list
           in == Isn(list, e, j)
<1>0. e \in Segment /\ e + 1 \in Segment /\ e + 1 \in 1 .. 2 * n + 1 /\ e + 1 # 0
    BY NIsNat DEF Segment
<1>1. Span(e) \in {6, 10, 26, 34} /\ Meet(e) \in Nat
    BY <1>0, MeetFacts
<1>2. j \in Nat /\ pc \in Nat /\ Running /\ isn = in /\ j < Span(e)
    BY <1>0, <1>1, Here DEF Place
<1>3. Compiled' /\ list' = list /\ list \in ProgramLists
    BY StillCompiled DEF Compiled
<1>4. isn.op # "beq"
    <2>1. j \in 0 .. Span(e) - 1
        BY <1>1, <1>2
    <2>2. e \in 1 .. 2 * n => j # Back(e)
        BY <1>0, <1>1, NIsNat DEF Span, Back
    <2> QED
        BY <1>0, <1>2, <1>3, <2>1, <2>2, Branches
<1>5. pc' = pc + 1 /\ St' = Effect(in, St)
    BY <1>2, <1>4, StepIsEffect
<1>6. pc' = Meet(e + 1) /\ pc' # pc
    <2>1. pc = Meet(e) + j
        BY DEF Place
    <2>2. Meet(e + 1) = Meet(e) + Span(e)
        BY MeetNext
    <2> QED
        BY <1>1, <1>2, <1>5, <2>1, <2>2
<1>7. Meets(pc')
    <2>1. 0 \in 0 .. Span(e + 1) - 1 /\ Meet(e + 1) + 0 = Meet(e + 1)
        BY <1>0, MeetFacts
    <2> QED
        BY <1>0, <1>6, <2>1, Meeting
<1>8. start' = [k \in Reg |-> x'[HomeOf(k)]] /\ budget' = BranchLimit - x'[9] /\ entered' = e + 1
    BY <1>4, <1>6, <1>7 DEF Next, NewPass, Op
<1>9. /\ [k \in Reg |-> St'.x[HomeOf(k)]] = rs /\ BranchLimit - St'.x[9] = left
      /\ \E U, i : Place(list, e + 1, i, U, Meet(e + 1), St', rs, left)
    <2>1. PICK t : t = Effect(in, St)
        OBVIOUS
    <2>2. Good(e + 1, t, rs, left)
        BY <2>1
    <2>3. /\ [k \in Reg |-> t.x[HomeOf(k)]] = rs /\ BranchLimit - t.x[9] = left
          /\ \E U, i : Place(list, e + 1, i, U, Meet(e + 1), t, rs, left)
        BY <1>0, <2>2, Arrives
    <2>4. St' = t
        BY <1>5, <2>1
    <2> QED
        BY <2>3, <2>4
<1>10. St'.x = x' /\ St'.stack = stack'
    BY DEF St, State
<1>11. start' = rs /\ budget' = left
    BY <1>8, <1>9, <1>10
<1>12. IInv'
    <2>1. \E U, i : Place(list', entered', i, U, pc', St', start', budget')
        BY <1>3, <1>6, <1>8, <1>9, <1>11
    <2> QED
        BY <1>0, <1>3, <1>8, <2>1 DEF IInv
<1> QED
    BY <1>3, <1>5, <1>8, <1>10, <1>11, <1>12

(* The whole segment.                                                      *)
LEMMA WholeSegment ==
    ASSUME Compiled, entered \in 0 .. 2 * n,
           NEW T, NEW j, Place(program_list, entered, j, T, pc, St, start, budget),
           j + 1 = Span(entered)
    PROVE  \E U : /\ Trace(program_list, entered, Span(entered), U)
                  /\ U[j] = St /\ U[Span(entered)] = Effect(Isn(program_list, entered, j), St)
                  /\ U[0] = T[0] /\ Opened(entered, U[0], start, budget)
                  /\ entered \in 1 .. 2 * n
                         => U[Back(entered)] = T[Back(entered)] /\ U[Back(entered)].flag = 0
<1> DEFINE e == entered
           list == program_list
<1>1. Span(e) \in {6, 10, 26, 34} /\ j \in Nat /\ 0 \in 0 .. j
    <2>1. e \in Segment
        BY NIsNat DEF Segment
    <2> QED
        BY <2>1, MeetFacts DEF Place
<1>2. /\ Trace(list, e, j, T) /\ T[j] = St /\ Opened(e, T[0], start, budget)
      /\ (e \in 1 .. 2 * n /\ j > Back(e) => T[Back(e)].flag = 0)
    BY DEF Place
<1>3. PICK U : /\ Trace(list, e, j + 1, U)
               /\ U[j + 1] = Effect(Isn(list, e, j), T[j])
               /\ \A i \in 0 .. j : U[i] = T[i]
    BY <1>1, <1>2, TraceGrows
<1>4. e \in 1 .. 2 * n => j > Back(e) /\ Back(e) \in 0 .. j
    BY <1>1, NIsNat DEF Span, Back
<1> QED
    BY <1>1, <1>2, <1>3, <1>4

(* The prologue ends: HashwxVM does not move.                              *)
LEMMA CrossesPrologue ==
    ASSUME Compiled, Next, entered = 0,
           NEW T, NEW j, Place(program_list, entered, j, T, pc, St, start, budget),
           j + 1 = Span(entered)
    PROVE  /\ IInv' /\ program_list' = program_list /\ entered' = 1
           /\ start' = start /\ budget' = budget
<1>1. entered \in 0 .. 2 * n /\ 0 + 1 = 1 /\ Span(entered) = 10
    BY NIsNat DEF Span
<1>2. PICK U : /\ Trace(program_list, entered, Span(entered), U)
               /\ U[Span(entered)] = Effect(Isn(program_list, entered, j), St)
               /\ Opened(entered, U[0], start, budget)
    BY <1>1, WholeSegment
<1>3. Fresh(U[0], start, budget)
    BY <1>2 DEF Opened
<1>4. Good(1, U[10], start, budget)
    BY <1>1, <1>2, <1>3, PrologueEnds
<1>5. Good(entered + 1, Effect(Isn(program_list, entered, j), St), start, budget)
    BY <1>1, <1>2, <1>4
<1> QED
    BY <1>1, <1>5, Enters

(* A program of the first phase ends.                                      *)
LEMMA CrossesReg ==
    ASSUME Compiled, Next, entered \in 1 .. n,
           NEW T, NEW j, Place(program_list, entered, j, T, pc, St, start, budget),
           j + 1 = Span(entered)
    PROVE  LET p == ProgramOf(program_list, entered)
               E == Ended(p, start, "reg", Filled)
           IN  /\ IInv' /\ program_list' = program_list /\ entered' = entered + 1
               /\ Phase = "reg" /\ p = program_list[Prog]
               /\ ~AskedAgain(p, start, "reg", Filled, budget)
               /\ start' = E /\ budget' = IF entered = n THEN BranchLimit ELSE budget
               /\ FilledAt(entered + 1, stack') = Store(FilledAt(entered, stack), entered - 1, E)
<1> DEFINE e == entered
           list == program_list
           p == ProgramOf(list, e)
           E == Ended(p, start, "reg", Filled)
           left == IF e = n THEN BranchLimit ELSE budget
<1>1. /\ e \in 0 .. 2 * n /\ e \in 1 .. 2 * n /\ Span(e) = 26 /\ Back(e) = 18 /\ j = 25 /\ PhaseOf(e) = "reg"
      /\ list \in ProgramLists /\ e # 0
    BY NIsNat DEF Span, Back, PhaseOf, Compiled, Place
<1>2. PICK U : /\ Trace(list, e, 26, U)
               /\ U[25] = St /\ U[26] = Effect(Isn(list, e, j), St)
               /\ U[0] = T[0] /\ Opened(e, U[0], start, budget)
               /\ U[18] = T[18] /\ U[18].flag = 0
    BY <1>1, WholeSegment
<1>3. /\ Phase = "reg" /\ p = list[Prog]
      /\ PassDone(p, start, "reg", Filled, budget, U[0], U[18])
    <2>1. j >= Back(e)
        BY <1>1
    <2> QED
        BY <1>1, <1>2, <2>1, PassSoFar
<1>4. ~AskedAgain(p, start, "reg", Filled, budget)
    BY <1>2, <1>3 DEF PassDone
<1>5. Good(e, U[0], start, budget)
    BY <1>1, <1>2 DEF Opened
<1>6. /\ Good(e + 1, U[26], E, left)
      /\ U[26].stack = Store(U[0].stack, e - 1, E) /\ U[25].stack = U[26].stack
    BY <1>1, <1>2, <1>3, <1>5, RegEnds
<1> HIDE DEF E, left
<1>7. /\ IInv' /\ list' = list /\ e' = e + 1 /\ start' = E /\ budget' = left
      /\ stack' = U[26].stack
    BY <1>1, <1>2, <1>6, Enters
<1>8. stack = U[25].stack
    BY <1>2 DEF St, State
<1>9. FilledAt(e + 1, stack') = Store(FilledAt(e, stack), e - 1, E)
    <2>1. stack' = stack /\ stack' = Store(U[0].stack, e - 1, E)
        BY <1>6, <1>7, <1>8
    <2> QED
        BY <2>1, FilledStored
<1> QED
    BY <1>3, <1>4, <1>7, <1>9 DEF E, left

(* A program of the second phase ends.                                     *)
LEMMA CrossesMem ==
    ASSUME Compiled, Next, entered \in n + 1 .. 2 * n,
           NEW T, NEW j, Place(program_list, entered, j, T, pc, St, start, budget),
           j + 1 = Span(entered)
    PROVE  LET p == ProgramOf(program_list, entered)
           IN  /\ IInv' /\ program_list' = program_list /\ entered' = entered + 1
               /\ Phase = "mem" /\ p = program_list[Prog]
               /\ ~AskedAgain(p, start, "mem", Filled, budget)
               /\ start' = Ended(p, start, "mem", Filled) /\ budget' = budget
               /\ stack' = stack
<1> DEFINE e == entered
           list == program_list
           p == ProgramOf(list, e)
           E == Ended(p, start, "mem", Filled)
<1>1. /\ e \in 0 .. 2 * n /\ e \in 1 .. 2 * n /\ Span(e) = 34 /\ Back(e) = 31 /\ j = 33 /\ PhaseOf(e) = "mem"
      /\ list \in ProgramLists /\ e # 0
    BY NIsNat DEF Span, Back, PhaseOf, Compiled, Place
<1>2. PICK U : /\ Trace(list, e, 34, U)
               /\ U[34] = Effect(Isn(list, e, j), St)
               /\ U[0] = T[0] /\ Opened(e, U[0], start, budget)
               /\ U[31] = T[31] /\ U[31].flag = 0
    BY <1>1, WholeSegment
<1>3. /\ Phase = "mem" /\ p = list[Prog]
      /\ Filled = U[0].stack /\ stack = U[0].stack
      /\ PassDone(p, start, "mem", Filled, budget, U[0], U[31])
    <2>1. j >= Back(e)
        BY <1>1
    <2> QED
        BY <1>1, <1>2, <2>1, PassSoFar
<1>4. ~AskedAgain(p, start, "mem", Filled, budget)
    BY <1>2, <1>3 DEF PassDone
<1>5. Good(e, U[0], start, budget)
    BY <1>1, <1>2 DEF Opened
<1>6. Good(e + 1, U[34], E, budget) /\ U[34].stack = U[0].stack
    BY <1>1, <1>2, <1>3, <1>5, MemEnds
<1> HIDE DEF E
<1>7. /\ IInv' /\ list' = list /\ e' = e + 1 /\ start' = E /\ budget' = budget
      /\ stack' = U[34].stack
    BY <1>1, <1>2, <1>6, Enters
<1> QED
    BY <1>3, <1>4, <1>6, <1>7 DEF E

(* The invariant holds when the function is called, and HashwxVM begins.   *)
LEMMA InitIInv == Init => IInv /\ VM!Init
<1> SUFFICES ASSUME Init PROVE IInv /\ VM!Init
    OBVIOUS
<1>0. /\ program_list \in ProgramLists /\ code = hashwx_compile_a64(program_list, NumPrograms)
      /\ pc = 1 /\ x = [q \in 0 .. 17 |-> IF q = 0 THEN Ptr ELSE Uninit]
      /\ sp = 8 * MemSize /\ stack = [a \in 0 .. MemSize - 1 |-> Uninit]
      /\ start = io /\ budget = BranchLimit /\ entered = 0
    BY DEF Init
<1>1. PICK draw \in Draws : io = FirstRegisters(draw)
    BY DEF Init
<1>2. Compiled /\ entered \in Segment
    BY <1>0, NIsNat DEF Compiled, Segment
<1>3. io \in Registers
    <2>1. \A r \in 0 .. 7 : draw[r] \in Word
        BY InputsAssumption DEF Dst
    <2>2. ASSUME NEW r \in Reg PROVE io[r] \in Word
        BY <1>1, <2>1, WordAssumption DEF FirstRegisters, Reg
    <2>3. io = [r \in Reg |-> io[r]]
        BY <1>1 DEF FirstRegisters
    <2> QED
        BY <2>2, <2>3 DEF Registers
<1>4. Fresh(St, start, budget)
    BY <1>0, <1>3 DEF Fresh, File, St, State, Cells
<1> DEFINE T == [i \in {0} |-> St]
<1>5. Place(program_list, 0, 0, T, pc, St, start, budget)
    <2>1. Trace(program_list, 0, 0, T) /\ T[0] = St
        BY DEF Trace
    <2>2. Meet(0) = 1 /\ Span(0) = 10
        BY DEF Meet, Span
    <2> HIDE DEF T
    <2> QED
        BY <1>0, <1>4, <2>1, <2>2 DEF Place, Opened
<1>6. IInv
    BY <1>0, <1>2, <1>5 DEF IInv
<1>7. VM!Init
    <2>1. Phase = "reg" /\ Prog = 0 /\ Filled = FilledAt(0, stack)
        BY <1>0, <1>2, NIsNat, MapsTo DEF PhaseAt, ProgAt, Done
    <2>2. Filled = [a \in 0 .. MemSize - 1 |-> Uninit]
        BY <2>1, NIsNat DEF FilledAt, Done, MemSize, n
    <2>3. start = VM!FirstRegisters(draw)
        BY <1>0, <1>1 DEF FirstRegisters, VM!FirstRegisters, Reg, VM!Reg
    <2> QED
        BY <1>0, <1>1, <2>1, <2>2, <2>3 DEF VM!Init, VM!MemSize, MemSize
<1> QED
    BY <1>6, <1>7

(* HashwxVM does not move.                                                 *)
LEMMA Stutters ==
    ASSUME program_list' = program_list, start' = start, budget' = budget,
           Phase' = Phase, Prog' = Prog, Filled' = Filled
    PROVE  [VM!Next]_VM!vars
BY DEF VM!vars

(* A taken branch is a Loop of HashwxVM.                                   *)
LEMMA VMLoops ==
    ASSUME IInv, Next, NEW T, NEW j, Place(program_list, entered, j, T, pc, St, start, budget),
           j < Span(entered), isn.op = "beq", z
    PROVE  VM!Loop
<1> DEFINE p == ProgramOf(program_list, entered)
           ph == PhaseOf(entered)
<1>1. /\ entered \in Segment /\ Compiled
    BY DEF IInv
<1>2. /\ IInv' /\ program_list' = program_list
      /\ entered \in 1 .. 2 * n /\ entered' = entered /\ stack' = stack
      /\ ph = Phase /\ p = program_list[Prog]
      /\ AskedAgain(p, start, ph, Filled, budget)
      /\ budget' = budget - 1 /\ start' = Looped(p, start, ph, Filled)
    BY <1>1, Repeats
<1>3. Phase' = Phase /\ Prog' = Prog /\ Filled' = Filled
    BY <1>1, <1>2, MapsTo
<1>4. VM!Pass = Looped(p, start, ph, Filled) /\ VM!Flag = Flagged(p, start, ph, Filled)
    BY <1>2, VmPass
<1>5. VM!Again
    BY <1>2, <1>4 DEF VM!Again, AskedAgain
<1>6. Phase # "done"
    BY <1>2 DEF PhaseOf
<1> QED
    BY <1>2, <1>3, <1>4, <1>5, <1>6 DEF VM!Loop

(* The last instruction of a program of the first phase is a FinishReg.    *)
LEMMA VMFinishesReg ==
    ASSUME IInv, Next, entered \in 1 .. n,
           NEW T, NEW j, Place(program_list, entered, j, T, pc, St, start, budget),
           j + 1 = Span(entered)
    PROVE  VM!FinishReg
<1> DEFINE p == ProgramOf(program_list, entered)
           E == Ended(p, start, "reg", Filled)
<1>1. /\ entered \in Segment /\ Compiled /\ entered + 1 \in Segment /\ n \in Nat \ {0} /\ n = NumPrograms
    BY NIsNat DEF IInv, Segment, n
<1>2. /\ program_list' = program_list /\ entered' = entered + 1
      /\ Phase = "reg" /\ p = program_list[Prog]
      /\ ~AskedAgain(p, start, "reg", Filled, budget)
      /\ start' = E /\ budget' = IF entered = n THEN BranchLimit ELSE budget
      /\ FilledAt(entered + 1, stack') = Store(FilledAt(entered, stack), entered - 1, E)
    BY <1>1, CrossesReg
<1>3. VM!Flag = Flagged(p, start, "reg", Filled) /\ VM!Exec(8, VM!Pass) = E
    BY <1>2, VmPass
<1>4. ~VM!Again
    BY <1>2, <1>3 DEF VM!Again, AskedAgain
<1> HIDE DEF E
<1>5. Prog = entered - 1 /\ Filled = FilledAt(entered, stack)
    BY <1>1, MapsTo DEF ProgAt, Done
<1>6. /\ Phase' = PhaseAt(entered + 1) /\ Prog' = ProgAt(entered + 1)
      /\ Filled' = FilledAt(entered + 1, stack')
    BY <1>1, <1>2, MapsTo
<1>7. Filled' = VM!Store(Filled, Prog, start')
    <2>1. Filled' = Store(Filled, Prog, E)
        BY <1>2, <1>5, <1>6
    <2>2. \A g, i, r : VM!Store(g, i, r) = Store(g, i, r)
        BY DEF VM!Store, Store, VM!Block, Block, VM!MemSize, MemSize
    <2> QED
        BY <1>2, <2>1, <2>2
<1>8. CASE entered < n
    <2>1. Phase' = "reg" /\ Prog' = Prog + 1 /\ budget' = budget /\ Prog < NumPrograms - 1
        BY <1>1, <1>2, <1>5, <1>6, <1>8 DEF PhaseAt, ProgAt, Done
    <2> QED
        BY <1>2, <1>3, <1>4, <1>7, <2>1 DEF VM!FinishReg
<1>9. CASE entered = n
    <2>1. Phase' = "mem" /\ Prog' = 0 /\ budget' = BranchLimit /\ Prog = NumPrograms - 1
        BY <1>1, <1>2, <1>5, <1>6, <1>9 DEF PhaseAt, ProgAt, Done
    <2> QED
        BY <1>2, <1>3, <1>4, <1>7, <2>1 DEF VM!FinishReg
<1> QED
    BY <1>1, <1>8, <1>9

(* The last instruction of a program of the second phase is a FinishMem.   *)
LEMMA VMFinishesMem ==
    ASSUME IInv, Next, entered \in n + 1 .. 2 * n,
           NEW T, NEW j, Place(program_list, entered, j, T, pc, St, start, budget),
           j + 1 = Span(entered)
    PROVE  VM!FinishMem
<1> DEFINE p == ProgramOf(program_list, entered)
           E == Ended(p, start, "mem", Filled)
<1>1. /\ entered \in Segment /\ Compiled /\ entered + 1 \in Segment /\ n \in Nat \ {0} /\ n = NumPrograms
    BY NIsNat DEF IInv, Segment, n
<1>2. /\ program_list' = program_list /\ entered' = entered + 1
      /\ Phase = "mem" /\ p = program_list[Prog]
      /\ ~AskedAgain(p, start, "mem", Filled, budget)
      /\ start' = E /\ budget' = budget /\ stack' = stack
    BY <1>1, CrossesMem
<1>3. VM!Flag = Flagged(p, start, "mem", Filled) /\ VM!Exec(8, VM!Pass) = E
    BY <1>2, VmPass
<1>4. ~VM!Again
    BY <1>2, <1>3 DEF VM!Again, AskedAgain
<1> HIDE DEF E
<1>5. Prog = entered - 1 - n /\ Filled = FilledAt(entered, stack)
    BY <1>1, MapsTo DEF ProgAt, Done
<1>6. /\ Phase' = PhaseAt(entered + 1) /\ Prog' = ProgAt(entered + 1)
      /\ Filled' = FilledAt(entered + 1, stack')
    BY <1>1, <1>2, MapsTo
<1>7. Filled' = Filled
    <2>1. FilledAt(entered + 1, stack) = FilledAt(entered, stack)
        <3>1. ~(entered <= n) /\ ~(entered + 1 <= n)
            BY <1>1
        <3> QED
            BY <3>1 DEF FilledAt
    <2> QED
        BY <1>2, <1>5, <1>6, <2>1
<1>8. Prog' = Prog + 1 /\ Phase' = IF Prog = NumPrograms - 1 THEN "done" ELSE "mem"
    BY <1>1, <1>5, <1>6 DEF PhaseAt, ProgAt, Done
<1> QED
    BY <1>2, <1>3, <1>4, <1>7, <1>8 DEF VM!FinishMem

(* Every step keeps the invariant and is a step of HashwxVM or none.       *)
LEMMA NextIInv == IInv /\ [Next]_vars => IInv' /\ [VM!Next]_VM!vars
<1> SUFFICES ASSUME IInv, [Next]_vars PROVE IInv' /\ [VM!Next]_VM!vars
    OBVIOUS
<1>1. Compiled /\ entered \in Segment
    BY DEF IInv
<1>2. PICK T, j : Place(program_list, entered, j, T, pc, St, start, budget)
    BY DEF IInv
<1>3. CASE UNCHANGED vars
    <2>1. St' = St /\ Compiled'
        BY <1>1, <1>3 DEF vars, input, machine, St, State, Compiled
    <2>2. IInv'
        BY <1>1, <1>2, <1>3, <2>1 DEF IInv, vars, input, machine
    <2>3. Phase' = Phase /\ Prog' = Prog /\ Filled' = Filled
        BY <1>1, <1>3, MapsTo DEF vars, machine
    <2> QED
        BY <1>3, <2>2, <2>3, Stutters DEF vars, input
<1>4. CASE Next
    <2>1. /\ j \in Nat /\ (j < Span(entered) => Running)
          /\ (j = Span(entered) => ~Running /\ entered = 2 * n + 1)
        BY <1>1, <1>2, Here
    <2>2. j \in 0 .. Span(entered) /\ Span(entered) \in Nat /\ entered \in 0 .. 2 * n + 1
        BY <1>1, <1>2, MeetFacts DEF Place, Segment
    <2>3. CASE j = Span(entered)
        <3>1. ~Running
            BY <2>1, <2>3
        <3>2. Returned
            BY <1>4, <3>1 DEF Next, Arithmetic, StorePair, MoveSp, Test, Branch, Return, Op
        <3>3. UNCHANGED vars
            BY <1>4, <3>2 DEF Next, NewPass, Returned, vars
        <3> QED
            BY <1>3, <3>3
    <2>4. CASE j < Span(entered) /\ isn.op = "beq" /\ z
        <3>1. IInv'
            BY <1>1, <1>2, <1>4, <2>4, Repeats
        <3>2. VM!Loop
            BY <1>2, <1>4, <2>4, VMLoops
        <3> QED
            BY <3>1, <3>2 DEF VM!Next
    <2>5. CASE /\ j < Span(entered) /\ ~(isn.op = "beq" /\ z)
               /\ j + 1 < Span(entered) \/ entered = 2 * n + 1
        <3>1. /\ IInv' /\ program_list' = program_list
              /\ start' = start /\ budget' = budget /\ entered' = entered /\ Filled' = Filled
            BY <1>1, <1>2, <1>4, <2>5, Within
        <3>2. Phase' = Phase /\ Prog' = Prog
            BY <1>1, <3>1, MapsTo
        <3> QED
            BY <3>1, <3>2, Stutters
    <2>6. CASE j + 1 = Span(entered) /\ entered = 0
        <3>1. /\ IInv' /\ program_list' = program_list /\ entered' = 1
              /\ start' = start /\ budget' = budget
            BY <1>1, <1>2, <1>4, <2>6, CrossesPrologue
        <3>2. 1 \in Segment
            BY NIsNat DEF Segment
        <3>3. Phase = "reg" /\ Prog = 0 /\ Phase' = "reg" /\ Prog' = 0
            BY <1>1, <2>6, <3>1, <3>2, NIsNat, MapsTo DEF PhaseAt, ProgAt, Done
        <3>4. \A g : FilledAt(0, g) = [a \in 0 .. MemSize - 1 |-> Uninit]
            BY NIsNat DEF FilledAt, Done, MemSize, n
        <3>5. \A g : FilledAt(1, g) = [a \in 0 .. MemSize - 1 |-> Uninit]
            BY NIsNat DEF FilledAt, Done, MemSize, n
        <3>6. Filled = FilledAt(0, stack) /\ Filled' = FilledAt(1, stack')
            BY <1>1, <2>6, <3>1, <3>2, MapsTo
        <3>7. Filled' = Filled
            BY <3>4, <3>5, <3>6
        <3> QED
            BY <3>1, <3>3, <3>7, Stutters
    <2>7. CASE j + 1 = Span(entered) /\ entered \in 1 .. n
        <3>1. IInv'
            BY <1>1, <1>2, <1>4, <2>7, CrossesReg
        <3>2. VM!FinishReg
            BY <1>2, <1>4, <2>7, VMFinishesReg
        <3> QED
            BY <3>1, <3>2 DEF VM!Next
    <2>8. CASE j + 1 = Span(entered) /\ entered \in n + 1 .. 2 * n
        <3>1. IInv'
            BY <1>1, <1>2, <1>4, <2>8, CrossesMem
        <3>2. VM!FinishMem
            BY <1>2, <1>4, <2>8, VMFinishesMem
        <3> QED
            BY <3>1, <3>2 DEF VM!Next
    <2>9. j = Span(entered) \/ j + 1 < Span(entered) \/ j + 1 = Span(entered)
        BY <2>1, <2>2
    <2>10. entered = 0 \/ entered \in 1 .. n \/ entered \in n + 1 .. 2 * n \/ entered = 2 * n + 1
        BY <2>2, NIsNat
    <2>11. j # Span(entered) => j < Span(entered)
        BY <2>1, <2>2
    <2> QED
        BY <2>3, <2>4, <2>5, <2>6, <2>7, <2>8, <2>9, <2>10, <2>11
<1> QED
    BY <1>3, <1>4

(* ResultReturned: whatever the programs, the word and its primitives, the *)
(* function gives the stack back and returns the registers the last pass   *)
(* left.                                                                   *)
THEOREM ResultCorrect == Spec => []ResultReturned
<1>1. IInv => ResultReturned
    <2> SUFFICES ASSUME IInv, ~Running PROVE sp = 8 * MemSize /\ \A k \in Reg : io[k] = start[k]
        BY DEF ResultReturned
    <2>1. Compiled /\ entered \in Segment
        BY DEF IInv
    <2>2. PICK T, j : Place(program_list, entered, j, T, pc, St, start, budget)
        BY DEF IInv
    <2>3. /\ j \in 0 .. Span(entered) /\ Span(entered) \in Nat
          /\ Trace(program_list, entered, j, T) /\ T[j] = St /\ Opened(entered, T[0], start, budget)
        BY <2>1, <2>2, MeetFacts DEF Place
    <2>4. j = Span(entered) /\ entered = 2 * n + 1
        BY <2>1, <2>2, <2>3, Here
    <2>5. j = 6 /\ entered # 0
        BY <2>4, NIsNat DEF Span
    <2>6. Trace(program_list, entered, 6, T) /\ Good(entered, T[0], start, budget) /\ T[6] = St
        BY <2>3, <2>4, <2>5 DEF Opened
    <2>7. Returns(T[6], start)
        BY <2>4, <2>6, EpilogueEnds
    <2> QED
        BY <2>6, <2>7 DEF Returns, St, State
<1> QED
    BY <1>1, InitIInv, NextIInv, PTL DEF Spec

(* Implements: whatever the programs, the schedule runs the passes HashwxVM *)
(* runs, a pass for a step.                                                *)
THEOREM Refinement == Spec => Implements
<1> QED
    BY InitIInv, NextIInv, PTL DEF Spec, Implements, VM!Spec
===============================================================================
