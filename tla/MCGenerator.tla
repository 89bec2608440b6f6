----------------------------- MODULE MCGenerator -----------------------------
(* The generator on words of two halves, of which only small values are    *)
(* drawn: enough to meet the residues the code looks at.                   *)
EXTENDS Generator, SrcTable

SmallLowMod(w, n) == w.lo % n
SmallHighMod(w, n) == w.hi % n
(* 2^32 * hi + lo, with 2^16 % n squared for 2^32.                         *)
SmallMod(w, n) ==
    LET half == 65536 % n
    IN  (w.lo + (w.hi % n) * ((half * half) % n)) % n
SmallNum(n) == n

(* The generator does not execute what it generates: the primitives of the *)
(* instruction set need only be of their type.                             *)
SmallWords == 0 .. 63
SmallImm == 1 .. 63
First(a, b) == a
Same(a) == a
AnySlot(a) == 0
Never(a) == FALSE
None == {}
AnyStale == [opcode |-> HALT, src |-> 9, dst |-> 7, imm |-> 63]

Few(los, hi) == {[lo |-> lo, hi |-> hi] : lo \in los}

(* Three words for each opcode and swap: for the shuffle, staying,        *)
(* swapping with the first and swapping with another; for the opcodes,     *)
(* each kind of shift and each product.                                    *)
ThreeWords == {[lo |-> 0, hi |-> 0], [lo |-> 13, hi |-> 839], [lo |-> 26, hi |-> 22]}

(* All rows, the odd ones with R9 as RMCG's source, and the last one with  *)
(* R9 too; four of them.                                                   *)
AllRows == Few((0 .. 624) \cup {1249}, 0)
FourRows == Few({0, 312, 624, 1249}, 0)

(* For the immediates the lower end of each range, a word between, and the *)
(* upper end.                                                              *)
ThreeImms == Few({0, 1, 4031}, 0)
LastImm == [lo |-> 4031, hi |-> 0]

(* The bound of the runs: choices of one kind are varied at a time.        *)
(* Opcodes and swaps vary freely with four rows and one immediate word;    *)
(* all rows are explored where opcodes and swaps were drawn from one word, *)
(* and all immediates where the row is the first one as well.              *)
OneWordDrawn == \A j, k \in 0 .. 6 : dst_select[j] = dst_select[k]
SourcesOf(w) ==
    LET row == SrcPerms[Mod(w, NUM_SRC_PERM)]
    IN  [k \in 0 .. 7 |-> IF k = 0 THEN 8 + Mod(w, 2) ELSE dst[row[k]]]
FromRows(rows) == \E w \in rows : src = SourcesOf(w)
LastImms ==
    \A k \in 0 .. i - 1 :
        program_list[prog][k].imm = gen_imm(program_list[prog][k].opcode, LastImm)
OneKindVaried ==
    stage = "imms" =>
        \/ OneWordDrawn /\ (FromRows(Few({0}, 0)) \/ LastImms)
        \/ FromRows(FourRows) /\ LastImms
=============================================================================
