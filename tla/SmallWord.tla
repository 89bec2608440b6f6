------------------------------ MODULE SmallWord ------------------------------
(***************************************************************************)
(* The 64-bit primitives on a word of seven bits, for TLC: wide enough for *)
(* the three low bits Slot drops and a memory of sixteen cells.  The flag  *)
(* bit is bit 1 (bit 5 in the code) and the branch limit 2 (32 in the      *)
(* code): as in the code, the limit is the value of the flag bit, and a    *)
(* small budget runs out often.  The operators on two words are tabulated  *)
(* once.                                                                   *)
(***************************************************************************)
EXTENDS Naturals, Sequences
LOCAL INSTANCE Bitwise

Width == 7
Modulus == 2 ^ Width
SmallWords == 0 .. Modulus - 1
SmallImm == (1 .. 6) \cup {9, 33}

OrTable  == [a, b \in SmallWords |-> a | b]
XorTable == [a, b \in SmallWords |-> a ^^ b]
AndTable == [a, b \in SmallWords |-> a & b]
SmallOr(a, b)  == OrTable[a, b]
SmallXor(a, b) == XorTable[a, b]
SmallAnd(a, b) == AndTable[a, b]
SmallAdd(a, b) == (a + b) % Modulus
SmallSub(a, b) == (a + Modulus - b) % Modulus
SmallMul(a, b) == (a * b) % Modulus

SmallRor(a, b) ==
    LET k == b % Width
    IN  (a \div 2 ^ k) + (a % 2 ^ k) * 2 ^ (Width - k)
SmallLsr(a, b) == IF b < Width THEN a \div 2 ^ b ELSE 0
(* The sign bit is copied into the bits the shift frees.                   *)
SmallAsr(a, b) ==
    LET k == IF b < Width THEN b ELSE Width
    IN  (a \div 2 ^ k) + (IF a < Modulus \div 2 THEN 0 ELSE Modulus - 2 ^ (Width - k))

SmallLow(a) == a % 2 ^ (Width - 1)
SmallTag(a, k) == 8 * (a \div 8) + k
SmallSlot(a) == (a \div 8) % 16
FlagMask == 2
SmallLooping(a) == (a \div FlagMask) % 2 = 0

SmallPrograms == 2
SmallLimit == FlagMask

-----------------------------------------------------------------------------
(* Programs as program_generate makes them: ops, imms and dst are indexed  *)
(* by the eight slots of the generator, slot 7 going to position 8, and    *)
(* perm is a row of src_lookup.                                            *)
MakeProgram(ops, dst, perm, rmcg_src, imms) ==
    LET slot(k) == IF k = 8 THEN 8 ELSE k + 1
    IN  [k \in 0 .. 9 |->
            IF k = 7 THEN [opcode |-> 13, src |-> 0, dst |-> 0, imm |-> 1]
            ELSE IF k = 9 THEN [opcode |-> 14, src |-> 0, dst |-> 0, imm |-> 1]
            ELSE [opcode |-> ops[slot(k)],
                  dst |-> dst[slot(k)],
                  src |-> IF k = 0 THEN rmcg_src ELSE dst[perm[slot(k)] + 1],
                  imm |-> imms[slot(k)]]]

Prog1 == MakeProgram(<<3, 4, 0, 8, 1, 12, 2, 6>>, <<0, 1, 2, 3, 4, 5, 6, 7>>,
                     <<2, 3, 4, 5, 6, 7, 1, 0>>, 8, <<3, 2, 9, 1, 33, 2, 1, 5>>)
Prog2 == MakeProgram(<<3, 7, 2, 10, 0, 5, 1, 9>>, <<5, 3, 7, 0, 6, 2, 4, 1>>,
                     <<7, 6, 4, 5, 1, 3, 0, 2>>, 9, <<1, 3, 1, 2, 9, 4, 33, 1>>)
Prog3 == MakeProgram(<<3, 11, 1, 6, 2, 7, 0, 4>>, <<4, 7, 1, 6, 2, 0, 3, 5>>,
                     <<6, 2, 1, 4, 7, 3, 5, 0>>, 8, <<5, 1, 33, 6, 1, 3, 9, 2>>)

SmallLists ==
    {[i \in 0 .. 1 |-> IF i = 0 THEN a ELSE b] :
        a \in {Prog1, Prog2}, b \in {Prog2, Prog3}}

SmallDraws == {[x \in 0 .. 7 |-> (s * (2 * x + 1) + 13 * x * x) % Modulus] : s \in 0 .. 47}
=============================================================================
