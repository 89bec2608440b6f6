------------------------------- MODULE Word64 --------------------------------
(***************************************************************************)
(* uint64_t for TLC: eight bytes, the lowest first.  Only runs use this    *)
(* module; the proofs leave the word size open.                            *)
(***************************************************************************)
EXTENDS Naturals, Sequences
LOCAL INSTANCE Bitwise

(* Tuples are built byte by byte: TLC evaluates a tuple once, a function   *)
(* whenever it is applied.                                                 *)
ByteIndex == 1 .. 8
Bytes(byte(_)) ==
    <<byte(1), byte(2), byte(3), byte(4), byte(5), byte(6), byte(7), byte(8)>>

Xor64(a, b) == LET byte(k) == a[k] ^^ b[k] IN Bytes(byte)
Or64(a, b)  == LET byte(k) == a[k] | b[k]  IN Bytes(byte)

(* Numbers in the places of the bytes, with the excess carried upwards.    *)
Carry(place(_)) ==
    LET sum[k \in 0 .. 8] == IF k = 0 THEN 0 ELSE place(k) + sum[k - 1] \div 256
        byte(k) == sum[k] % 256
    IN  Bytes(byte)

Add64(a, b) == LET place(k) == a[k] + b[k] IN Carry(place)
Not64(a) == LET byte(k) == 255 - a[k] IN Bytes(byte)
One == <<1, 0, 0, 0, 0, 0, 0, 0>>
Sub64(a, b) == Add64(Add64(a, Not64(b)), One)

Mul64(a, b) ==
    LET place(k) ==
            LET part[j \in 0 .. k] == IF j = 0 THEN 0 ELSE part[j - 1] + a[j] * b[k + 1 - j]
            IN  part[k]
    IN  Carry(place)

(* The bytes of a, continued above by those of high, moved down by n bits. *)
Funnel(a, high, n) ==
    LET from(k) == IF k <= 8 THEN a[k] ELSE high[k - 8]
        low(k)  == from(k + n \div 8) \div 2 ^ (n % 8)
        up(k)   == (from(k + n \div 8 + 1) * 2 ^ (8 - (n % 8))) % 256
        byte(k) == low(k) + up(k)
    IN  Bytes(byte)

Zero == <<0, 0, 0, 0, 0, 0, 0, 0>>
Ror64(a, n) == Funnel(a, a, n)
Rotl64(a, n) == Ror64(a, 64 - n)
Lsr64(a, n) == Funnel(a, Zero, n)
Asr64(a, n) == Funnel(a, IF a[8] < 128 THEN Zero ELSE Not64(Zero), n)

(* The residue modulo n of the number in bytes from to 8, or to 4.         *)
Residue(a, from, to, n) ==
    LET above[k \in from .. to + 1] ==
            IF k > to THEN 0 ELSE (256 * above[k + 1] + a[k]) % n
    IN  above[from]

Num64(n) == <<n % 256, n \div 256, 0, 0, 0, 0, 0, 0>>
Low64(a) == <<a[1], a[2], a[3], a[4], 0, 0, 0, 0>>
Tag64(a, k) == [a EXCEPT ![1] = 8 * (@ \div 8) + k]
Slot64(a) == a[1] \div 8 + 32 * (a[2] % 8)
Looping64(a) == (a[1] \div 32) % 2 = 0
=============================================================================
