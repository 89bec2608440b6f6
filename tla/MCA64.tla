-------------------------------- MODULE MCA64 ---------------------------------
(* The scheduled function on seven-bit words, two programs, two loops a    *)
(* phase, with every row of src_lookup in one of the programs.             *)
EXTENDS A64Machine, SmallWord, SrcTable

(* The program of a row: the opcodes and immediates follow the number of   *)
(* the row, so that the rows between them meet every opcode at every place.*)
RowProgram(row) ==
    LET mul(k) == (row + k) % 3
        xas(k) == 4 + ((row * 5 + k) % 9)
        shift(k) == 1 + ((row + k) % 6)
        factor(k) == <<1, 9, 33>>[((row \div 3 + k) % 3) + 1]
        perm == src_lookup[row]
    IN  MakeProgram(
            <<3, xas(0), mul(0), xas(2), mul(1), xas(5), mul(2), xas(7)>>,
            <<5, 3, 7, 0, 6, 2, 4, 1>>,
            [k \in 1 .. 8 |-> perm[k - 1]],
            8 + (row % 2),
            <<shift(0), shift(1), factor(0), shift(2), factor(1), shift(3), factor(2), shift(4)>>)

LastRow == 624
RowLists ==
    {[i \in 0 .. 1 |-> RowProgram(IF i = 0 THEN row ELSE LastRow - row)] :
        row \in 0 .. LastRow \div 2}
OneDraw == {[y \in 0 .. 7 |-> (41 * (2 * y + 1) + 13 * y * y) % Modulus]}
=============================================================================
