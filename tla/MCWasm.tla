-------------------------------- MODULE MCWasm --------------------------------
(* The side module on seven-bit words, two programs, two loops a phase.    *)
EXTENDS WasmRefinement, SmallWord

FewDraws == {[y \in 0 .. 7 |-> (s * (2 * y + 1) + 13 * y * y) % Modulus] : s \in 0 .. 11}
=============================================================================
