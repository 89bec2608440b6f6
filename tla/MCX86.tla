-------------------------------- MODULE MCX86 --------------------------------
(* The compiled function on seven-bit words, two programs, two loops a     *)
(* phase, both calling conventions.                                        *)
EXTENDS X86Refinement, SmallWord

CONSTANTS callerRbx, callerRbp, callerRsi, callerRdi, caller12, caller13, caller14, caller15

CallerValues ==
    [n \in {3, 5, 6, 7, 12, 13, 14, 15} |->
        CASE n = 3 -> callerRbx [] n = 5 -> callerRbp [] n = 6 -> callerRsi
          [] n = 7 -> callerRdi [] n = 12 -> caller12 [] n = 13 -> caller13
          [] n = 14 -> caller14 [] n = 15 -> caller15]

FewDraws == {[y \in 0 .. 7 |-> (s * (2 * y + 1) + 13 * y * y) % Modulus] : s \in 0 .. 11}
=============================================================================
