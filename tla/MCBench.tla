------------------------------- MODULE MCBench --------------------------------
(* One to three threads; one of them idle, seeds that do not divide among  *)
(* them, and loop variables that end exactly at INT_MAX.                   *)
EXTENDS Bench

SmallInt == 7
SmallHash(s, n) == (5 * s + 3 * n + 1) % 7
Opt(start, seeds, nonces, threads) ==
    [start |-> start, seeds |-> seeds, nonces |-> nonces, threads |-> threads]
FewOptions ==
    {Opt(0, 3, 2, 1), Opt(0, 6, 2, 2), Opt(0, 5, 2, 3),
     Opt(3, 3, 1, 2), Opt(1, 4, 1, 3), Opt(4, 1, 2, 3)}
=============================================================================
