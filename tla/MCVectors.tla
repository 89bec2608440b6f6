------------------------------ MODULE MCVectors ------------------------------
(* The calls tests.c makes on its interpreted context, and their hashes.   *)
EXTENDS HashwxVectors

(* "This is a test seed for hashwx" and "Lorem ipsum dolor sit amet".      *)
seed1 == <<84, 104, 105, 115, 32, 105, 115, 32, 97, 32, 116, 101, 115, 116, 32, 115,
           101, 101, 100, 32, 102, 111, 114, 32, 104, 97, 115, 104, 119, 120, 0, 0>>
seed2 == <<76, 111, 114, 101, 109, 32, 105, 112, 115, 117, 109, 32, 100, 111, 108, 111,
           114, 32, 115, 105, 116, 32, 97, 109, 101, 116, 0, 0, 0, 0, 0, 0>>

counter1 == Zero
counter2 == <<64, 226, 1, 0, 0, 0, 0, 0>>
counter3 == <<21, 119, 113, 75, 95, 218, 180, 13>>

hash1 == <<4, 216, 41, 95, 7, 56, 182, 6>>
hash2 == <<211, 33, 172, 42, 136, 154, 72, 180>>
hash3 == <<137, 2, 170, 97, 30, 224, 184, 227>>
hash4 == <<66, 120, 90, 200, 32, 115, 108, 119>>

MakeCall(seed) == [make |-> TRUE, seed |-> seed]
ExecCall(input, hash) == [make |-> FALSE, input |-> input, hash |-> hash]

TestScript ==
    <<MakeCall(seed1), ExecCall(counter1, hash1), ExecCall(counter2, hash2),
      MakeCall(seed2), ExecCall(counter2, hash3), ExecCall(counter3, hash4)>>
=============================================================================
