---------------------------- MODULE HashwxVectors ----------------------------
(***************************************************************************)
(* src/hashwx.c on an interpreted context, at full size: hashwx_make feeds *)
(* the generator (module Generator) from the Siphash stream of the first   *)
(* key, hashwx_exec draws the registers from the stream of the second and  *)
(* runs the interpreter (module Interpreter) on words of 64 bits, 32       *)
(* programs and 32 loops.  One thread makes the calls of Script in order   *)
(* on one context.                                                         *)
(***************************************************************************)
EXTENDS SiphashRng, SrcTable

CONSTANT Script   \* calls: [make |-> TRUE, seed] or [make |-> FALSE, input]

VARIABLES
    call,          \* the call under way
    running,       \* its registers are drawn
    key,           \* ctx->key
    gen,           \* the local siphash_rng of the call
    result,        \* what the last hashwx_exec returned
    program_list,
    prog, stage, g, dst_select, dst, src,
    phase, i, ic, branch_counter, branch_flag, r, mem

calls == <<call, running, key, gen, result>>
generating == <<prog, stage, g, dst_select, dst, src>>
executing == <<phase, i, ic, branch_counter, branch_flag, r, mem>>
vars == <<calls, program_list, generating, executing>>

LowMod64(w, n)  == Residue(w, 1, 4, n)
HighMod64(w, n) == Residue(w, 5, 8, n)
Mod64(w, n)     == Residue(w, 1, 8, n)
RorImm(a, b) == Ror64(a, b[1])
AsrImm(a, b) == Asr64(a, b[1])
LsrImm(a, b) == Lsr64(a, b[1])
Unset == "uninitialised"
Unwritten == [opcode |-> Unset, src |-> Unset, dst |-> Unset, imm |-> Unset]

Gen == INSTANCE Generator WITH
    Word <- {}, Imm <- {}, Or <- Or64, Xor <- Xor64, Add <- Add64, Sub <- Sub64,
    Mul <- Mul64, Ror <- RorImm, Asr <- AsrImm, Lsr <- LsrImm, Low <- Low64,
    Tag <- Tag64, Slot <- Slot64, Looping <- Looping64, NumPrograms <- 32,
    BranchLimit <- 32, ProgramLists <- {}, Draws <- {},
    LowMod <- LowMod64, HighMod <- HighMod64, Mod <- Mod64, Num <- Num64,
    OpcodeWords <- {}, SourceWords <- {}, ImmWords <- {}, SrcPerms <- src_lookup,
    Stale <- Unwritten, Uninit <- Unset, i <- g

Exe == INSTANCE Interpreter WITH
    Word <- {}, Imm <- {}, Or <- Or64, Xor <- Xor64, Add <- Add64, Sub <- Sub64,
    Mul <- Mul64, Ror <- RorImm, Asr <- AsrImm, Lsr <- LsrImm, Low <- Low64,
    Tag <- Tag64, Slot <- Slot64, Looping <- Looping64, NumPrograms <- 32,
    BranchLimit <- 32, ProgramLists <- {}, Draws <- {}, Uninit <- Unset

platform_load64(seed, at) == LET byte(k) == seed[at + k] IN Bytes(byte)
Key(seed, n) == <<platform_load64(seed, 16 * n), platform_load64(seed, 16 * n + 8)>>

Init ==
    /\ call = 1
    /\ running = FALSE
    /\ key = <<Zero, Zero>>
    /\ gen = hashwx_rng_init(Key(Script[1].seed, 0), Not64(Zero))
    /\ result = Unset
    /\ Gen!Init
    /\ phase = "done" /\ i = 0 /\ ic = 0 /\ branch_counter = 0 /\ branch_flag = 0
    /\ r = <<>> /\ mem = <<>>

-----------------------------------------------------------------------------
Calling(make) == call <= Len(Script) /\ Script[call].make = make

(* The generator's steps, on the next word of the stream.                  *)
Generate ==
    /\ Calling(TRUE)
    /\ \/ /\ stage # "done"
          /\ gen' = hashwx_rng_next(gen)
          /\ \/ Gen!DrawOpcode(Drawn(gen'))
             \/ Gen!DrawSources(Drawn(gen'))
             \/ Gen!DrawImm(Drawn(gen'))
       \/ Gen!Shuffle /\ UNCHANGED gen
    /\ UNCHANGED <<call, running, key, result, executing>>

(* hashwx_make returns; a hashwx_make that follows starts a new stream.    *)
MakeReturns ==
    /\ Calling(TRUE)
    /\ stage = "done"
    /\ key' = Key(Script[call].seed, 1)
    /\ call' = call + 1
    /\ UNCHANGED <<running, gen, result, program_list, generating, executing>>

(* hashwx_exec up to the call of hashwx_program_list_execute.              *)
DrawRegisters ==
    /\ Calling(FALSE)
    /\ ~running
    /\ running' = TRUE
    /\ LET stream[n \in 0 .. 8] ==
               IF n = 0 THEN hashwx_rng_init(key, Script[call].input)
               ELSE hashwx_rng_next(stream[n - 1])
       IN  /\ gen' = stream[8]
           /\ r' = Exe!FirstRegisters([n \in 0 .. 7 |-> Drawn(stream[n + 1])])
    /\ phase' = "reg"
    /\ i' = 0
    /\ ic' = 0
    /\ branch_counter' = 32
    /\ branch_flag' = 0
    /\ mem' = [a \in 0 .. 255 |-> Unset]
    /\ UNCHANGED <<call, key, result, program_list, generating>>

Execute ==
    /\ Calling(FALSE)
    /\ phase # "done"
    /\ Exe!Next
    /\ UNCHANGED <<calls, generating>>

Finalised ==
    LET low  == SIPROUND(<<r[0], r[1], r[2], r[3]>>)
        high == SIPROUND(<<r[4], r[5], r[6], r[7]>>)
    IN  Xor64(Xor64(low[4], high[4]), r[9])

(* The generator of the next hashwx_make, if one follows, starts afresh.   *)
ExecReturns ==
    /\ Calling(FALSE)
    /\ running
    /\ phase = "done"
    /\ result' = Finalised
    /\ running' = FALSE
    /\ call' = call + 1
    /\ IF call < Len(Script) /\ Script[call + 1].make
       THEN /\ gen' = hashwx_rng_init(Key(Script[call + 1].seed, 0), Not64(Zero))
            /\ prog' = 0
            /\ stage' = "opcodes"
            /\ g' = 1
            /\ UNCHANGED <<dst_select, dst, src>>
       ELSE UNCHANGED <<gen, generating>>
    /\ UNCHANGED <<key, program_list, executing>>

AllReturned == call > Len(Script) /\ UNCHANGED vars

Next ==
    \/ Generate \/ MakeReturns
    \/ DrawRegisters \/ Execute \/ ExecReturns
    \/ AllReturned

Spec == Init /\ [][Next]_vars

-----------------------------------------------------------------------------
(* The hashes of tests.c: generator, Siphash streams, interpreter and      *)
(* finalisation compute together what the C program computes.              *)
HashesMatch ==
    (call > 1 /\ ~Script[call - 1].make) => result = Script[call - 1].hash

(* doc/specification.md, A.3: the generator outputs its internal state in  *)
(* the order v0, v1, v2 and v3.                                            *)
SpecifiedOrder ==
    gen.count > 0 => Drawn(hashwx_rng_next(gen)) = gen.state[5 - gen.count]
=============================================================================
