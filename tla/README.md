# A TLA+ development of HashWX

HashWX (this repository) turns a 32-byte seed into a hash function of one 64-bit
input: the seed generates 32 small programs, and a hash is the result of running
them twice, once on registers and once on registers and a memory the first run
filled. The library interprets the programs or compiles them to x86-64, ARM64 or
WebAssembly. This directory holds the specifications of its parts, the models
that check them with TLC, and proofs that the TLA+ proof system checks.

## 1. Inventory

| component | state | operations | interacts with | what makes it correct |
|---|---|---|---|---|
| instruction set (`src/instruction.h`, `src/program.h`) | none | the 13 arithmetic opcodes, BRANCH, HALT | everything that makes or runs programs | one meaning of an opcode for all executors |
| program generator (`src/program.c`) | the list under construction, three local arrays | `program_generate`: opcodes, destinations (Fisher-Yates), sources (table of 625 rows), immediates, branch | draws from the Siphash generator | every program has the layout the executors take for granted |
| Siphash generator (`src/siphash_rng.*`) | key, four words, count | init, mix, next | generator, `hashwx_exec` | the stream of words, to the bit |
| interpreter (`src/program_exec.c`) | registers, memory buffer, loop budget, flag, counters | `program_execute_reg`, `program_execute_mem`, `hashwx_program_list_execute` | reads a program list | runs the passes the definition of HashWX gives, reads no unwritten cell, ends |
| x86 compiler (`src/compiler_x86.c`) | a code buffer | emit, patch the jump | called by `hashwx_make`, result called by `hashwx_exec` | the code computes what the interpreter computes, fits, keeps the calling convention |
| ARM64 compiler (`src/compiler_a64.c`) | a code buffer | the same with a fixed schedule; clears the instruction cache | the same | the schedule computes the program |
| WASM compiler (`src/compiler_wasm.c`) | a module image | the same for a stack machine, with section sizes | exported to JavaScript | sizes agree with content |
| contexts (`src/hashwx.c`, `src/context.c`, `src/compiler.c`) | pointer to code or list, type, key, `has_program` | alloc, make, exec, free | memory allocator, threads of the caller | no leak, no use of freed or unwritten memory, a hash is of the latest seed |
| page protection (`src/virtual_memory.c`) | protection of a mapping | map, make writable, make executable, unmap | contexts and compilers | code runs only when executable, is written only when writable |
| JavaScript glue (`js/`) | table of instances, side modules | alloc, make, exec, free | WASM exports | a handle names its instance; module and key belong together |
| benchmark (`src/bench.c`) | an array of jobs, a context each | share the seeds out to threads, join, add up | the public interface | every seed with every nonce once, whatever the order |
| tests, crush (`src/tests.c`, `src/crush.c`) | none | published vectors; TestU01's SmallCrush on the hashes | the public interface | the published hashes |

The hard parts are these. The executors differ in structure (an interpreter with a
flag variable; machine code that keeps the complement of the loop counter and
commits it late; a hand-made schedule that shares a bit between flag and counter; stack
code an engine must accept first) and must agree in every bit. Resources have
different lifetimes (pass, call, phase). The generator indexes partly initialised
arrays with random words. Contexts are made again, share memory over time and are
hashed with by several threads; allocation and page protection can fail in the
middle of a call. `PROJECT.json` lists each of these under `hazards`, at its line.

Nothing here persists over a crash of the process, and no messages are exchanged:
there is no crash recovery and no delivery to model.

## 2. Plan

1. *Done:* `HashwxIsa`, the abstract machine `HashwxVM`, `Interpreter` and its
   refinement, with proofs; `Context`; `X86Code`, `X86Machine` and their refinement;
   `Generator` with proofs; `SiphashRng`, `Word64` and the full-size composition
   `HashwxVectors`.
2. *Done:* `A64Code` and `A64Machine`, the ARM64 schedule over all rows of the source table;
   `WasmCode`, `WasmMachine` and `WasmRefinement`, the side module and its sizes; `HashApi`,
   what the interface promises, implemented by the C library (`ContextRefinement`) and by the
   JavaScript class (`JsGlue`); `Bench`, a client of the interface.
3. *Done:* proofs about the clients and owners of memory: `ContextProofs` (ownership for any number of threads
   and contexts, and from it `ImplementsApi`), `JsGlueProofs` (the table of instances), `BenchProofs` (the workers
   partition the seeds).
4. *Done:* `A64Proofs`, the ARM64 schedule and its refinement of `HashwxVM` for any programs.
5. *Done:* `X86Proofs`, the x86 code by byte address, in both calling conventions: its size, what it keeps for its caller,
   and its refinement of `HashwxVM`. The lemmas on the abstract pass (`DoIs`, `PassesExist`, `DoTyped`) speak of `HashwxIsa` alone.
6. *Then:* the stack code of the WASM compiler, along the same lines: where the code of a program is, the operand stack between
   two instructions, and the effect of the code of one program.

Composition: `HashwxIsa` is extended by `HashwxVM`, `Interpreter`, the three `...Code`
modules and `Generator`; `InterpreterRefinement`, `X86Refinement`, `A64Machine` and `WasmRefinement`
instantiate `HashwxVM`; `ContextRefinement` and `JsGlue` instantiate `HashApi`;
`HashwxVectors` instantiates `Generator` and `Interpreter`. `ContextsPrivate` of `Bench` is
the promise `Context` takes from its callers.

## 3. Modules and the code

**HashwxIsa.** Opcodes with the numbers of `enum instr_type`, the layout a generated
program has, and `Operate`, the effect of an arithmetic instruction. The 64-bit
primitives are constant operators, so that the proofs hold for any implementation
of them; `SmallWord` gives seven-bit ones, `Word64` the real ones. `FirstRegisters`
is the setting of R8 and R9 in `hashwx_exec`, `Store` the loop that copies R0-R7 to memory.

**HashwxVM.** The abstract machine: one step is one pass over a program. It is what
`hashwx_program_list_execute` promises, and what every executor is compared with.

**Interpreter.** One step is one turn of a `for (;;)` loop of `program_exec.c`; the
two loops differ only in the second operand and share actions, told apart by `phase`.
`HaltReg` and `HaltMem` include what `hashwx_program_list_execute` does after a call returns: the
store of eight registers, the next index, the reset of the flag and the counter of
the call, the new budget between the phases. The unwritten memory buffer holds
`Uninit`. **InterpreterRefinement** adds the registers at the start of the pass as a
history variable and states `Implements`.

**X86Code** holds the templates of `compiler_x86.c` as records: the registers an
instruction names and its length in bytes; `hashwx_compile_x86` lays them out by byte address.
The encoders are modelled by the register numbers they produce; the bit patterns are
not. **X86Machine** is the processor (external), executing the buffer from offset 0,
with stack, zero flag (unknown after arithmetic) and the caller's registers.
**X86Refinement** maps its state to `HashwxVM`: R0-R9 in their registers, memory in the
pushed cells, the budget in `ebx`, or in `ebp` where a jump is being taken. The
six-byte form of the jump is in the model, but no generated program is long enough to need it.

**A64Code** writes the code of a program in the order `compiler_a64.c` does, an instruction a
record; all are four bytes long. **A64Machine** runs it: R0-R9 in x0-x7, x12 and x13, the loops in x9,
the memory between `sp` and the caller's stack. Its history variables are the
registers and the budget at the last place where two passes meet, which is the target of a
branch, or the epilogue; with them it states `Implements`.

**WasmCode** writes the stack code with the length of every instruction, and keeps the sizes
the compiler, its header bytes and its assertions give as the constants they are there. **WasmMachine** is the
engine between `hashwx_exec_begin`, which `Init` stands for, and `hashwx_exec_final`, whose reads are
`ReadByFinal`. Operands on the stack carry their type, so that `ValidModule` says what an engine
checks before it runs anything; labels are the blocks around the instruction. The heap is the two arrays of the
context. **WasmRefinement** maps locals to registers where a loop begins.

**Generator.** One step is one word drawn with what is done with it, or one swap of
the shuffle. Words come from sets given by the model, which see only the residues
the code looks at. The `uint32_t` truncations are `LowMod` and `HighMod`. **SrcTable** is the
table `src_lookup`, one number of eight digits per row.

**SiphashRng, Word64.** The stream on words of eight bytes. **HashwxVectors** composes
the stream with `Generator` and `Interpreter` at full size and adds the steps of
`hashwx_make` and `hashwx_exec` around them.

**Context.** The four calls of the interface as steps of threads, cut where another
thread, a failing allocation or a failing `mprotect` can matter. `ctx`, `page` and `list` are
memory by address; freed memory is `Gone`, unwritten fields are `Garbage`, and a test of an
unwritten field can go either way. A program is abstracted to the seed it was
generated from. `fetch` is the set of programs an instruction fetch may see.
`owned` (what callers hold), `made` (the seed of the latest completed make) and `failed`
(buffers whose last protection failed) are history. Callers keep the
rules of `include/hashwx.h`; two threads may hash with one context at once. With
`HasCompiler = FALSE`, `hashwx_alloc` of a compiled context returns a sentinel and changes nothing.

**HashApi** is what `hashwx.h` promises: an instance is a function of the seed of its last make, and a
hash takes key and program from that one seed. **ContextRefinement** adds the hash a step returned as
history: the key the thread drew with and a program its core may fetch. A make takes
effect when it returns, a free when it begins.

**JsGlue.** A call of the class is one step, since JavaScript runs it to its end. `instances` is the array
with its holes, `ctx` the linear memory, where the text of a compiled context is the module bytes. A make may
throw between `hashwx_make` of the main module and the new side module; the function is then `Undefined`, and callers do
not hash with it. `AllocFails` stands for NULL, `HASHWX_NOTSUPP` and a main module that cannot be loaded.
A handle kept after `hashwx_free` is a caller's error, as in C; so is a seed that is not 32 bytes long.

**Bench.** Main and its workers, one step a turn of a loop. XOR of hashes is the symmetric difference of the
pairs (seed, nonce) they are of, so that a pair hashed twice, or never, shows. `Exit` is a return from main, which ends all threads.
The options are those that `Fits`: the last seed plus the number of threads is an `int`. Beyond that the stepping of
`seed` is undefined, and the program promises nothing.

Operators named `Mut...` in these modules are deliberate bugs. None is used by a
specification; each replaces a definition when a property is tested for being able to fail.

## 4. Runs

| run | bounds | shows |
|---|---|---|
| `interpreter` | 7-bit words, 2 programs, budget 2, 4 lists, 48 inputs (12 112 states) | `TypeOK`, `MemoryReady`, `FlagIsLive`, `WorkDecreases`, `Termination`, `Implements` |
| `x86` | the same lists, 12 inputs, both conventions (24 728 states) | `TypeOK`, `CodeFits`, `ConventionKept`, `ResultReturned`, `Termination`, `Implements` |
| `context` | 2 threads, 2 contexts, 2 buffers, 1 list, 2 seeds (82 351 states) | `TypeOK`, `MemoryIsOwned`, `ProgramDeclared`, `FaultsAreProtection`, `CallsReturn`, `ImplementsApi` |
| `generator` | 1 program, 3 words for each opcode and swap, all 625 rows, 3 words for each immediate, one kind of choice varied at a time (164 833 states) | `TypeOK`, `PartlyShuffled`, `ProgramsLaidOut`, `ImmsInRange`, `SourcesDiffer`, `ProductsSettle` |
| `vectors` | full size: 64-bit words, 32 programs, budget 32 (5 747 states) | `HashesMatch` |
| `wasm` | the lists of `interpreter`, 12 inputs (32 380 states) | `ValidModule`, `AccessInBounds`, `SizesAgree`, `ResultReturned`, `Implements` |
| `a64` | 313 lists with a program for each of the 625 rows, 1 input (60 852 states) | `CodeFits`, `ResultReturned`, `Implements` |
| `js_glue` | 3 contexts, 2 seeds (42 278 states) | `HandlesNameInstances`, `SlotsReused`, `ImplementsApi` |
| `bench` | 1 to 3 threads, 1 to 6 seeds, 1 or 2 nonces, `INT_MAX` 7 (13 302 states) | `TypeOK`, `ContextsPrivate`, `ResultsComplete`, `Termination` |
| `spec_order` | as `vectors` | *violation*: the order of words in the specification, A.3 |
| `imm_docs` | as `generator` | *violation*: the immediates of products in `doc/design.md` and in the comment of `program_generate` |
| `wasm_asserts` | as `wasm` | *violation*: the asserted sizes of the code of one program |

*Why the bounds are enough.* The executors treat programs alike, so two are the first
number with a first, a last and a boundary between the phases. A budget of two runs
out in the middle of a program, at the end of one and not at all. Seven bits keep the
three bits an address drops, sixteen cells and a flag bit apart; the four lists use
every opcode and both sources of RMCG. As in the code, the budget equals the
value of the flag's bit (compiled code ORs the one into the other). `CodeFits` sizes a list
of 32 programs; the length of a program depends on no operand. In `context` one list for
two contexts makes the allocation of a list fail while the other context lives, and every
address be used again; two threads are the first number with an interleaving.
`generator` draws, for each swap, a word that stays, one that swaps with the
first element and one that swaps with another (the first again, at the first swap); its immediate words meet the lower
end of each range, the upper end, and all three immediates of products. Its state constraint `OneKindVaried` keeps the product of
the choices apart: all sequences of opcodes and swaps are followed with four rows and one immediate word, all rows where opcodes and swaps
come from one word repeated, all sequences of immediates where the row is the first one as well. A row acts on the
positions of the destinations, whatever these are, and an immediate depends on its opcode alone. `vectors` makes, in order, the calls `tests.c` makes on one
interpreted context; as TLC checks for deadlock and the run is a single behaviour of
5 747 different states, every call returns.

In `a64` opcodes and immediates vary with the row, so that every opcode meets every place; a row is a place where
instructions could be scheduled wrongly, and two programs of different rows follow each other. `wasm` sizes
a list of 32 programs; again no length depends on an operand, except that immediates must stay below 64, which `SizesAgree` checks and
`ImmsInRange` shows of the generator. Three instances in `js_glue` are the first with a hole between two and a choice of holes.
The options of `bench` have an idle thread, seeds that do not divide, and `INT_MAX` as the last value of a loop variable.

*Fairness.* `Interpreter`, `X86Machine`, `A64Machine` and `WasmMachine` are one thread running straight through: weak
fairness of the next step. In `Context`, a thread inside a call goes on (weak fairness of
`Continue`), and so do main and the workers of `Bench`; nothing is assumed of when threads enter calls, and in particular not that a
failing allocation or protection ever succeeds. `CallsReturn` allows for a crash of the process, which
`FaultsAreProtection` shows to have one cause. For `A64Machine` and `WasmMachine` no liveness is checked: their code
jumps backwards only to where a pass begins, and `Implements` counts the passes; a counter that
stands still, or a target that is off, violates it. On x86, where a wrong displacement can loop inside a pass, `Termination` is checked as well.

*Findings.* (1) Appendix A.3 of the specification says the generator outputs v0, v1, v2, v3;
`hashwx_rng_next` returns v3, v2, v1, v0, and the published hashes agree with the code (`vectors`).
(2) `compiler_wasm.c` asserts that a program takes 173 bytes in the first phase and 179 in the second. It emits 170
and 176; the lengths in the module header and `HASHWX_CODE_SIZE` are right for those (`SizesAgree`), the assertions wrong: a
WASM build with assertions aborts at the first make of a compiled context.
(3) `doc/design.md` and the comment in `program_generate` give the immediates of MULOR, MULXOR and MULADD as 1, 5, 17, 65.
`gen_imm` chooses from 1, 9, 33 (`imm_docs` shows a product by 9), as the specification's table does, and the published hashes agree.

The runs also make a weakness visible that contradicts no document: `virtual_memory.c`
keeps a failed `mprotect` to itself, and `hashwx_make`, which returns nothing, cannot report it;
`ImplementsApi` shows it never leads to the wrong hash, `FaultsAreProtection` that it may end in a fault.

## 5. Proofs

**InterpreterProofs**, for every word size, primitives, number of programs, budget,
program lists and inputs that meet the assumptions named in `HashwxIsa` and `Interpreter`
(words are closed under the primitives, addresses are in memory, the flag bit is in the low
half, programs have the layout, `Uninit` is not a word):

- `Invariance` proves the inductive invariant `IInv`: `TypeOK`, `MemoryReady` and
  `FlagCopied`. `FlagIsLive` is not inductive as it stands: that RMCG's destination keeps its value up to
  the branch needs that destinations differ (from `Layout`), and what the flag was copied from.
- `TypeCorrect`, `MemoryIsReady` and `FlagStaysLive` follow. `BoundedWork` proves `WorkBounded` and
  `WorkDecreases` (every instruction uses up work; looping costs eight and moves the counter back seven).
- `Refinement` proves `HSpec => Implements`. `PassInv` says what the registers are at each place of a
  pass, as the abstract machine's partial results; each instruction extends it by
  one, the branch and the halts are the abstract steps, and everything else stutters.

**GeneratorProofs**, for every set of words, number of programs, residue functions in
range and table that meets `SrcAssumption` (checked for the real table in the runs, where TLC evaluates it):

- `IInv` joins what has been drawn so far: opcodes of the right class (`OpcodesDrawn`), a permutation of
  the elements visited (`PartlyShuffled`), sources in the order of one row (`SourcesChosen`), operands up to i (`OperandsWritten`),
  and finished programs that are good. `ProgramsLaidOut` alone is not inductive, since it says
  nothing of the program being built.
- `SwapPermutes` is the step of Fisher-Yates for any index drawn; `FinishedIsGood` turns a permutation and a row into layout
  and distances.
- `TypeCorrect`, `ShufflePermutes`, `LaidOut`, `ImmediatesFit`, `SourcesFit` and `ProductsFit` follow. `LaidOut` discharges, for generated
  lists, the assumption `InterpreterProofs` makes of its inputs.

**ContextProofs**, for any threads, contexts, buffers, lists and seeds, with or without a compiler and a coherent
instruction cache. The assumptions (`ContextAssumption`, `FunctionAssumption`) only keep apart values that are apart in the
program: addresses, NULL, what unwritten memory holds, what memory that was freed is.

- `MemoryIsOwned` is about what callers hold, and says nothing of a context one thread is still building or already
  taking apart. The inductive invariant therefore follows each thread: where it is decides whether its context is in its
  hands alone (`PlacesKept`), threads meet at a context only to hash (`Apart`), the contexts allocated are those held by callers or
  in one thread's hands (`ContextsHeld`), each buffer and list belongs to one of them (`CodeHeld`), a context that was made and is
  not being compiled is of one seed in its key, its list or its buffer and what an instruction fetch may see (`Current`), and
  a compilation has come as far as its thread (`Compiled`). All of it holds until the process is gone; `FaultsAreProtection`
  is a conjunct of its own, because after a crash nothing else is claimed.
- `TypeCorrect`, `FaultsExplained`, `MemoryOwned`, `Declared` follow. `Refinement` proves `HSpec => ImplementsApi`: a hash takes its
  registers from `draw` and its program from memory at two different steps, and `PlacesKept` and `Current` give both the seed of
  the last make.

**JsGlueProofs**, for any finite set of contexts and any seeds that meet `GlueAssumption`.

- The inductive invariant adds to `HandlesNameInstances` that the table is an array with a first element that is no
  instance (`Table`), and that an object knows the type of its context and, after a make that ended, has key, program and side module of the last
  seed (`ObjectsTell`).
- `HandlesName`, `TableBounded` (`SlotsReused`) and `Refinement` (`Spec => ImplementsApi`) follow. The least hole exists by
  `LeastNumber` of **LibraryProofs**, the lemmas on numbers, sequences and flattening that the others share.

**BenchProofs**, for any set of options that fit (`OptionsAssumption`), any hashes in range and any contexts.

- The inductive invariant says what main has done to each job (`JobsKept`, with `Written`, `Unborn`, `Joined`, `Reported` for the threads below
  and above its loop variable), which seeds each worker has finished (`WorkKept`) and that the sums are those of the
  workers reported (`ResultsKept`).
- The arithmetic is in `TurnOfOne` and `TurnOfSome` (seeds dealt like cards in turn: each is one worker's) and `FinishedNext`; from it
  `SharesDisjoint` and `SharesCover`, on which `ResultsAreComplete` rests. `ContextsStayPrivate` follows from `JobsKept`.

**A64Proofs**, for any words and primitives that meet the assumptions of `HashwxIsa`, `ScheduleAssumption` (what `ProductsFit` and
`ImmediatesFit` prove of generated programs) and `CounterAssumption` (the counter of loops stays clear of the bits it is ORed with).

- `FunctionCode` and `Located` say which instruction is where, on the lemmas about `\o` and `FlattenSeq` of `LibraryProofs`;
  `CodeAlwaysFits` follows, and so does where passes meet (`TargetsAre`, `Meeting`), which cuts the function into segments.
- `Effect` is one instruction as a function of the machine's state. `RegPass` and `MemPass` are the heart: the 18 or 31 instructions of
  a pass, in the order of the compiler, leave the registers of the abstract pass. Each of their steps says which registers
  already hold what, and needs `Apart`, the rows' promise that nothing moved ahead reads or writes too early.
- The invariant `IInv` says that the machine is at an instruction of the segment entered last, in a run (`Place`) that began in a state
  holding the registers and loops of `HashwxVM`. It speaks of the run, not of each instruction's intermediate state, so
  one step only makes the run longer (`Within`); where a segment ends, `PassRuns`, `RegEnds` and `MemEnds` say what the whole run did.
- `ResultCorrect` (`ResultReturned`) and `Refinement` (`Spec => Implements`) follow: the taken branch is `Loop`, the last instruction of a
  segment `FinishReg` or `FinishMem`, everything else stutters. In particular the pushes between the halves of instruction 8 store the
  registers after it (`RegEnded`), as `pair_idx` puts the pair it changes last.

**X86Proofs**, for any words and primitives that meet the assumptions of `HashwxIsa`, any number of programs with the layout, and
either calling convention. `CounterAssumption` says that ORing a counter up to the limit into the flag's word makes the branch
fall through exactly at the limit; the code has it because the limit is the bit the branch tests and the counter is below it until then.

- `ProgramEmitted` follows the recursion of `compile_program`: each line of a program is at its place (`Begin`), and the jump of the
  branch goes back over the bytes since the target. `TheCode` joins prologue, programs and epilogue to segments (`Assembled`).
  `CodeAlwaysFits` is the sum of their bytes: 7628 for 32 programs, one more on Windows, of 8192. `OffsetsSpread` turns
  instruction numbers into byte addresses, so that the processor only ever fetches at the first byte of an instruction.
- `Effect` is one instruction as a function of registers, stack and `r[]`, the flag followed apart (`Moves`), since the flag is unknown
  after arithmetic and must be one the code has just set where it is read. The lemmas on pieces (`HalvingDoes`, `FullsDo`, `BranchLine`) say
  what the two to five instructions of a line do, and `Passes` that a run of a pass's lines leaves the registers of the abstract pass.
- The inductive invariant `IInv` says that the processor is at place j of the segment entered last, in a state that `At`
  describes: the stack pointer by place (`Sp`), what the stack, `r[]` and the base registers must still hold (`Typed`, `Sheltered`), and the run
  since the target (`Where`). `ConventionKept` says nothing before the function returns, and needs that every saved register is still in its cell,
  above those the programs push to (`Sheltered`). The loop counter is in `ebx` when a segment is entered, but in `ebp` when a jump was taken,
  until `cmovz` commits it: `Behind` says which, by the flag of the jump or of the test in front of the target.
- `AtMoves` is the step inside a segment, `AtCrosses` from one to the next, `AtRepeats` the jump back. `TypeCorrect`, `ConventionAlwaysKept`
  and `ResultCorrect` follow, and `Refinement` (`HSpec => Implements`): the taken jump is `Loop`, the last instruction of a segment `FinishReg` or `FinishMem`,
  everything else stutters. The memory of the second phase is what the pushes left (`MemoryStored`).

Only model-checked: liveness (`Termination`, `CallsReturn`; the prover has no ENABLED), the stack code
of the WASM compiler (`ValidModule`, `AccessInBounds`, `SizesAgree` and its `ResultReturned` and `Implements`: the plan's
next step), and the hashes themselves (`HashesMatch`), which are recursive functions of data.

## 6. Not modelled

`crush.c` hands the hashes of successive nonces to the SmallCrush battery of TestU01: its only state is the nonce, and what
it shows is statistics. `tests.c` is modelled by its vectors, not by its runner. Of `platform.c`, `test_utils.h` and
`bench.c`, timing, printing and the parsing of options are input and output, as is reading `hashwx.wasm`
from a file or a URL. The bit patterns of machine instructions, the type, import and export sections of the side
module, alignment and endianness of the target beyond `platform_load64`, and allocation sizes are left out.
The RISC-V build has no compiler (`HASHWX_COMPILER` is 0) and is the case `HasCompiler = FALSE`.
