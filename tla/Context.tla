------------------------------- MODULE Context -------------------------------
(***************************************************************************)
(* The library's interface: hashwx_alloc, hashwx_make, hashwx_exec and     *)
(* hashwx_free (src/hashwx.c, src/context.c), the code buffer they keep    *)
(* (src/compiler.c) and its page protection (src/virtual_memory.c), called *)
(* by several threads.  A step is a piece of a call between two points     *)
(* where memory can run out, a page protection can change or another       *)
(* thread can take notice.                                                 *)
(*                                                                         *)
(* The callers keep to include/hashwx.h: they pass pointers hashwx_alloc   *)
(* gave them, hash only with a context that was made, and do not call make *)
(* or free on a context another thread is using.  Any number of threads    *)
(* may hash with one context, which hashwx_exec takes as const.            *)
(***************************************************************************)
CONSTANTS
    Thread,
    Ctx,           \* addresses malloc can return for a hashwx_ctx
    Page,          \* regions mmap can return for a code buffer
    List,          \* addresses malloc can return for a hashwx_program_list
    Seed,
    Null,
    Garbage,       \* a byte nobody wrote since malloc
    Gone,          \* memory that is not allocated
    HasCompiler,   \* HASHWX_COMPILER
    Coherent       \* TRUE on x86: stores reach instruction fetch unaided

Types == {"INTERPRETED", "COMPILED"}

(* What the bytes of a hashwx_ctx and of a mapping can be.                 *)
Contexts ==
    [code : {Null} \cup Page \cup List, type : Types \cup {Garbage},
     key : Seed \cup {Garbage}, has_program : BOOLEAN \cup {Garbage}]
Buffers == [prot : {"rw", "rx"}, text : Seed \cup {Garbage}, fetch : SUBSET Seed]

ASSUME ContextAssumption ==
    /\ Null \notin Ctx \cup Page \cup List \cup Seed \cup {Garbage, Gone}
    /\ Garbage \notin Page \cup List \cup Seed \cup Types \cup {Gone}
    /\ Gone \notin Seed \cup Contexts \cup Buffers
    /\ Page \cap List = {}
    /\ HasCompiler \in BOOLEAN
    /\ Coherent \in BOOLEAN

VARIABLES
    ctx,       \* each context, or Gone
    page,      \* each code buffer, or Gone
    list,      \* the seed each program list was generated from, or Gone
    pc, at, want, seed, draw,   \* the call each thread is in, and its locals
    owned,     \* the contexts the callers hold
    made,      \* the seed of the last completed hashwx_make of each context
    failed,    \* the buffers whose last page_protect returned 0
    crashed    \* memory was used in a way the machine or the heap refuses

memory == <<ctx, page, list>>
call == <<pc, at, want, seed, draw>>
vars == <<memory, call, owned, made, failed, crashed>>

(* Mutant: the pointer is not cleared after malloc.                        *)
MutNewCtx == [code |-> Garbage, type |-> Garbage, key |-> Garbage, has_program |-> Garbage]

(* malloc's bytes are whatever they were; the first statement after malloc *)
(* clears the pointer.                                                     *)
NewCtx == [code |-> Null, type |-> Garbage, key |-> Garbage, has_program |-> Garbage]

(* A fresh mapping is readable and writable, and holds no program.         *)
NewPage == [prot |-> "rw", text |-> Garbage, fetch |-> {}]

Init ==
    /\ ctx = [c \in Ctx |-> Gone]
    /\ page = [p \in Page |-> Gone]
    /\ list = [l \in List |-> Gone]
    /\ pc = [t \in Thread |-> "idle"]
    /\ at = [t \in Thread |-> Null]
    /\ want = [t \in Thread |-> "INTERPRETED"]
    /\ seed = [t \in Thread |-> Null]
    /\ draw = [t \in Thread |-> Null]
    /\ owned = {}
    /\ made = [c \in Ctx |-> Null]
    /\ failed = {}
    /\ crashed = FALSE

Goto(t, label) == pc' = [pc EXCEPT ![t] = label]

(* The test of the type field; of an unwritten field it can go either way. *)
TypeTest(c) == IF ctx[c].type = Garbage THEN BOOLEAN ELSE {ctx[c].type = "COMPILED"}

-----------------------------------------------------------------------------
(* hashwx_alloc                                                            *)

(* Without a compiler the answer is HASHWX_NOTSUPP and nothing happens.    *)
Alloc(t) ==
    /\ pc[t] = "idle"
    /\ \E type \in Types :
          /\ HasCompiler \/ type = "INTERPRETED"
          /\ want' = [want EXCEPT ![t] = type]
    /\ Goto(t, "alloc")
    /\ UNCHANGED <<memory, at, seed, draw, owned, made, failed, crashed>>

AllocCtx(t) ==
    /\ pc[t] = "alloc"
    /\ \/ \E c \in Ctx :
             /\ ctx[c] = Gone
             /\ ctx' = [ctx EXCEPT ![c] = NewCtx]
             /\ at' = [at EXCEPT ![t] = c]
             /\ Goto(t, "alloc_code")
          /\ UNCHANGED want
       \/ /\ want' = [want EXCEPT ![t] = "INTERPRETED"]     \* out of memory
          /\ Goto(t, "idle")
          /\ UNCHANGED <<ctx, at>>
    /\ UNCHANGED <<page, list, seed, draw, owned, made, failed, crashed>>

(* hashwx_compiler_init or malloc gives the context its pointer, NULL when *)
(* it fails; only then is the type written.                                *)
AllocCode(t) ==
    LET c == at[t]
        Keep(pointer) ==
            /\ ctx' = [ctx EXCEPT ![c].code = pointer, ![c].type = want[t],
                                  ![c].has_program = FALSE]
            /\ want' = [want EXCEPT ![t] = "INTERPRETED"]
            /\ owned' = owned \cup {c}
            /\ made' = [made EXCEPT ![c] = Null]
            /\ at' = [at EXCEPT ![t] = Null]
            /\ Goto(t, "idle")
    IN  /\ pc[t] = "alloc_code"
        /\ \/ /\ want[t] = "COMPILED"
              /\ \E p \in Page :
                    /\ page[p] = Gone
                    /\ page' = [page EXCEPT ![p] = NewPage]
                    /\ Keep(p)
              /\ UNCHANGED list
           \/ /\ want[t] = "INTERPRETED"
              /\ \E l \in List :
                    /\ list[l] = Gone
                    /\ list' = [list EXCEPT ![l] = Garbage]
                    /\ Keep(l)
              /\ UNCHANGED page
           \/ /\ ctx' = [ctx EXCEPT ![c].code = Null]     \* out of memory
              /\ Goto(t, "free_code")
              /\ want' = [want EXCEPT ![t] = "INTERPRETED"]
              /\ UNCHANGED <<page, list, at, owned, made>>
        /\ UNCHANGED <<seed, draw, failed, crashed>>

-----------------------------------------------------------------------------
(* hashwx_free, also the failure path of hashwx_alloc                      *)

(* What the callers promise.                                               *)
Unused(c) == \A u \in Thread : at[u] # c

Free(t) ==
    /\ pc[t] = "idle"
    /\ \E c \in owned :
          /\ Unused(c)
          /\ owned' = owned \ {c}
          /\ at' = [at EXCEPT ![t] = c]
    /\ Goto(t, "free_code")
    /\ UNCHANGED <<memory, want, seed, draw, made, failed, crashed>>

(* munmap of a buffer or free of a list; of anything else, corruption.     *)
Release(pointer, compiled) ==
    IF compiled
    THEN IF pointer \in Page /\ page[pointer] # Gone
         THEN /\ page' = [page EXCEPT ![pointer] = Gone]
              /\ failed' = failed \ {pointer}
              /\ UNCHANGED <<list, crashed>>
         ELSE crashed' = TRUE /\ UNCHANGED <<page, list, failed>>
    ELSE IF pointer \in List /\ list[pointer] # Gone
         THEN list' = [list EXCEPT ![pointer] = Gone] /\ UNCHANGED <<page, failed, crashed>>
         ELSE crashed' = TRUE /\ UNCHANGED <<page, list, failed>>

(* Mutant: hashwx_free forgets the program list.                           *)
MutFreeCode(t) ==
    LET c == at[t]
    IN  /\ pc[t] = "free_code"
        /\ \/ /\ ctx[c].code # Null
              /\ TRUE \in TypeTest(c)
              /\ Release(ctx[c].code, TRUE)
           \/ /\ ctx[c].code = Null \/ FALSE \in TypeTest(c)
              /\ UNCHANGED <<page, list, failed, crashed>>
        /\ Goto(t, "free_ctx")
        /\ UNCHANGED <<ctx, at, want, seed, draw, owned, made>>

FreeCode(t) ==
    LET c == at[t]
    IN  /\ pc[t] = "free_code"
        /\ \/ /\ ctx[c].code # Null
              /\ \E compiled \in TypeTest(c) : Release(ctx[c].code, compiled)
           \/ ctx[c].code = Null /\ UNCHANGED <<page, list, failed, crashed>>
        /\ Goto(t, "free_ctx")
        /\ UNCHANGED <<ctx, at, want, seed, draw, owned, made>>

FreeCtx(t) ==
    /\ pc[t] = "free_ctx"
    /\ ctx' = [ctx EXCEPT ![at[t]] = Gone]
    /\ at' = [at EXCEPT ![t] = Null]
    /\ Goto(t, "idle")
    /\ UNCHANGED <<page, list, want, seed, draw, owned, made, failed, crashed>>

-----------------------------------------------------------------------------
(* hashwx_make                                                             *)

Make(t) ==
    /\ pc[t] = "idle"
    /\ \E c \in owned, s \in Seed :
          /\ Unused(c)
          /\ at' = [at EXCEPT ![t] = c]
          /\ seed' = [seed EXCEPT ![t] = s]
    /\ Goto(t, "make")
    /\ UNCHANGED <<memory, want, draw, owned, made, failed, crashed>>

Made(t) ==
    /\ made' = [made EXCEPT ![at[t]] = seed[t]]
    /\ at' = [at EXCEPT ![t] = Null]
    /\ seed' = [seed EXCEPT ![t] = Null]
    /\ Goto(t, "idle")

(* Mutant: a compiled context is declared after its compilation, that is,  *)
(* never.                                                                  *)
MutGenerate(t) ==
    LET c == at[t]
    IN  /\ pc[t] = "make"
        /\ \E compiled \in TypeTest(c) :
              /\ ctx' = [ctx EXCEPT ![c].key = seed[t],
                                    ![c].has_program = IF compiled THEN @ ELSE TRUE]
              /\ \/ compiled /\ Goto(t, "vm_rw") /\ UNCHANGED <<list, at, seed, made>>
                 \/ ~compiled /\ list' = [list EXCEPT ![ctx[c].code] = seed[t]] /\ Made(t)
        /\ UNCHANGED <<page, want, draw, owned, failed, crashed>>

(* initialize_program: an interpreted context generates into its list, a   *)
(* compiled one into the stack; the key is set, and the program declared,  *)
(* before the compiler runs.                                               *)
Generate(t) ==
    LET c == at[t]
    IN  /\ pc[t] = "make"
        /\ ctx' = [ctx EXCEPT ![c].key = seed[t], ![c].has_program = TRUE]
        /\ \E compiled \in TypeTest(c) :
              \/ compiled /\ Goto(t, "vm_rw") /\ UNCHANGED <<list, at, seed, made>>
              \/ ~compiled /\ list' = [list EXCEPT ![ctx[c].code] = seed[t]] /\ Made(t)
        /\ UNCHANGED <<page, want, draw, owned, failed, crashed>>

(* page_protect reports failure to hashwx_vm_rw and hashwx_vm_rx, which    *)
(* ignore it.                                                              *)
PageProtect(p, rules) ==
    \/ page' = [page EXCEPT ![p].prot = rules] /\ failed' = failed \ {p}
    \/ failed' = failed \cup {p} /\ UNCHANGED page

(* Mutant: the buffer is taken to be writable still.                       *)
MutVmRw(t) ==
    /\ pc[t] = "vm_rw"
    /\ Goto(t, "emit")
    /\ UNCHANGED <<memory, at, want, seed, draw, owned, made, failed, crashed>>

VmRw(t) ==
    /\ pc[t] = "vm_rw"
    /\ PageProtect(ctx[at[t]].code, "rw")
    /\ Goto(t, "emit")
    /\ UNCHANGED <<ctx, list, at, want, seed, draw, owned, made, crashed>>

(* The stores of hashwx_compile.  An instruction fetch may see the old or  *)
(* the new bytes until the cache is told, where caches are not coherent.   *)
Emit(t) ==
    LET p == ctx[at[t]].code
    IN  /\ pc[t] = "emit"
        /\ \/ /\ page[p].prot = "rw"
              /\ page' = [page EXCEPT
                            ![p].text = seed[t],
                            ![p].fetch = (IF Coherent THEN {} ELSE @) \cup {seed[t]}]
              /\ UNCHANGED crashed
           \/ page[p].prot # "rw" /\ crashed' = TRUE /\ UNCHANGED page
        /\ Goto(t, "vm_rx")
        /\ UNCHANGED <<ctx, list, at, want, seed, draw, owned, made, failed>>

(* Mutant: a protection that fails sends the thread back to the start.     *)
MutVmRx(t) ==
    /\ pc[t] = "vm_rx"
    /\ PageProtect(ctx[at[t]].code, "rx")
    /\ \/ ctx[at[t]].code \in failed' /\ Goto(t, "vm_rw")
       \/ ctx[at[t]].code \notin failed' /\ Goto(t, "clear_cache")
    /\ UNCHANGED <<ctx, list, at, want, seed, draw, owned, made, crashed>>

VmRx(t) ==
    /\ pc[t] = "vm_rx"
    /\ PageProtect(ctx[at[t]].code, "rx")
    /\ Goto(t, "clear_cache")
    /\ UNCHANGED <<ctx, list, at, want, seed, draw, owned, made, crashed>>

(* Mutant: the instruction cache is not told.                              *)
MutClearCache(t) ==
    /\ pc[t] = "clear_cache"
    /\ Made(t)
    /\ UNCHANGED <<memory, want, draw, owned, failed, crashed>>

(* __builtin___clear_cache of compiler_a64.c; nothing to do on x86.        *)
ClearCache(t) ==
    LET p == ctx[at[t]].code
    IN  /\ pc[t] = "clear_cache"
        /\ page' = [page EXCEPT ![p].fetch = {page[p].text}]
        /\ Made(t)
        /\ UNCHANGED <<ctx, list, want, draw, owned, failed, crashed>>

-----------------------------------------------------------------------------
(* hashwx_exec                                                             *)

Exec(t) ==
    /\ pc[t] = "idle"
    /\ \E c \in owned :
          /\ made[c] # Null
          /\ \A u \in Thread : at[u] = c => pc[u] \in {"exec", "run"}
          /\ at' = [at EXCEPT ![t] = c]
    /\ Goto(t, "exec")
    /\ UNCHANGED <<memory, want, seed, draw, owned, made, failed, crashed>>

(* The registers are drawn with the context's key.                         *)
DrawRegisters(t) ==
    /\ pc[t] = "exec"
    /\ draw' = [draw EXCEPT ![t] = ctx[at[t]].key]
    /\ Goto(t, "run")
    /\ UNCHANGED <<memory, at, want, seed, owned, made, failed, crashed>>

(* The call of ctx->func, or the interpretation of ctx->program_list.      *)
Run(t) ==
    LET c == at[t]
    IN  /\ pc[t] = "run"
        /\ \/ TRUE \in TypeTest(c) /\ page[ctx[c].code].prot # "rx" /\ crashed' = TRUE
           \/ TRUE \in TypeTest(c) /\ page[ctx[c].code].prot = "rx" /\ UNCHANGED crashed
           \/ FALSE \in TypeTest(c) /\ UNCHANGED crashed
        /\ at' = [at EXCEPT ![t] = Null]
        /\ draw' = [draw EXCEPT ![t] = Null]
        /\ Goto(t, "idle")
        /\ UNCHANGED <<memory, want, seed, owned, made, failed>>

-----------------------------------------------------------------------------
(* The rest of a call, once the thread has entered it.                     *)
Continue(t) ==
    /\ ~crashed
    /\ \/ AllocCtx(t) \/ AllocCode(t)
       \/ FreeCode(t) \/ FreeCtx(t)
       \/ Generate(t) \/ VmRw(t) \/ Emit(t) \/ VmRx(t) \/ ClearCache(t)
       \/ DrawRegisters(t) \/ Run(t)

Enter(t) == ~crashed /\ (Alloc(t) \/ Free(t) \/ Make(t) \/ Exec(t))

(* The process has died.                                                   *)
Crashed == crashed /\ UNCHANGED vars

Next == (\E t \in Thread : Enter(t) \/ Continue(t)) \/ Crashed

(* Threads are scheduled; they call the library when they like.            *)
Spec == Init /\ [][Next]_vars /\ \A t \in Thread : WF_vars(Continue(t))

-----------------------------------------------------------------------------
Labels == {"idle", "alloc", "alloc_code", "free_code", "free_ctx", "make", "vm_rw",
           "emit", "vm_rx", "clear_cache", "exec", "run"}

(* The type invariant.                                                     *)
TypeOK ==
    /\ ctx \in [Ctx -> {Gone} \cup Contexts]
    /\ page \in [Page -> {Gone} \cup Buffers]
    /\ list \in [List -> {Gone, Garbage} \cup Seed]
    /\ pc \in [Thread -> Labels]
    /\ at \in [Thread -> Ctx \cup {Null}]
    /\ want \in [Thread -> Types]
    /\ seed \in [Thread -> Seed \cup {Null}]
    /\ draw \in [Thread -> Seed \cup {Null}]
    /\ owned \subseteq Ctx
    /\ made \in [Ctx -> Seed \cup {Null}]
    /\ failed \subseteq Page
    /\ crashed \in BOOLEAN

(* A context's pointer is a code buffer or a program list of its own, what *)
(* its type says, and there is no other buffer or list: nothing leaks on   *)
(* the failure paths of hashwx_alloc, and nothing is freed while in use.   *)
Alive == {c \in Ctx : ctx[c] # Gone}
InHand == owned \cup {at[t] : t \in {u \in Thread : pc[u] \in {"alloc_code", "free_code", "free_ctx"}}}
WithCode == {c \in Alive : ctx[c].code # Null /\ \A t \in Thread : at[t] = c => pc[t] # "free_ctx"}

MemoryIsOwned ==
    ~crashed =>
        /\ Alive = InHand
        /\ {p \in Page : page[p] # Gone} \cup {l \in List : list[l] # Gone}
             = {ctx[c].code : c \in WithCode}
        /\ \A c, d \in WithCode : ctx[c].code = ctx[d].code => c = d
        /\ \A c \in WithCode :
              ctx[c].type = IF ctx[c].code \in Page THEN "COMPILED" ELSE "INTERPRETED"

(* The programs hashwx_exec may run: those a fetch may see, or the list.   *)
Runnable(c) ==
    IF ctx[c].type = "COMPILED"
    THEN IF page[ctx[c].code].prot = "rx" THEN page[ctx[c].code].fetch ELSE {}
    ELSE {list[ctx[c].code]}

(* hashwx_exec's assertion holds, and neither it nor hashwx_make decides   *)
(* anything on a field hashwx_alloc did not write.                         *)
ProgramDeclared ==
    \A t \in Thread :
        /\ pc[t] = "exec" => ctx[at[t]].has_program = TRUE
        /\ pc[t] \in {"make", "exec", "run"} => ctx[at[t]].type # Garbage

(* A fault has one possible cause: a page protection that failed, and that *)
(* virtual_memory.c kept to itself.                                        *)
FaultsAreProtection == crashed => failed # {}

(* Every call returns, unless a fault ends the process.                    *)
CallsReturn == \A t \in Thread : (pc[t] # "idle") ~> (pc[t] = "idle" \/ crashed)
=============================================================================
