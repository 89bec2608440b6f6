-------------------------------- MODULE JsGlue ---------------------------------
(***************************************************************************)
(* src/js/hashwx.js: the class through which a page, or through            *)
(* hashwx-em.js a C program built with Emscripten, uses hashwx.wasm.  The  *)
(* handles it gives out are indices of its table of instances; a compiled  *)
(* instance runs a side module made of the bytes hashwx_compile_wasm left. *)
(* JavaScript runs a call to its end, so a call is one step.               *)
(***************************************************************************)
EXTENDS Integers, FiniteSets, FiniteSetsExt

CONSTANTS
    Ctx,          \* addresses malloc can return in the linear memory
    Seed,
    HasCompiler,  \* HASHWX_COMPILER of the main module
    Gone, Garbage,     \* memory that is not allocated; that nobody wrote
    One, Hole,         \* what instances begins with; an element deleted
    Undefined,         \* no side module; the function after a make that threw
    Unmade, Nothing    \* of HashApi

Types == {"INTERPRETED", "COMPILED"}

(* What the objects of the table and the hashwx_ctx of the memory can be.  *)
Objects == [ctx : Ctx, is_compiled : BOOLEAN, side_module : Seed \cup {Undefined}]
Contexts == [type : Types, key : Seed \cup {Garbage}, text : Seed \cup {Garbage}]

ASSUME GlueAssumption ==
    /\ IsFiniteSet(Ctx)
    /\ HasCompiler \in BOOLEAN
    /\ One # Hole /\ {One, Hole} \cap Objects = {}
    /\ Gone \notin Contexts \cup Seed \cup {Unmade, Undefined}
    /\ {Unmade, Undefined, Garbage} \cap Seed = {}

NotSupp == -1      \* HASHWX_NOTSUPP, as JavaScript sees it

VARIABLES
    imports,       \* the main module is instantiated
    instances,     \* #instances, an array that grows
    ctx,           \* the linear memory: type, key and what was generated
    owned,         \* the handles the callers hold
    made,          \* what their last calls of hashwx_make came to
    answer         \* what the hash this step returned was made of

vars == <<imports, instances, ctx, owned, made, answer>>

(* Mutant: the table has no element that is not an instance.               *)
MutInit ==
    /\ imports = FALSE
    /\ instances = [i \in {} |-> One]
    /\ ctx = [c \in Ctx |-> Gone]
    /\ owned = {}
    /\ made = [h \in 0 .. Cardinality(Ctx) |-> Unmade]
    /\ answer = Nothing

Init ==
    /\ imports = FALSE
    /\ instances = [i \in {0} |-> One]
    /\ ctx = [c \in Ctx |-> Gone]
    /\ owned = {}
    /\ made = [h \in 0 .. Cardinality(Ctx) |-> Unmade]
    /\ answer = Nothing

(* Mutant: instances are always added at the end.                          *)
MutEnd == Cardinality(DOMAIN instances)

(* Where new_instance puts an object: in the first hole, or at the end.    *)
new_instance ==
    LET holes == {i \in DOMAIN instances : instances[i] = Hole}
    IN  IF holes = {} THEN Cardinality(DOMAIN instances) ELSE Min(holes)

free_instance(i) == instances' = [instances EXCEPT ![i] = Hole]

-----------------------------------------------------------------------------
(* The caller takes a handle that is positive for an instance.             *)
Alloc(type) ==
    LET i == new_instance
    IN  /\ HasCompiler \/ type = "INTERPRETED"
        /\ \E c \in Ctx :
              /\ ctx[c] = Gone
              /\ ctx' = [ctx EXCEPT ![c] =
                            [type |-> type, key |-> Garbage, text |-> Garbage]]
              /\ instances' = [k \in DOMAIN instances \cup {i} |->
                                  IF k # i THEN instances[k]
                                  ELSE [ctx |-> c, is_compiled |-> type = "COMPILED",
                                        side_module |-> Undefined]]
        /\ imports' = TRUE
        /\ owned' = owned \cup ({i} \ {0})
        /\ made' = [made EXCEPT ![i] = Unmade]
        /\ answer' = Nothing

(* The main module cannot be loaded, the type is not supported or memory   *)
(* runs out: the caller gets an exception, NotSupp or NULL.                *)
AllocFails ==
    /\ imports' \in {imports, TRUE}
    /\ answer' = Nothing
    /\ UNCHANGED <<instances, ctx, owned, made>>

(* hashwx_make of the main module; a compiled instance then has its module *)
(* made anew, unless the engine throws.                                    *)
Generated(c, s) == ctx' = [ctx EXCEPT ![c].key = s, ![c].text = s]

(* Mutant: a side module is made only if there is none.                    *)
MutSideModule(h, text) ==
    instances' = [instances EXCEPT ![h].side_module = IF @ = Undefined THEN text ELSE @]

SideModule(h, text) == instances' = [instances EXCEPT ![h].side_module = text]

Make(h, s) ==
    LET obj == instances[h]
    IN  /\ Generated(obj.ctx, s)
        /\ \/ obj.is_compiled /\ SideModule(h, ctx'[obj.ctx].text)
           \/ ~obj.is_compiled /\ UNCHANGED instances
        /\ made' = [made EXCEPT ![h] = s]
        /\ answer' = Nothing
        /\ UNCHANGED <<imports, owned>>

MakeThrows(h, s) ==
    /\ instances[h].is_compiled
    /\ Generated(instances[h].ctx, s)
    /\ made' = [made EXCEPT ![h] = Undefined]
    /\ answer' = Nothing
    /\ UNCHANGED <<imports, instances, owned>>

(* The callers hash with an instance whose make did not throw.  The main   *)
(* module would take the text of a compiled context for a program list.    *)
Exec(h) ==
    LET obj == instances[h]
        here == ctx[obj.ctx]
        program ==
            IF obj.is_compiled THEN obj.side_module
            ELSE IF here.type = "INTERPRETED" THEN here.text ELSE Garbage
    IN  /\ made[h] \in Seed
        /\ answer' = [handle |-> h, key |-> here.key, program |-> program]
        /\ UNCHANGED <<imports, instances, ctx, owned, made>>

(* Also of NULL and HASHWX_NOTSUPP, which name no object.                  *)
Free(h) ==
    /\ \/ /\ h \in DOMAIN instances /\ instances[h] \notin {One, Hole}
          /\ ctx' = [ctx EXCEPT ![instances[h].ctx] = Gone]
          /\ free_instance(h)
          /\ owned' = owned \ {h}
       \/ /\ h \in DOMAIN instances => instances[h] \in {One, Hole}
          /\ UNCHANGED <<ctx, instances, owned>>
    /\ answer' = Nothing
    /\ UNCHANGED <<imports, made>>

Next ==
    \/ \E type \in Types : Alloc(type)
    \/ AllocFails
    \/ \E h \in owned :
          \/ \E s \in Seed : Make(h, s) \/ MakeThrows(h, s)
          \/ Exec(h)
    \/ \E h \in owned \cup {0, NotSupp} : Free(h)

Spec == Init /\ [][Next]_vars

-----------------------------------------------------------------------------
(* The objects of the table are the handles the callers hold, each names a *)
(* context of its own, and there is no other context: a slot used again    *)
(* takes nothing from the handle of another caller, and nothing leaks.     *)
HandlesNameInstances ==
    /\ {i \in DOMAIN instances : instances[i] \notin {One, Hole}} = owned
    /\ {instances[h].ctx : h \in owned} = {c \in Ctx : ctx[c] # Gone}
    /\ \A g, h \in owned : instances[g].ctx = instances[h].ctx => g = h

(* Freed slots are used again: however often instances come and go, the    *)
(* table has no more slots than its first one and one for every context    *)
(* there is memory for.                                                    *)
SlotsReused == Cardinality(DOMAIN instances) <= 1 + Cardinality(Ctx)

Api == INSTANCE HashApi
    WITH Handle <- 1 .. Cardinality(Ctx), Absent <- Gone,
         func <- [h \in 1 .. Cardinality(Ctx) |-> IF h \in owned THEN made[h] ELSE Gone]

(* A hash is the one of the function its handle was last made, with the    *)
(* key and the program of that one make: the side module is the latest,    *)
(* and a make that threw is not hashed with.                               *)
ImplementsApi == Api!Spec
=============================================================================
