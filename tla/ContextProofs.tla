---------------------------- MODULE ContextProofs ----------------------------
(***************************************************************************)
(* Proofs about the library's interface, for any number of threads,        *)
(* contexts, code buffers, program lists and seeds.                        *)
(***************************************************************************)
EXTENDS ContextRefinement, TLAPS

-----------------------------------------------------------------------------
(* The inductive invariant.                                                *)

Outside == {"idle", "alloc"}
Compiling == {"vm_rw", "emit", "vm_rx", "clear_cache"}
Making == {"make"} \cup Compiling
Hashing == {"exec", "run"}
InOneHand == {"alloc_code", "free_code", "free_ctx"}

(* Where a thread is says what it holds: a context of its own, which no    *)
(* caller knows yet or any more, or one that callers hold.                 *)
PlacesKept ==
    \A t \in Thread :
        /\ pc[t] \in Outside <=> at[t] = Null
        /\ pc[t] \in InOneHand => at[t] \notin owned
        /\ pc[t] \in Making \cup Hashing => at[t] \in owned
        /\ pc[t] \in Making => seed[t] \in Seed
        /\ pc[t] \in Hashing => made[at[t]] \in Seed
        /\ pc[t] = "run" => draw[t] = made[at[t]]

(* Only hashing threads meet at a context.                                 *)
Apart ==
    \A t, u \in Thread :
        (t # u /\ at[t] = at[u] /\ at[t] # Null) => pc[t] \in Hashing

(* The contexts that are allocated.                                        *)
ContextsHeld ==
    \A c \in Ctx :
        ctx[c] # Gone <=> \/ c \in owned
                          \/ \E t \in Thread : pc[t] \in InOneHand /\ at[t] = c

(* The contexts whose pointer is a buffer or a list, each its own.         *)
HasCode(c) ==
    \/ c \in owned
    \/ \E t \in Thread : pc[t] = "free_code" /\ at[t] = c /\ ctx[c].code # Null
WellFormed(x) ==
    \/ x.code \in Page /\ x.type = "COMPILED" /\ page[x.code] # Gone
    \/ x.code \in List /\ x.type = "INTERPRETED" /\ list[x.code] # Gone

CodeHeld ==
    /\ \A c \in Ctx : HasCode(c) => WellFormed(ctx[c])
    /\ \A p \in Page : page[p] # Gone => \E c \in Ctx : HasCode(c) /\ ctx[c].code = p
    /\ \A l \in List : list[l] # Gone => \E c \in Ctx : HasCode(c) /\ ctx[c].code = l
    /\ \A c, d \in Ctx : (HasCode(c) /\ HasCode(d) /\ ctx[c].code = ctx[d].code) => c = d
    /\ \A t \in Thread : pc[t] = "alloc_code" => ctx[at[t]].code = Null

(* A context that was made, and is not being compiled, is of one seed.     *)
Executable(p) == page[p].prot = "rx" \/ p \in failed
Current ==
    \A c \in owned :
        made[c] \in Seed =>
            /\ ctx[c].has_program = TRUE
            /\ (\A t \in Thread : at[t] = c => pc[t] \notin Compiling) =>
                  /\ ctx[c].key = made[c]
                  /\ ctx[c].code \in List => list[ctx[c].code] = made[c]
                  /\ ctx[c].code \in Page => /\ page[ctx[c].code].fetch = {made[c]}
                                             /\ Executable(ctx[c].code)

(* How far the compilation of a context has come.                          *)
Compiled ==
    \A t \in Thread :
        /\ pc[t] \in Compiling => /\ ctx[at[t]].code \in Page
                                  /\ ctx[at[t]].key = seed[t]
                                  /\ ctx[at[t]].has_program = TRUE
        /\ pc[t] = "emit" => \/ page[ctx[at[t]].code].prot = "rw"
                             \/ ctx[at[t]].code \in failed
        /\ pc[t] \in {"vm_rx", "clear_cache"} => page[ctx[at[t]].code].text = seed[t]
        /\ pc[t] = "clear_cache" => Executable(ctx[at[t]].code)

IInv ==
    /\ TypeOK
    /\ FaultsAreProtection
    /\ ~crashed =>
          PlacesKept /\ Apart /\ ContextsHeld /\ CodeHeld /\ Current /\ Compiled

-----------------------------------------------------------------------------
(* What the invariant says of one thread and one context.                  *)

(* Nobody has hold of memory that is not allocated.                        *)
LEMMA Unseen ==
    ASSUME IInv, ~crashed, NEW c \in Ctx, ctx[c] = Gone
    PROVE  c \notin owned /\ \A u \in Thread : at[u] # c
<1>1. c \notin owned /\ \A u \in Thread : pc[u] \in InOneHand => at[u] # c
    BY DEF IInv, ContextsHeld
<1>2. \A u \in Thread : at[u] = c =>
          pc[u] \in InOneHand \/ pc[u] \in Making \cup Hashing
    BY ContextAssumption DEF IInv, TypeOK, Labels, PlacesKept,
       Outside, Compiling, Making, Hashing, InOneHand
<1> QED
    BY <1>1, <1>2 DEF IInv, PlacesKept

(* A context in one hand is no one else's.                                 *)
LEMMA OneHand ==
    ASSUME IInv, ~crashed, NEW t \in Thread, pc[t] \in InOneHand \cup Making
    PROVE  /\ at[t] \in Ctx
           /\ ctx[at[t]] \in Contexts
           /\ \A u \in Thread : at[u] = at[t] => u = t
<1>1. at[t] \in Ctx
    BY ContextAssumption DEF IInv, TypeOK, PlacesKept, Outside, Compiling, Making, InOneHand
<1>2. at[t] \in owned \/ pc[t] \in InOneHand
    BY DEF IInv, PlacesKept
<1>3. ctx[at[t]] # Gone
    BY <1>1, <1>2 DEF IInv, ContextsHeld
<1>4. ctx[at[t]] \in Contexts
    BY <1>1, <1>3 DEF IInv, TypeOK
<1>5. at[t] # Null /\ pc[t] \notin Hashing
    BY <1>1, ContextAssumption DEF Hashing, Compiling, Making, InOneHand
<1> QED
    BY <1>1, <1>4, <1>5 DEF IInv, Apart

(* The buffer a thread compiles into is the one of its context alone.      *)
LEMMA OwnBuffer ==
    ASSUME IInv, ~crashed, NEW t \in Thread, pc[t] \in Compiling
    PROVE  /\ at[t] \in owned
           /\ ctx[at[t]].code \in Page
           /\ page[ctx[at[t]].code] \in Buffers
           /\ seed[t] \in Seed
           /\ \A d \in Ctx : HasCode(d) /\ ctx[d].code = ctx[at[t]].code => d = at[t]
<1>1. at[t] \in owned /\ seed[t] \in Seed
    BY DEF IInv, PlacesKept, Making
<1>2. ctx[at[t]].code \in Page
    BY DEF IInv, Compiled
<1>3. at[t] \in Ctx /\ HasCode(at[t])
    BY <1>1 DEF IInv, TypeOK, HasCode
<1>4. WellFormed(ctx[at[t]])
    BY <1>3 DEF IInv, CodeHeld
<1>5. page[ctx[at[t]].code] # Gone
    BY <1>2, <1>4, ContextAssumption DEF WellFormed
<1>6. page[ctx[at[t]].code] \in Buffers
    BY <1>2, <1>5 DEF IInv, TypeOK
<1>7. \A d \in Ctx : HasCode(d) /\ ctx[d].code = ctx[at[t]].code => d = at[t]
    BY <1>3 DEF IInv, CodeHeld
<1> QED
    BY <1>1, <1>2, <1>6, <1>7

(* A context a caller holds, or that is being freed with its code, says    *)
(* by its type what its pointer is.                                        *)
LEMMA TypeTells ==
    ASSUME IInv, ~crashed, NEW c \in Ctx, HasCode(c)
    PROVE  /\ TypeTest(c) = {ctx[c].code \in Page}
           /\ ctx[c].code \in Page => ctx[c].type = "COMPILED" /\ page[ctx[c].code] # Gone
           /\ ctx[c].code \notin Page => /\ ctx[c].code \in List /\ ctx[c].type = "INTERPRETED"
                                         /\ list[ctx[c].code] # Gone
           /\ ctx[c].code # Null
<1>1. WellFormed(ctx[c])
    BY DEF IInv, CodeHeld
<1> QED
    BY <1>1, ContextAssumption DEF WellFormed, TypeTest, Types

-----------------------------------------------------------------------------
(* Every step keeps the invariant.  First the steps of hashwx_alloc.       *)

LEMMA AllocCtxStep ==
    ASSUME IInv, ~crashed, NEW t \in Thread, AllocCtx(t)
    PROVE  IInv'
<1> USE ContextAssumption DEF AllocCtx, Goto, memory
<1>a. TypeOK'
    BY DEF IInv, TypeOK, Labels, Types, Contexts, NewCtx
<1>b. FaultsAreProtection'
    BY DEF IInv, FaultsAreProtection
<1>1. ASSUME NEW c \in Ctx, ctx[c] = Gone,
             ctx' = [ctx EXCEPT ![c] = NewCtx],
             at' = [at EXCEPT ![t] = c],
             Goto(t, "alloc_code")
      PROVE  PlacesKept' /\ Apart' /\ ContextsHeld' /\ CodeHeld' /\ Current' /\ Compiled'
    <2>1. c \notin owned /\ \A u \in Thread : at[u] # c
        BY <1>1, Unseen
    <2>2. /\ at \in [Thread -> Ctx \cup {Null}] /\ pc \in [Thread -> Labels]
          /\ ctx \in [Ctx -> {Gone} \cup Contexts] /\ owned \subseteq Ctx
        BY DEF IInv, TypeOK
    <2>3. /\ at'[t] = c /\ pc'[t] = "alloc_code" /\ pc[t] = "alloc"
          /\ \A u \in Thread \ {t} : at'[u] = at[u] /\ pc'[u] = pc[u]
        BY <1>1, <2>2
    <2>4. /\ ctx'[c] = NewCtx /\ \A d \in Ctx \ {c} : ctx'[d] = ctx[d]
        BY <1>1, <2>2
    <2>5. PlacesKept'
        BY <2>1, <2>2, <2>3 DEF IInv, PlacesKept, Outside, Compiling, Making, Hashing, InOneHand
    <2>6. Apart'
        BY <2>1, <2>3 DEF IInv, Apart
    <2>7. ContextsHeld'
        <3>1. NewCtx # Gone
            BY DEF NewCtx, Contexts
        <3>2. \A u \in Thread : at[u] # c /\ pc[t] \notin InOneHand
            BY <2>1, <2>3 DEF InOneHand
        <3>3. ASSUME NEW d \in Ctx \ {c}
              PROVE  (\E u \in Thread : pc[u] \in InOneHand /\ at[u] = d)
                        <=> (\E u \in Thread : pc'[u] \in InOneHand /\ at'[u] = d)
            BY <2>3, <3>2
        <3>4. \E u \in Thread : pc'[u] \in InOneHand /\ at'[u] = c
            BY <2>3 DEF InOneHand
        <3> QED
            BY <2>4, <3>1, <3>3, <3>4 DEF IInv, ContextsHeld
    <2>8. \A d \in Ctx : HasCode(d)' <=> HasCode(d)
        BY <2>1, <2>3, <2>4 DEF HasCode
    <2>9. ~HasCode(c)
        BY <2>1 DEF HasCode
    <2>10. CodeHeld'
        <3>1. \A d \in Ctx : HasCode(d) => ctx'[d] = ctx[d]
            BY <2>4, <2>9
        <3>2. \A u \in Thread : pc'[u] = "alloc_code" => ctx'[at'[u]].code = Null
            <4>1. ASSUME NEW u \in Thread \ {t}, pc[u] = "alloc_code"
                  PROVE  ctx'[at'[u]].code = Null
                <5>1. at[u] \in Ctx \ {c}
                    BY <2>1, <4>1, OneHand DEF InOneHand
                <5> QED
                    BY <2>3, <2>4, <4>1, <5>1 DEF IInv, CodeHeld
            <4>2. ctx'[at'[t]].code = Null
                BY <2>3, <2>4 DEF NewCtx
            <4> QED
                BY <2>3, <4>1, <4>2
        <3> QED
            BY <2>8, <3>1, <3>2 DEF IInv, CodeHeld, WellFormed
    <2>11. Current'
        BY <2>1, <2>2, <2>3, <2>4 DEF IInv, Current, Executable, Compiling
    <2>12. Compiled'
        <3>1. \A u \in Thread : pc'[u] \in Compiling => at'[u] = at[u] /\ pc'[u] = pc[u] /\ ctx'[at[u]] = ctx[at[u]]
            BY <2>1, <2>2, <2>3, <2>4, OwnBuffer DEF Compiling
        <3> QED
            BY <3>1 DEF IInv, Compiled, Executable, Compiling
    <2> QED
        BY <2>5, <2>6, <2>7, <2>10, <2>11, <2>12
<1>2. ASSUME Goto(t, "idle"), UNCHANGED <<ctx, at>>
      PROVE  PlacesKept' /\ Apart' /\ ContextsHeld' /\ CodeHeld' /\ Current' /\ Compiled'
    <2>1. /\ pc \in [Thread -> Labels] /\ pc[t] = "alloc" /\ pc'[t] = "idle"
          /\ \A u \in Thread \ {t} : pc'[u] = pc[u]
        BY <1>2 DEF IInv, TypeOK
    <2>2. PlacesKept'
        BY <1>2, <2>1 DEF IInv, PlacesKept, Outside, Compiling, Making, Hashing, InOneHand
    <2>3. Apart' /\ ContextsHeld'
        BY <1>2, <2>1 DEF IInv, Apart, ContextsHeld, Hashing, InOneHand
    <2>4. CodeHeld'
        BY <1>2, <2>1 DEF IInv, CodeHeld, HasCode, WellFormed
    <2>5. Current' /\ Compiled'
        BY <1>2, <2>1 DEF IInv, Current, Compiled, Executable, Compiling
    <2> QED
        BY <2>2, <2>3, <2>4, <2>5
<1> QED
    BY <1>a, <1>b, <1>1, <1>2 DEF IInv

LEMMA AllocCodeStep ==
    ASSUME IInv, ~crashed, NEW t \in Thread, AllocCode(t)
    PROVE  IInv'
<1>0. PICK c \in Ctx : c = at[t]
    BY OneHand DEF AllocCode, InOneHand
<1>1. pc[t] = "alloc_code" /\ crashed' = crashed /\ seed' = seed /\ draw' = draw /\ failed' = failed
    BY DEF AllocCode
<1>2. /\ ctx[c] \in Contexts /\ c \notin owned
      /\ \A u \in Thread : at[u] = c => u = t
      /\ ctx[c].code = Null
    BY <1>0, <1>1, OneHand DEF InOneHand, IInv, PlacesKept, CodeHeld
<1>3. ~HasCode(c)
    BY <1>0, <1>1, <1>2 DEF HasCode
<1>4. /\ at \in [Thread -> Ctx \cup {Null}] /\ pc \in [Thread -> Labels]
      /\ ctx \in [Ctx -> {Gone} \cup Contexts] /\ owned \subseteq Ctx
      /\ page \in [Page -> {Gone} \cup Buffers] /\ list \in [List -> {Gone, Garbage} \cup Seed]
      /\ want \in [Thread -> Types] /\ made \in [Ctx -> Seed \cup {Null}]
    BY DEF IInv, TypeOK
(* The buffer or the list is had.                                          *)
<1>5. ASSUME NEW pointer,
             \/ /\ pointer \in Page /\ page[pointer] = Gone /\ want[t] = "COMPILED"
                /\ page' = [page EXCEPT ![pointer] = NewPage] /\ list' = list
             \/ /\ pointer \in List /\ list[pointer] = Gone /\ want[t] = "INTERPRETED"
                /\ list' = [list EXCEPT ![pointer] = Garbage] /\ page' = page,
             ctx' = [ctx EXCEPT ![c].code = pointer, ![c].type = want[t],
                                ![c].has_program = FALSE],
             want' = [want EXCEPT ![t] = "INTERPRETED"],
             owned' = owned \cup {c},
             made' = [made EXCEPT ![c] = Null],
             at' = [at EXCEPT ![t] = Null],
             Goto(t, "idle")
      PROVE  IInv'
    <2>1. /\ pointer \in Page \/ pointer \in List
          /\ ctx'[c] \in Contexts /\ ctx'[c].code = pointer
          /\ ctx'[c].type = want[t] /\ ctx'[c].has_program = FALSE
          /\ \A d \in Ctx \ {c} : ctx'[d] = ctx[d]
        BY <1>2, <1>4, <1>5 DEF Contexts, Types
    <2>2. /\ at'[t] = Null /\ pc'[t] = "idle"
          /\ \A u \in Thread \ {t} : at'[u] = at[u] /\ pc'[u] = pc[u] /\ at[u] # c
        BY <1>0, <1>2, <1>4, <1>5 DEF Goto
    <2>3. made'[c] = Null /\ \A d \in Ctx \ {c} : made'[d] = made[d]
        BY <1>2, <1>4, <1>5
    <2>4. NewPage \in Buffers /\ NewPage # Gone /\ Garbage # Gone
        BY ContextAssumption DEF NewPage, Buffers
    <2>5. TypeOK'
        <3>1. /\ page' \in [Page -> {Gone} \cup Buffers]
              /\ list' \in [List -> {Gone, Garbage} \cup Seed]
            BY <1>4, <1>5, <2>4
        <3>2. ctx' \in [Ctx -> {Gone} \cup Contexts]
            BY <1>2, <1>4, <1>5, <2>1
        <3> QED
            BY <1>1, <1>2, <1>4, <1>5, <3>1, <3>2 DEF IInv, TypeOK, Goto, Labels, Types
    <2>6. FaultsAreProtection'
        BY <1>1 DEF IInv, FaultsAreProtection
    <2>7. PlacesKept'
        <3>1. PlacesKept!(t)'
            BY <2>2, ContextAssumption DEF Outside, Compiling, Making, Hashing, InOneHand
        <3>2. ASSUME NEW u \in Thread \ {t} PROVE PlacesKept!(u)'
            <4>1. at[u] \in Ctx => made'[at[u]] = made[at[u]]
                BY <2>2, <2>3
            <4>2. at[u] \in owned <=> at[u] \in owned'
                BY <1>5, <2>2
            <4>3. pc[u] \in Hashing => at[u] \in Ctx
                BY <1>4 DEF IInv, PlacesKept
            <4> QED
                BY <1>1, <2>2, <4>1, <4>2, <4>3 DEF IInv, PlacesKept, Hashing
        <3> QED
            BY <3>1, <3>2 DEF PlacesKept
    <2>8. Apart'
        BY <2>2 DEF IInv, Apart
    <2>9. ContextsHeld'
        <3>1. ctx'[c] # Gone /\ c \in owned'
            BY <1>5, <2>1, ContextAssumption
        <3>2. \A d \in Ctx \ {c} : (\E u \in Thread : pc[u] \in InOneHand /\ at[u] = d)
                                      <=> (\E u \in Thread : pc'[u] \in InOneHand /\ at'[u] = d)
            BY <1>0, <2>2, ContextAssumption DEF InOneHand
        <3> QED
            BY <1>5, <2>1, <3>1, <3>2 DEF IInv, ContextsHeld
    <2>10. HasCode(c)' /\ \A d \in Ctx \ {c} : HasCode(d)' <=> HasCode(d)
        <3>1. c \in owned'
            BY <1>5
        <3>2. ASSUME NEW d \in Ctx \ {c} PROVE HasCode(d)' <=> HasCode(d)
            <4>1. (d \in owned' <=> d \in owned) /\ ctx'[d].code = ctx[d].code
                BY <1>5, <2>1
            <4>2. \A u \in Thread : (pc'[u] = "free_code" /\ at'[u] = d)
                                        <=> (pc[u] = "free_code" /\ at[u] = d)
                BY <1>0, <1>1, <2>2, ContextAssumption
            <4> QED
                BY <4>1, <4>2 DEF HasCode
        <3> QED
            BY <3>1, <3>2 DEF HasCode
    <2>11. \A d \in Ctx : HasCode(d) => d # c /\ WellFormed(ctx[d]) /\ ctx[d].code # pointer
        BY <1>3, <1>5, TypeTells, ContextAssumption DEF IInv, CodeHeld
    <2>12. CodeHeld'
        <3>1. WellFormed(ctx[c])'
            BY <1>4, <1>5, <2>1, <2>4 DEF WellFormed
        <3>2. \A d \in Ctx : HasCode(d) => WellFormed(ctx[d])'
            BY <1>4, <1>5, <2>1, <2>11 DEF WellFormed
        <3>3. \A p \in Page : page'[p] # Gone => p = pointer \/ page[p] # Gone
            BY <1>4, <1>5
        <3>4. \A l \in List : list'[l] # Gone => l = pointer \/ list[l] # Gone
            BY <1>4, <1>5
        <3>5. \A u \in Thread : pc'[u] = "alloc_code" => ctx'[at'[u]].code = Null
            BY <2>1, <2>2, OneHand DEF IInv, CodeHeld, InOneHand
        <3>6. \A p \in Page : page'[p] # Gone => \E d \in Ctx : HasCode(d)' /\ ctx'[d].code = p
            BY <1>2, <2>1, <2>10, <2>11, <3>3 DEF IInv, CodeHeld
        <3>7. \A l \in List : list'[l] # Gone => \E d \in Ctx : HasCode(d)' /\ ctx'[d].code = l
            BY <1>2, <2>1, <2>10, <2>11, <3>4 DEF IInv, CodeHeld
        <3>8. \A d, e \in Ctx : (HasCode(d)' /\ HasCode(e)' /\ ctx'[d].code = ctx'[e].code) => d = e
            BY <2>1, <2>10, <2>11 DEF IInv, CodeHeld
        <3> QED
            BY <2>10, <3>1, <3>2, <3>5, <3>6, <3>7, <3>8 DEF CodeHeld
    <2>13. Current'
        <3>1. \A d \in owned : /\ d \in Ctx \ {c} /\ HasCode(d) /\ ctx[d].code # pointer
                               /\ made'[d] = made[d] /\ ctx'[d] = ctx[d]
            BY <1>2, <1>4, <2>1, <2>3, <2>11 DEF HasCode
        <3>2. \A q : q # pointer /\ q \in List => list'[q] = list[q]
            BY <1>4, <1>5
        <3>3. \A q : q # pointer /\ q \in Page => page'[q] = page[q]
            BY <1>4, <1>5
        <3>4. made'[c] \notin Seed
            BY <2>3, ContextAssumption
        <3>5. \A d \in owned : (\A u \in Thread : at'[u] = d => pc'[u] \notin Compiling)
                                  => (\A u \in Thread : at[u] = d => pc[u] \notin Compiling)
            <4>1. pc[t] \notin Compiling
                BY <1>1 DEF Compiling
            <4>2. ASSUME NEW u \in Thread, pc[u] \in Compiling
                  PROVE  at'[u] = at[u] /\ pc'[u] = pc[u]
                <5>1. u \in Thread \ {t}
                    BY <4>1, <4>2
                <5> QED
                    BY <2>2, <5>1
            <4> QED
                BY <4>2
        <3>6. ASSUME NEW d \in owned PROVE Current!(d)'
            <4>1. ctx[d].code \in List => list'[ctx[d].code] = list[ctx[d].code]
                BY <3>1, <3>2
            <4>2. ctx[d].code \in Page => page'[ctx[d].code] = page[ctx[d].code]
                BY <3>1, <3>3
            <4>3. Current!(d)
                BY DEF IInv, Current
            <4> QED
                BY <1>1, <3>1, <3>5, <4>1, <4>2, <4>3 DEF Executable
        <3> QED
            BY <1>5, <3>4, <3>6 DEF Current
    <2>14. Compiled'
        <3>1. \A u \in Thread : pc'[u] \in Compiling =>
                  /\ at'[u] = at[u] /\ pc'[u] = pc[u] /\ ctx'[at[u]] = ctx[at[u]]
                  /\ ctx[at[u]].code \in Page /\ page'[ctx[at[u]].code] = page[ctx[at[u]].code]
            <4>1. SUFFICES ASSUME NEW u \in Thread, pc'[u] \in Compiling
                           PROVE  /\ at'[u] = at[u] /\ pc'[u] = pc[u] /\ ctx'[at[u]] = ctx[at[u]]
                                  /\ ctx[at[u]].code \in Page
                                  /\ page'[ctx[at[u]].code] = page[ctx[at[u]].code]
                OBVIOUS
            <4>2. u # t
                BY <2>2, <4>1 DEF Compiling
            <4>3. at[u] \in Ctx \ {c} /\ HasCode(at[u]) /\ ctx[at[u]].code \in Page
                BY <1>4, <2>2, <4>1, <4>2, OwnBuffer DEF HasCode
            <4> QED
                BY <1>4, <1>5, <2>1, <2>2, <2>11, <4>2, <4>3
        <3> QED
            BY <1>1, <3>1 DEF IInv, Compiled, Executable, Compiling
    <2> QED
        BY <2>5, <2>6, <2>7, <2>8, <2>9, <2>12, <2>13, <2>14 DEF IInv
(* Memory has run out.                                                     *)
<1>6. ASSUME ctx' = [ctx EXCEPT ![c].code = Null],
             Goto(t, "free_code"),
             want' = [want EXCEPT ![t] = "INTERPRETED"],
             UNCHANGED <<page, list, at, owned, made>>
      PROVE  IInv'
    <2>1. ctx' = ctx
        BY <1>2, <1>4, <1>6 DEF Contexts
    <2>2. /\ pc'[t] = "free_code"
          /\ \A u \in Thread \ {t} : pc'[u] = pc[u]
        BY <1>4, <1>6 DEF Goto
    <2>3. TypeOK'
        BY <1>1, <1>4, <1>6, <2>1 DEF IInv, TypeOK, Goto, Labels, Types
    <2>4. FaultsAreProtection'
        BY <1>1 DEF IInv, FaultsAreProtection
    <2>5. PlacesKept' /\ Apart'
        BY <1>0, <1>1, <1>2, <1>6, <2>2
        DEF IInv, PlacesKept, Apart, Outside, Compiling, Making, Hashing, InOneHand
    <2>6. ContextsHeld'
        BY <1>1, <1>6, <2>1, <2>2 DEF IInv, ContextsHeld, InOneHand
    <2>7. \A d \in Ctx : HasCode(d)' <=> HasCode(d)
        BY <1>0, <1>1, <1>2, <1>6, <2>1, <2>2 DEF HasCode
    <2>8. CodeHeld'
        <3>1. \A u \in Thread : pc'[u] = "alloc_code" => pc[u] = "alloc_code"
            BY <2>2
        <3> QED
            BY <1>6, <2>1, <2>7, <3>1 DEF IInv, CodeHeld, WellFormed
    <2>9. \A u \in Thread : \A label \in Compiling : pc'[u] = label <=> pc[u] = label
        BY <1>1, <2>2 DEF Compiling
    <2>10. Current'
        <3>1. \A u \in Thread : pc'[u] \in Compiling <=> pc[u] \in Compiling
            BY <2>9
        <3> QED
            BY <1>1, <1>6, <2>1, <3>1 DEF IInv, Current, Executable
    <2>11. Compiled'
        BY <1>1, <1>6, <2>1, <2>9 DEF IInv, Compiled, Executable, Compiling
    <2> QED
        BY <2>3, <2>4, <2>5, <2>6, <2>8, <2>10, <2>11 DEF IInv
<1>7. QED
    BY <1>0, <1>5, <1>6 DEF AllocCode

LEMMA AllocStep ==
    ASSUME IInv, ~crashed, NEW t \in Thread, Alloc(t)
    PROVE  IInv'
<1> USE ContextAssumption DEF Alloc, Goto, memory
<1>1. TypeOK'
    BY DEF IInv, TypeOK, Labels, Types, Contexts, Buffers
<1>2. FaultsAreProtection'
    BY DEF IInv, FaultsAreProtection, TypeOK, CodeHeld, Compiled, Current, HasCode, WellFormed, Executable, PlacesKept, Outside, Compiling, Making, Hashing, InOneHand
<1>3. PlacesKept'
    BY DEF IInv, TypeOK, PlacesKept, Apart, Outside, Compiling, Making, Hashing, InOneHand
<1>4. Apart'
    BY DEF IInv, TypeOK, PlacesKept, Apart, Outside, Compiling, Making, Hashing, InOneHand
<1>5. ContextsHeld'
    BY DEF IInv, TypeOK, PlacesKept, Apart, ContextsHeld, Outside, Compiling, Making, Hashing, InOneHand
<1>6. CodeHeld'
    BY DEF IInv, TypeOK, PlacesKept, Apart, ContextsHeld, CodeHeld, HasCode, WellFormed, Outside, Compiling, Making, Hashing, InOneHand
<1>7. Current'
    BY DEF IInv, TypeOK, PlacesKept, Apart, ContextsHeld, CodeHeld, HasCode, WellFormed, Current, Compiled, Executable, Outside, Compiling, Making, Hashing, InOneHand
<1>8. Compiled'
    BY DEF IInv, TypeOK, PlacesKept, Apart, ContextsHeld, CodeHeld, HasCode, WellFormed, Current, Compiled, Executable, Outside, Compiling, Making, Hashing, InOneHand
<1>9. QED
    BY <1>1, <1>2, <1>3, <1>4, <1>5, <1>6, <1>7, <1>8 DEF IInv

LEMMA FreeStep ==
    ASSUME IInv, ~crashed, NEW t \in Thread, Free(t)
    PROVE  IInv'
<1> USE ContextAssumption DEF Free, Goto, memory, Unused
<1>1. TypeOK'
    BY DEF IInv, TypeOK, Labels, Types, Contexts, Buffers
<1>2. FaultsAreProtection'
    BY DEF IInv, FaultsAreProtection, TypeOK, CodeHeld, Compiled, Current, HasCode, WellFormed, Executable, PlacesKept, Outside, Compiling, Making, Hashing, InOneHand
<1>3. PlacesKept'
    BY DEF IInv, TypeOK, PlacesKept, Apart, Outside, Compiling, Making, Hashing, InOneHand
<1>4. Apart'
    BY DEF IInv, TypeOK, PlacesKept, Apart, Outside, Compiling, Making, Hashing, InOneHand
<1>5. ContextsHeld'
    BY DEF IInv, TypeOK, PlacesKept, Apart, ContextsHeld, Outside, Compiling, Making, Hashing, InOneHand
<1>6. CodeHeld'
    BY DEF IInv, TypeOK, PlacesKept, Apart, ContextsHeld, CodeHeld, HasCode, WellFormed, Outside, Compiling, Making, Hashing, InOneHand
<1>7. Current'
    BY DEF IInv, TypeOK, PlacesKept, Apart, ContextsHeld, CodeHeld, HasCode, WellFormed, Current, Compiled, Executable, Outside, Compiling, Making, Hashing, InOneHand
<1>8. Compiled'
    BY DEF IInv, TypeOK, PlacesKept, Apart, ContextsHeld, CodeHeld, HasCode, WellFormed, Current, Compiled, Executable, Outside, Compiling, Making, Hashing, InOneHand
<1>9. QED
    BY <1>1, <1>2, <1>3, <1>4, <1>5, <1>6, <1>7, <1>8 DEF IInv

LEMMA MakeStep ==
    ASSUME IInv, ~crashed, NEW t \in Thread, Make(t)
    PROVE  IInv'
<1> USE ContextAssumption DEF Make, Goto, memory, Unused
<1>1. TypeOK'
    BY DEF IInv, TypeOK, Labels, Types, Contexts, Buffers
<1>2. FaultsAreProtection'
    BY DEF IInv, FaultsAreProtection, TypeOK, CodeHeld, Compiled, Current, HasCode, WellFormed, Executable, PlacesKept, Outside, Compiling, Making, Hashing, InOneHand
<1>3. PlacesKept'
    BY DEF IInv, TypeOK, PlacesKept, Apart, Outside, Compiling, Making, Hashing, InOneHand
<1>4. Apart'
    BY DEF IInv, TypeOK, PlacesKept, Apart, Outside, Compiling, Making, Hashing, InOneHand
<1>5. ContextsHeld'
    BY DEF IInv, TypeOK, PlacesKept, Apart, ContextsHeld, Outside, Compiling, Making, Hashing, InOneHand
<1>6. CodeHeld'
    BY DEF IInv, TypeOK, PlacesKept, Apart, ContextsHeld, CodeHeld, HasCode, WellFormed, Outside, Compiling, Making, Hashing, InOneHand
<1>7. Current'
    BY DEF IInv, TypeOK, PlacesKept, Apart, ContextsHeld, CodeHeld, HasCode, WellFormed, Current, Compiled, Executable, Outside, Compiling, Making, Hashing, InOneHand
<1>8. Compiled'
    BY DEF IInv, TypeOK, PlacesKept, Apart, ContextsHeld, CodeHeld, HasCode, WellFormed, Current, Compiled, Executable, Outside, Compiling, Making, Hashing, InOneHand
<1>9. QED
    BY <1>1, <1>2, <1>3, <1>4, <1>5, <1>6, <1>7, <1>8 DEF IInv

LEMMA ExecStep ==
    ASSUME IInv, ~crashed, NEW t \in Thread, Exec(t)
    PROVE  IInv'
<1> USE ContextAssumption DEF Exec, Goto, memory
<1>1. TypeOK'
    BY DEF IInv, TypeOK, Labels, Types, Contexts, Buffers
<1>2. FaultsAreProtection'
    BY DEF IInv, FaultsAreProtection, TypeOK, CodeHeld, Compiled, Current, HasCode, WellFormed, Executable, PlacesKept, Outside, Compiling, Making, Hashing, InOneHand
<1>3. PlacesKept'
    BY DEF IInv, TypeOK, PlacesKept, Apart, Outside, Compiling, Making, Hashing, InOneHand
<1>4. Apart'
    BY DEF IInv, TypeOK, PlacesKept, Apart, Outside, Compiling, Making, Hashing, InOneHand
<1>5. ContextsHeld'
    BY DEF IInv, TypeOK, PlacesKept, Apart, ContextsHeld, Outside, Compiling, Making, Hashing, InOneHand
<1>6. CodeHeld'
    BY DEF IInv, TypeOK, PlacesKept, Apart, ContextsHeld, CodeHeld, HasCode, WellFormed, Outside, Compiling, Making, Hashing, InOneHand
<1>7. Current'
    BY DEF IInv, TypeOK, PlacesKept, Apart, ContextsHeld, CodeHeld, HasCode, WellFormed, Current, Compiled, Executable, Outside, Compiling, Making, Hashing, InOneHand
<1>8. Compiled'
    BY DEF IInv, TypeOK, PlacesKept, Apart, ContextsHeld, CodeHeld, HasCode, WellFormed, Current, Compiled, Executable, Outside, Compiling, Making, Hashing, InOneHand
<1>9. QED
    BY <1>1, <1>2, <1>3, <1>4, <1>5, <1>6, <1>7, <1>8 DEF IInv

LEMMA FreeCodeStep ==
    ASSUME IInv, ~crashed, NEW t \in Thread, FreeCode(t)
    PROVE  IInv'
<1>0. PICK c \in Ctx : c = at[t]
    BY OneHand DEF FreeCode, InOneHand
<1>1. pc[t] = "free_code" /\ UNCHANGED <<ctx, at, want, seed, draw, owned, made>>
    BY DEF FreeCode
<1>2. ctx[c] \in Contexts /\ c \notin owned /\ \A u \in Thread : at[u] = c => u = t
    BY <1>0, <1>1, OneHand DEF InOneHand, IInv, PlacesKept
<1>3. /\ at \in [Thread -> Ctx \cup {Null}] /\ pc \in [Thread -> Labels]
      /\ owned \subseteq Ctx /\ failed \subseteq Page
      /\ page \in [Page -> {Gone} \cup Buffers] /\ list \in [List -> {Gone, Garbage} \cup Seed]
    BY DEF IInv, TypeOK
<1>4. pc'[t] = "free_ctx" /\ \A u \in Thread \ {t} : pc'[u] = pc[u]
    BY <1>3 DEF FreeCode, Goto
<1>5. HasCode(c) <=> ctx[c].code # Null
    BY <1>0, <1>1, <1>2 DEF HasCode
<1>6. \A d \in Ctx : HasCode(d)' <=> HasCode(d) /\ d # c
    BY <1>0, <1>1, <1>2, <1>4 DEF HasCode
(* The pointer is what the type says: its memory is released, no other.    *)
<1>7. /\ crashed' = crashed
      /\ ctx[c].code # Null => \/ /\ ctx[c].code \in Page /\ list' = list
                                  /\ page' = [page EXCEPT ![ctx[c].code] = Gone]
                                  /\ failed' = failed \ {ctx[c].code}
                               \/ /\ ctx[c].code \in List /\ page' = page /\ failed' = failed
                                  /\ list' = [list EXCEPT ![ctx[c].code] = Gone]
      /\ ctx[c].code = Null => UNCHANGED <<page, list, failed>>
    <2>1. CASE ctx[c].code = Null
        BY <1>0, <2>1 DEF FreeCode
    <2>2. CASE ctx[c].code # Null
        <3>1. HasCode(c)
            BY <1>5, <2>2
        <3>2. Release(ctx[c].code, ctx[c].code \in Page)
            BY <1>0, <2>2, <3>1, TypeTells DEF FreeCode
        <3>3. \/ ctx[c].code \in Page /\ page[ctx[c].code] # Gone
              \/ ctx[c].code \notin Page /\ ctx[c].code \in List /\ list[ctx[c].code] # Gone
            BY <3>1, TypeTells
        <3> QED
            BY <2>2, <3>2, <3>3 DEF Release
    <2> QED
        BY <2>1, <2>2
<1>8. \A d \in Ctx : HasCode(d) /\ d # c => /\ ctx[d].code # ctx[c].code
                                            /\ ctx[d].code \in Page \cup List
    BY <1>5, TypeTells DEF IInv, CodeHeld
<1>9. \A q : q # ctx[c].code => /\ q \in Page => page'[q] = page[q] /\ (q \in failed' <=> q \in failed)
                                /\ q \in List => list'[q] = list[q]
    BY <1>3, <1>7
<1>10. TypeOK'
    <2>1. /\ page' \in [Page -> {Gone} \cup Buffers] /\ failed' \subseteq Page
          /\ list' \in [List -> {Gone, Garbage} \cup Seed]
        BY <1>3, <1>7
    <2> QED
        BY <1>1, <1>3, <1>7, <2>1 DEF IInv, TypeOK, FreeCode, Goto, Labels
<1>11. FaultsAreProtection'
    BY <1>7 DEF FaultsAreProtection
<1>12. PlacesKept'
    BY <1>0, <1>1, <1>2, <1>3, <1>4, ContextAssumption
    DEF IInv, PlacesKept, Outside, Compiling, Making, Hashing, InOneHand
<1>13. Apart' /\ ContextsHeld'
    <2>1. \A u \in Thread : /\ pc'[u] \in Hashing <=> pc[u] \in Hashing
                            /\ pc'[u] \in InOneHand <=> pc[u] \in InOneHand
        BY <1>1, <1>4 DEF Hashing, InOneHand
    <2> QED
        BY <1>1, <2>1 DEF IInv, Apart, ContextsHeld
<1>14. CodeHeld'
    <2>1. \A d \in Ctx : HasCode(d) /\ d # c => WellFormed(ctx[d])'
        BY <1>1, <1>8, <1>9 DEF IInv, CodeHeld, WellFormed
    <2>2. \A p \in Page : page'[p] # Gone => page[p] # Gone /\ p # ctx[c].code
        BY <1>3, <1>5, <1>7, <1>9, ContextAssumption DEF IInv, CodeHeld
    <2>3. \A l \in List : list'[l] # Gone => list[l] # Gone /\ l # ctx[c].code
        BY <1>3, <1>5, <1>7, <1>9, ContextAssumption DEF IInv, CodeHeld
    <2>4. \A u \in Thread : pc'[u] = "alloc_code" => pc[u] = "alloc_code"
        BY <1>4
    <2>5. \A p \in Page : page'[p] # Gone => \E d \in Ctx : HasCode(d)' /\ ctx'[d].code = p
        BY <1>1, <1>6, <2>2 DEF IInv, CodeHeld
    <2>6. \A l \in List : list'[l] # Gone => \E d \in Ctx : HasCode(d)' /\ ctx'[d].code = l
        BY <1>1, <1>6, <2>3 DEF IInv, CodeHeld
    <2>7. \A d, e \in Ctx : (HasCode(d)' /\ HasCode(e)' /\ ctx'[d].code = ctx'[e].code) => d = e
        BY <1>1, <1>6 DEF IInv, CodeHeld
    <2>8. \A u \in Thread : pc'[u] = "alloc_code" => ctx'[at'[u]].code = Null
        BY <1>1, <2>4 DEF IInv, CodeHeld
    <2>9. \A d \in Ctx : HasCode(d)' => WellFormed(ctx[d])'
        BY <1>6, <2>1
    <2> QED
        BY <2>5, <2>6, <2>7, <2>8, <2>9 DEF CodeHeld
<1>15. Current'
    <2>1. \A u \in Thread : pc'[u] \in Compiling <=> pc[u] \in Compiling
        BY <1>1, <1>4 DEF Compiling
    <2>2. ASSUME NEW d \in owned PROVE Current!(d)'
        <3>1. HasCode(d) /\ d # c /\ d \in Ctx
            BY <1>2, <1>3 DEF HasCode
        <3>2. ctx[d].code # ctx[c].code
            BY <1>8, <3>1
        <3>3. Current!(d)
            BY DEF IInv, Current
        <3> QED
            BY <1>1, <1>9, <2>1, <3>2, <3>3 DEF Executable
    <2> QED
        BY <1>1, <2>2 DEF Current
<1>16. Compiled'
    <2>1. ASSUME NEW u \in Thread PROVE Compiled!(u)'
        <3>1. CASE pc'[u] \in Compiling
            <4>1. u # t /\ pc'[u] = pc[u]
                BY <1>4, <3>1 DEF Compiling
            <4>2. at[u] \in Ctx /\ HasCode(at[u]) /\ at[u] # c /\ ctx[at[u]].code \in Page
                BY <1>2, <1>3, <3>1, <4>1, OwnBuffer DEF HasCode
            <4>3. ctx[at[u]].code # ctx[c].code
                BY <1>8, <4>2
            <4>4. Compiled!(u)
                BY DEF IInv, Compiled
            <4> QED
                BY <1>1, <1>9, <4>1, <4>2, <4>3, <4>4 DEF Executable
        <3>2. CASE pc'[u] \notin Compiling
            BY <3>2 DEF Compiling
        <3> QED
            BY <3>1, <3>2
    <2> QED
        BY <2>1 DEF Compiled
<1> QED
    BY <1>10, <1>11, <1>12, <1>13, <1>14, <1>15, <1>16 DEF IInv

LEMMA FreeCtxStep ==
    ASSUME IInv, ~crashed, NEW t \in Thread, FreeCtx(t)
    PROVE  IInv'
<1>0. PICK c \in Ctx : c = at[t]
    BY OneHand DEF FreeCtx, InOneHand
<1>1. /\ pc[t] = "free_ctx" /\ ctx' = [ctx EXCEPT ![c] = Gone]
      /\ UNCHANGED <<page, list, want, seed, draw, owned, made, failed, crashed>>
    BY <1>0 DEF FreeCtx
<1>2. /\ at \in [Thread -> Ctx \cup {Null}] /\ pc \in [Thread -> Labels]
      /\ ctx \in [Ctx -> {Gone} \cup Contexts] /\ owned \subseteq Ctx
    BY DEF IInv, TypeOK
<1>3. c \notin owned /\ \A u \in Thread : at[u] = c => u = t
    BY <1>0, <1>1, OneHand DEF InOneHand, IInv, PlacesKept
<1>4. /\ at'[t] = Null /\ pc'[t] = "idle"
      /\ \A u \in Thread \ {t} : at'[u] = at[u] /\ pc'[u] = pc[u] /\ at[u] # c
    BY <1>0, <1>2, <1>3 DEF FreeCtx, Goto
<1>5. ctx'[c] = Gone /\ \A d \in Ctx \ {c} : ctx'[d] = ctx[d]
    BY <1>1, <1>2
<1>6. ~HasCode(c) /\ ~HasCode(c)'
    BY <1>0, <1>1, <1>3, <1>4 DEF HasCode
<1>7. \A d \in Ctx : HasCode(d)' <=> HasCode(d)
    <2>1. ASSUME NEW d \in Ctx \ {c}
          PROVE (\E u \in Thread : pc[u] = "free_code" /\ at[u] = d /\ ctx[d].code # Null)
            <=> (\E u \in Thread : pc'[u] = "free_code" /\ at'[u] = d /\ ctx'[d].code # Null)
        BY <1>1, <1>4, <1>5
    <2> QED
        BY <1>1, <1>6, <2>1 DEF HasCode
<1>8. TypeOK'
    BY <1>1, <1>2 DEF IInv, TypeOK, FreeCtx, Goto, Labels
<1>9. FaultsAreProtection'
    BY <1>1 DEF FaultsAreProtection
<1>10. PlacesKept'
    BY <1>1, <1>4, ContextAssumption
    DEF IInv, PlacesKept, Outside, Compiling, Making, Hashing, InOneHand
<1>11. Apart'
    BY <1>4 DEF IInv, Apart
<1>12. ContextsHeld'
    <2>1. ASSUME NEW d \in Ctx \ {c}
          PROVE  (\E u \in Thread : pc[u] \in InOneHand /\ at[u] = d)
                    <=> (\E u \in Thread : pc'[u] \in InOneHand /\ at'[u] = d)
        BY <1>0, <1>4, ContextAssumption
    <2>2. ~ \E u \in Thread : pc'[u] \in InOneHand /\ at'[u] = c
        BY <1>4 DEF InOneHand
    <2> QED
        BY <1>1, <1>3, <1>5, <2>1, <2>2 DEF IInv, ContextsHeld
<1>13. CodeHeld'
    <2>1. \A d \in Ctx : HasCode(d) => ctx'[d] = ctx[d]
        BY <1>5, <1>6
    <2>2. \A d \in Ctx : HasCode(d)' => WellFormed(ctx[d])'
        BY <1>1, <1>7, <2>1 DEF IInv, CodeHeld, WellFormed
    <2>3. \A p \in Page : page'[p] # Gone => \E d \in Ctx : HasCode(d)' /\ ctx'[d].code = p
        BY <1>1, <1>7, <2>1 DEF IInv, CodeHeld
    <2>4. \A l \in List : list'[l] # Gone => \E d \in Ctx : HasCode(d)' /\ ctx'[d].code = l
        BY <1>1, <1>7, <2>1 DEF IInv, CodeHeld
    <2>5. \A d, e \in Ctx : (HasCode(d)' /\ HasCode(e)' /\ ctx'[d].code = ctx'[e].code) => d = e
        BY <1>7, <2>1 DEF IInv, CodeHeld
    <2>6. ASSUME NEW u \in Thread, pc'[u] = "alloc_code" PROVE ctx'[at'[u]].code = Null
        <3>1. u # t /\ pc[u] = "alloc_code" /\ at'[u] = at[u] /\ at[u] # c
            BY <1>4, <2>6
        <3>2. at[u] \in Ctx
            BY <3>1, OneHand DEF InOneHand
        <3> QED
            BY <1>5, <3>1, <3>2 DEF IInv, CodeHeld
    <2> QED
        BY <2>2, <2>3, <2>4, <2>5, <2>6 DEF CodeHeld
<1>14. Current'
    <2>1. ASSUME NEW d \in owned PROVE Current!(d)'
        <3>1. ctx'[d] = ctx[d]
            BY <1>2, <1>3, <1>5
        <3>2. (\A u \in Thread : at'[u] = d => pc'[u] \notin Compiling)
                 => (\A u \in Thread : at[u] = d => pc[u] \notin Compiling)
            BY <1>1, <1>4 DEF Compiling
        <3>3. Current!(d)
            BY DEF IInv, Current
        <3> QED
            BY <1>1, <3>1, <3>2, <3>3 DEF Executable
    <2> QED
        BY <1>1, <2>1 DEF Current
<1>15. Compiled'
    <2>1. ASSUME NEW u \in Thread PROVE Compiled!(u)'
        <3>1. CASE pc'[u] \in Compiling
            <4>1. u # t /\ pc'[u] = pc[u] /\ at'[u] = at[u] /\ at[u] # c
                BY <1>4, <3>1 DEF Compiling
            <4>2. at[u] \in Ctx
                BY <1>2, <3>1, <4>1, OwnBuffer
            <4>3. Compiled!(u)
                BY DEF IInv, Compiled
            <4> QED
                BY <1>1, <1>5, <4>1, <4>2, <4>3 DEF Executable
        <3>2. CASE pc'[u] \notin Compiling
            BY <3>2 DEF Compiling
        <3> QED
            BY <3>1, <3>2
    <2> QED
        BY <2>1 DEF Compiled
<1> QED
    BY <1>8, <1>9, <1>10, <1>11, <1>12, <1>13, <1>14, <1>15 DEF IInv

-----------------------------------------------------------------------------
(* The steps of hashwx_make.                                               *)

LEMMA GenerateStep ==
    ASSUME IInv, ~crashed, NEW t \in Thread, Generate(t)
    PROVE  IInv'
<1>0. PICK c \in Ctx : c = at[t]
    BY OneHand DEF Generate, Making
<1>1. /\ pc[t] = "make" /\ UNCHANGED <<page, want, draw, owned, failed, crashed>>
      /\ ctx' = [ctx EXCEPT ![c].key = seed[t], ![c].has_program = TRUE]
    BY <1>0 DEF Generate
<1>2. /\ ctx[c] \in Contexts /\ c \in owned /\ HasCode(c) /\ seed[t] \in Seed
      /\ \A u \in Thread : at[u] = c => u = t
    BY <1>0, <1>1, OneHand DEF Making, IInv, PlacesKept, HasCode
<1>3. /\ at \in [Thread -> Ctx \cup {Null}] /\ pc \in [Thread -> Labels]
      /\ ctx \in [Ctx -> {Gone} \cup Contexts] /\ owned \subseteq Ctx
      /\ list \in [List -> {Gone, Garbage} \cup Seed] /\ made \in [Ctx -> Seed \cup {Null}]
      /\ seed \in [Thread -> Seed \cup {Null}]
    BY DEF IInv, TypeOK
<1>4. /\ ctx'[c] \in Contexts /\ ctx'[c].code = ctx[c].code /\ ctx'[c].type = ctx[c].type
      /\ ctx'[c].key = seed[t] /\ ctx'[c].has_program = TRUE
      /\ \A d \in Ctx \ {c} : ctx'[d] = ctx[d]
    BY <1>1, <1>2, <1>3 DEF Contexts
<1>5. \A d \in Ctx : ctx'[d].code = ctx[d].code /\ ctx'[d].type = ctx[d].type
    BY <1>4
(* A compiled context is about to be compiled, an interpreted one is made. *)
<1>6. \/ /\ ctx[c].code \in Page /\ Goto(t, "vm_rw") /\ UNCHANGED <<list, at, seed, made>>
      \/ /\ ctx[c].code \in List \ Page
         /\ list' = [list EXCEPT ![ctx[c].code] = seed[t]]
         /\ made' = [made EXCEPT ![c] = seed[t]]
         /\ at' = [at EXCEPT ![t] = Null] /\ seed' = [seed EXCEPT ![t] = Null]
         /\ Goto(t, "idle")
    <2>1. /\ TypeTest(c) = {ctx[c].code \in Page}
          /\ ctx[c].code \notin Page => ctx[c].code \in List
        BY <1>2, TypeTells
    <2>2. \E compiled \in TypeTest(c) :
             \/ compiled /\ Goto(t, "vm_rw") /\ UNCHANGED <<list, at, seed, made>>
             \/ ~compiled /\ list' = [list EXCEPT ![ctx[c].code] = seed[t]] /\ Made(t)
        BY <1>0 DEF Generate
    <2>3. \/ ctx[c].code \in Page /\ Goto(t, "vm_rw") /\ UNCHANGED <<list, at, seed, made>>
          \/ /\ ctx[c].code \notin Page
             /\ list' = [list EXCEPT ![ctx[c].code] = seed[t]] /\ Made(t)
        BY <2>1, <2>2
    <2> QED
        BY <1>0, <2>1, <2>3 DEF Made
<1>7. /\ \A u \in Thread \ {t} : /\ at'[u] = at[u] /\ pc'[u] = pc[u] /\ seed'[u] = seed[u]
                                 /\ at[u] # c
      /\ \/ pc'[t] = "vm_rw" /\ at'[t] = c /\ seed'[t] = seed[t]
         \/ pc'[t] = "idle" /\ at'[t] = Null
    <2>1. CASE ctx[c].code \in Page /\ Goto(t, "vm_rw") /\ UNCHANGED <<list, at, seed, made>>
        BY <1>0, <1>2, <1>3, <2>1 DEF Goto
    <2>2. CASE /\ at' = [at EXCEPT ![t] = Null] /\ seed' = [seed EXCEPT ![t] = Null]
               /\ Goto(t, "idle")
        BY <1>0, <1>2, <1>3, <2>2 DEF Goto
    <2> QED
        BY <1>6, <2>1, <2>2
<1>8. \A d \in Ctx \ {c} : made'[d] = made[d]
    BY <1>3, <1>6
<1>9. \A l \in List : l # ctx[c].code => list'[l] = list[l]
    BY <1>3, <1>6
<1>10. \A d \in Ctx : HasCode(d)' <=> HasCode(d)
    BY <1>1, <1>5, <1>7 DEF HasCode
<1>11. TypeOK'
    <2>1. /\ list' \in [List -> {Gone, Garbage} \cup Seed] /\ made' \in [Ctx -> Seed \cup {Null}]
          /\ at' \in [Thread -> Ctx \cup {Null}] /\ seed' \in [Thread -> Seed \cup {Null}]
          /\ pc' \in [Thread -> Labels]
        BY <1>2, <1>3, <1>6 DEF Goto, Labels
    <2>2. ctx' \in [Ctx -> {Gone} \cup Contexts]
        BY <1>1, <1>3, <1>4
    <2> QED
        BY <1>1, <2>1, <2>2 DEF IInv, TypeOK
<1>12. FaultsAreProtection'
    BY <1>1 DEF IInv, FaultsAreProtection
<1>13. PlacesKept'
    <2>1. PlacesKept!(t)'
        BY <1>1, <1>2, <1>7, ContextAssumption
        DEF Outside, Compiling, Making, Hashing, InOneHand
    <2>2. ASSUME NEW u \in Thread \ {t} PROVE PlacesKept!(u)'
        <3>1. at[u] \in Ctx => made'[at[u]] = made[at[u]]
            BY <1>7, <1>8
        <3>2. pc[u] \in Hashing => at[u] \in Ctx
            BY <1>3 DEF IInv, PlacesKept
        <3>3. PlacesKept!(u)
            BY DEF IInv, PlacesKept
        <3> QED
            BY <1>1, <1>7, <3>1, <3>2, <3>3 DEF Hashing
    <2> QED
        BY <2>1, <2>2 DEF PlacesKept
<1>14. Apart'
    BY <1>0, <1>2, <1>7 DEF IInv, Apart
<1>15. ContextsHeld'
    <2>1. \A u \in Thread : pc'[u] \in InOneHand <=> pc[u] \in InOneHand
        BY <1>1, <1>7 DEF InOneHand
    <2>2. \A d \in Ctx : ctx'[d] = Gone <=> ctx[d] = Gone
        BY <1>2, <1>4, ContextAssumption
    <2>3. pc[t] \notin InOneHand
        BY <1>1 DEF InOneHand
    <2>4. \A d \in Ctx : (\E u \in Thread : pc[u] \in InOneHand /\ at[u] = d)
                            <=> (\E u \in Thread : pc'[u] \in InOneHand /\ at'[u] = d)
        BY <1>7, <2>1, <2>3
    <2> QED
        BY <1>1, <2>2, <2>4 DEF IInv, ContextsHeld
<1>16. CodeHeld'
    <2>1. \A l \in List : list'[l] # Gone <=> list[l] # Gone
        <3>1. ctx[c].code \in List => list[ctx[c].code] # Gone
            BY <1>2, TypeTells, ContextAssumption
        <3> QED
            BY <1>2, <1>3, <1>6, <3>1, ContextAssumption
    <2>2. \A d \in Ctx : HasCode(d)' => WellFormed(ctx[d])'
        BY <1>1, <1>5, <1>10, <2>1 DEF IInv, CodeHeld, WellFormed
    <2>3. \A p \in Page : page'[p] # Gone => \E d \in Ctx : HasCode(d)' /\ ctx'[d].code = p
        BY <1>1, <1>5, <1>10 DEF IInv, CodeHeld
    <2>4. \A l \in List : list'[l] # Gone => \E d \in Ctx : HasCode(d)' /\ ctx'[d].code = l
        BY <1>5, <1>10, <2>1 DEF IInv, CodeHeld
    <2>5. \A d, e \in Ctx : (HasCode(d)' /\ HasCode(e)' /\ ctx'[d].code = ctx'[e].code) => d = e
        BY <1>5, <1>10 DEF IInv, CodeHeld
    <2>6. ASSUME NEW u \in Thread, pc'[u] = "alloc_code" PROVE ctx'[at'[u]].code = Null
        <3>1. u # t /\ pc[u] = "alloc_code" /\ at'[u] = at[u]
            BY <1>7, <2>6
        <3>2. at[u] \in Ctx
            BY <3>1, OneHand DEF InOneHand
        <3> QED
            BY <1>5, <3>1, <3>2 DEF IInv, CodeHeld
    <2> QED
        BY <2>2, <2>3, <2>4, <2>5, <2>6 DEF CodeHeld
<1>17. Current'
    <2>1. ASSUME NEW d \in owned \ {c} PROVE Current!(d)'
        <3>1. d \in Ctx \ {c} /\ HasCode(d)
            BY <1>3 DEF HasCode
        <3>2. ctx[d].code # ctx[c].code
            BY <1>2, <3>1 DEF IInv, CodeHeld
        <3>3. (\A u \in Thread : at'[u] = d => pc'[u] \notin Compiling)
                 => (\A u \in Thread : at[u] = d => pc[u] \notin Compiling)
            BY <1>0, <1>7
        <3>4. Current!(d)
            BY DEF IInv, Current
        <3>5. ctx'[d] = ctx[d] /\ made'[d] = made[d] /\ page' = page /\ failed' = failed
            BY <1>1, <1>4, <1>8, <3>1
        <3>6. ctx[d].code \in List => list'[ctx[d].code] = list[ctx[d].code]
            BY <1>9, <3>2
        <3> QED
            BY <3>3, <3>4, <3>5, <3>6 DEF Executable
    <2>2. Current!(c)'
        <3>1. CASE pc'[t] = "vm_rw" /\ at'[t] = c
            BY <1>4, <3>1 DEF Compiling
        <3>2. CASE pc'[t] = "idle"
            <4>1. /\ ctx[c].code \in List \ Page /\ list' = [list EXCEPT ![ctx[c].code] = seed[t]]
                  /\ made' = [made EXCEPT ![c] = seed[t]]
                BY <1>3, <1>6, <3>2 DEF Goto
            <4>2. list'[ctx[c].code] = seed[t] /\ made'[c] = seed[t]
                BY <1>3, <4>1
            <4> QED
                BY <1>4, <4>1, <4>2
        <3> QED
            BY <1>7, <3>1, <3>2
    <2> QED
        BY <1>1, <2>1, <2>2 DEF Current
<1>18. Compiled'
    <2>1. ASSUME NEW u \in Thread \ {t} PROVE Compiled!(u)'
        <3>1. CASE pc'[u] \in Compiling
            <4>1. at[u] \in Ctx /\ at[u] # c
                BY <1>3, <1>7, <3>1, OwnBuffer
            <4>2. Compiled!(u)
                BY DEF IInv, Compiled
            <4>3. /\ pc'[u] = pc[u] /\ at'[u] = at[u] /\ seed'[u] = seed[u]
                  /\ ctx'[at[u]] = ctx[at[u]] /\ page' = page /\ failed' = failed
                BY <1>1, <1>4, <1>7, <4>1
            <4> QED
                BY <4>2, <4>3 DEF Executable
        <3>2. CASE pc'[u] \notin Compiling
            BY <3>2 DEF Compiling
        <3> QED
            BY <3>1, <3>2
    <2>2. Compiled!(t)'
        <3>1. CASE pc'[t] = "vm_rw" /\ at'[t] = c /\ seed'[t] = seed[t]
            <4>1. ctx[c].code \in Page
                BY <1>3, <1>6, <3>1 DEF Goto
            <4> QED
                BY <1>4, <3>1, <4>1
        <3>2. CASE pc'[t] = "idle"
            BY <3>2 DEF Compiling
        <3> QED
            BY <1>7, <3>1, <3>2
    <2> QED
        BY <2>1, <2>2 DEF Compiled
<1> QED
    BY <1>11, <1>12, <1>13, <1>14, <1>15, <1>16, <1>17, <1>18 DEF IInv

(* A step of the compiler and of the protection changes the thread's own   *)
(* buffer and what is known of its protection, nothing else.               *)
BufferChange(t, p, label, b) ==
    /\ p = ctx[at[t]].code
    /\ pc[t] \in Compiling
    /\ Goto(t, label)
    /\ page' = [page EXCEPT ![p] = b]
    /\ failed' \subseteq Page
    /\ \A q \in Page \ {p} : q \in failed' <=> q \in failed
    /\ UNCHANGED <<ctx, list, at, want, seed, draw, owned, made, crashed>>
    /\ label = "emit" => b.prot = "rw" \/ p \in failed'
    /\ label \in {"vm_rx", "clear_cache"} => b.text = seed[t]
    /\ label = "clear_cache" => b.prot = "rx" \/ p \in failed'

LEMMA BufferStep ==
    ASSUME IInv, ~crashed, NEW t \in Thread, NEW p, NEW label \in Compiling,
           NEW b \in Buffers, BufferChange(t, p, label, b)
    PROVE  IInv'
<1> USE DEF BufferChange
<1>1. /\ at[t] \in Ctx /\ at[t] \in owned /\ p \in Page /\ page[p] # Gone /\ HasCode(at[t])
      /\ \A d \in Ctx : HasCode(d) /\ ctx[d].code = p => d = at[t]
    <2>1. at[t] \in Ctx /\ at[t] \in owned /\ p \in Page
        BY OwnBuffer DEF IInv, TypeOK
    <2> QED
        BY <2>1, OwnBuffer, ContextAssumption DEF HasCode
<1>2. /\ at \in [Thread -> Ctx \cup {Null}] /\ pc \in [Thread -> Labels]
      /\ page \in [Page -> {Gone} \cup Buffers] /\ owned \subseteq Ctx
    BY DEF IInv, TypeOK
<1>3. pc'[t] = label /\ \A u \in Thread \ {t} : pc'[u] = pc[u]
    BY <1>2 DEF Goto
<1>4. page'[p] = b /\ b # Gone /\ \A q \in Page \ {p} : page'[q] = page[q]
    BY <1>1, <1>2, ContextAssumption
<1>5. \A u \in Thread : \A l \in Outside \cup InOneHand \cup Hashing : pc'[u] = l <=> pc[u] = l
    BY <1>3 DEF Outside, InOneHand, Hashing, Compiling
<1>6. \A u \in Thread : pc'[u] \in Compiling <=> pc[u] \in Compiling
    BY <1>3
<1>7. \A d \in Ctx : HasCode(d)' <=> HasCode(d)
    BY <1>5 DEF HasCode, InOneHand
<1>8. TypeOK'
    <2>1. page' \in [Page -> {Gone} \cup Buffers]
        BY <1>2
    <2>2. pc' \in [Thread -> Labels]
        BY <1>2 DEF Goto, Compiling, Labels
    <2> QED
        BY <2>1, <2>2 DEF IInv, TypeOK
<1>9. FaultsAreProtection'
    BY DEF FaultsAreProtection
<1>10. PlacesKept' /\ Apart' /\ ContextsHeld'
    <2>1. \A u \in Thread : /\ pc'[u] \in Outside <=> pc[u] \in Outside
                            /\ pc'[u] \in InOneHand <=> pc[u] \in InOneHand
                            /\ pc'[u] \in Hashing <=> pc[u] \in Hashing
                            /\ pc'[u] \in Making <=> pc[u] \in Making
                            /\ pc'[u] = "run" <=> pc[u] = "run"
        BY <1>3 DEF Outside, InOneHand, Hashing, Compiling, Making
    <2> QED
        BY <2>1 DEF IInv, PlacesKept, Apart, ContextsHeld
<1>11. CodeHeld'
    <2>1. \A q \in Page : page'[q] # Gone <=> page[q] # Gone
        BY <1>1, <1>4
    <2>2. \A u \in Thread : pc'[u] = "alloc_code" <=> pc[u] = "alloc_code"
        BY <1>5 DEF InOneHand
    <2> QED
        BY <1>7, <2>1, <2>2 DEF IInv, CodeHeld, WellFormed
<1>12. Current'
    <2>1. ASSUME NEW d \in owned PROVE Current!(d)'
        <3>1. Current!(d)
            BY DEF IInv, Current
        <3>2. CASE d = at[t]
            BY <1>3, <3>1, <3>2
        <3>3. CASE d # at[t]
            <4>1. ctx[d].code # p
                BY <1>1, <1>2, <3>3 DEF HasCode
            <4>2. ctx[d].code \in Page => /\ page'[ctx[d].code] = page[ctx[d].code]
                                          /\ ctx[d].code \in failed' <=> ctx[d].code \in failed
                BY <1>4, <4>1
            <4> QED
                BY <1>6, <3>1, <4>2 DEF Executable
        <3> QED
            BY <3>2, <3>3
    <2> QED
        BY <2>1 DEF Current
<1>13. Compiled'
    <2>1. ASSUME NEW u \in Thread \ {t} PROVE Compiled!(u)'
        <3>1. CASE pc'[u] \in Compiling
            <4>1. at[u] \in Ctx /\ HasCode(at[u]) /\ ctx[at[u]].code \in Page /\ at[u] # at[t]
                <5>1. at[u] \in owned /\ ctx[at[u]].code \in Page
                    BY <1>3, <3>1, OwnBuffer
                <5>2. at[u] # at[t]
                    BY OneHand DEF Making
                <5> QED
                    BY <1>2, <5>1, <5>2 DEF HasCode
            <4>2. ctx[at[u]].code # p
                BY <1>1, <4>1
            <4>3. Compiled!(u)
                BY DEF IInv, Compiled
            <4> QED
                BY <1>3, <1>4, <4>1, <4>2, <4>3 DEF Executable
        <3>2. CASE pc'[u] \notin Compiling
            BY <3>2 DEF Compiling
        <3> QED
            BY <3>1, <3>2
    <2>2. Compiled!(t)'
        <3>1. Compiled!(t)
            BY DEF IInv, Compiled
        <3> QED
            BY <1>1, <1>3, <1>4, <3>1 DEF Executable
    <2> QED
        BY <2>1, <2>2 DEF Compiled
<1> QED
    BY <1>8, <1>9, <1>10, <1>11, <1>12, <1>13 DEF IInv

(* A protection changes the access and keeps the bytes, or is known to     *)
(* have failed.                                                            *)
LEMMA PageProtectChanges ==
    ASSUME IInv, NEW p \in Page, page[p] \in Buffers, NEW rules \in {"rw", "rx"},
           PageProtect(p, rules)
    PROVE  \E b \in Buffers :
              /\ page' = [page EXCEPT ![p] = b]
              /\ failed' \subseteq Page
              /\ \A q \in Page \ {p} : q \in failed' <=> q \in failed
              /\ b.text = page[p].text
              /\ b.prot = rules \/ p \in failed'
<1>1. page \in [Page -> {Gone} \cup Buffers] /\ failed \subseteq Page
    BY DEF IInv, TypeOK
<1>2. CASE page' = [page EXCEPT ![p].prot = rules] /\ failed' = failed \ {p}
    <2>1. [page[p] EXCEPT !.prot = rules] \in Buffers
        BY DEF Buffers
    <2>2. /\ [page[p] EXCEPT !.prot = rules].text = page[p].text
          /\ [page[p] EXCEPT !.prot = rules].prot = rules
        BY DEF Buffers
    <2> QED
        BY <1>1, <1>2, <2>1, <2>2
<1>3. CASE failed' = failed \cup {p} /\ UNCHANGED page
    <2>1. page' = [page EXCEPT ![p] = page[p]]
        BY <1>1, <1>3
    <2> QED
        BY <1>1, <1>3, <2>1
<1> QED
    BY <1>2, <1>3 DEF PageProtect

LEMMA VmRwStep ==
    ASSUME IInv, ~crashed, NEW t \in Thread, VmRw(t)
    PROVE  IInv'
<1>1. pc[t] \in Compiling /\ "emit" \in Compiling
    BY DEF VmRw, Compiling
<1>2. PICK p \in Page : p = ctx[at[t]].code /\ page[p] \in Buffers
    BY <1>1, OwnBuffer
<1>3. PICK b \in Buffers : /\ page' = [page EXCEPT ![p] = b]
                           /\ failed' \subseteq Page
                           /\ \A q \in Page \ {p} : q \in failed' <=> q \in failed
                           /\ b.prot = "rw" \/ p \in failed'
    <2>1. PageProtect(p, "rw")
        BY <1>2 DEF VmRw
    <2> QED
        BY <1>2, <2>1, PageProtectChanges
<1>4. Goto(t, "emit") /\ UNCHANGED <<ctx, list, at, want, seed, draw, owned, made, crashed>>
    BY DEF VmRw
<1> QED
    <2>1. BufferChange(t, p, "emit", b)
        BY <1>1, <1>2, <1>3, <1>4 DEF BufferChange
    <2> QED
        BY <1>1, <2>1, BufferStep

LEMMA EmitStep ==
    ASSUME IInv, ~crashed, NEW t \in Thread, Emit(t)
    PROVE  IInv'
<1>1. pc[t] = "emit" /\ pc[t] \in Compiling /\ "vm_rx" \in Compiling
    BY DEF Emit, Compiling
<1>2. PICK p \in Page : p = ctx[at[t]].code /\ page[p] \in Buffers
    BY <1>1, OwnBuffer
<1>3. /\ Goto(t, "vm_rx")
      /\ UNCHANGED <<ctx, list, at, want, seed, draw, owned, made, failed>>
    BY DEF Emit
<1>4. page \in [Page -> {Gone} \cup Buffers] /\ failed \subseteq Page /\ seed[t] \in Seed
    BY <1>1, OwnBuffer DEF IInv, TypeOK
<1>5. CASE /\ page' = [page EXCEPT ![p].text = seed[t],
                                   ![p].fetch = (IF Coherent THEN {} ELSE @) \cup {seed[t]}]
           /\ UNCHANGED crashed
    <2> DEFINE b == [page[p] EXCEPT !.text = seed[t],
                                    !.fetch = (IF Coherent THEN {} ELSE @) \cup {seed[t]}]
    <2>1. b \in Buffers /\ b.text = seed[t]
        BY <1>2, <1>4 DEF Buffers
    <2>2. page' = [page EXCEPT ![p] = b]
        BY <1>2, <1>4, <1>5
    <2> HIDE DEF b
    <2>3. BufferChange(t, p, "vm_rx", b)
        BY <1>1, <1>2, <1>3, <1>4, <1>5, <2>1, <2>2 DEF BufferChange
    <2> QED
        BY <1>1, <2>1, <2>3, BufferStep
(* The store faults: the protection that should have allowed it failed.    *)
<1>6. CASE page[p].prot # "rw" /\ crashed' = TRUE /\ UNCHANGED page
    <2>1. p \in failed
        BY <1>1, <1>2, <1>6 DEF IInv, Compiled
    <2>2. TypeOK'
        BY <1>3, <1>6 DEF IInv, TypeOK, Goto, Labels
    <2>3. FaultsAreProtection'
        BY <1>3, <2>1 DEF FaultsAreProtection
    <2> QED
        BY <1>6, <2>2, <2>3 DEF IInv
<1> QED
    BY <1>2, <1>5, <1>6 DEF Emit

LEMMA VmRxStep ==
    ASSUME IInv, ~crashed, NEW t \in Thread, VmRx(t)
    PROVE  IInv'
<1>1. pc[t] = "vm_rx" /\ pc[t] \in Compiling /\ "clear_cache" \in Compiling
    BY DEF VmRx, Compiling
<1>2. PICK p \in Page : p = ctx[at[t]].code /\ page[p] \in Buffers
    BY <1>1, OwnBuffer
<1>3. PICK b \in Buffers : /\ page' = [page EXCEPT ![p] = b]
                           /\ failed' \subseteq Page
                           /\ \A q \in Page \ {p} : q \in failed' <=> q \in failed
                           /\ b.text = page[p].text
                           /\ b.prot = "rx" \/ p \in failed'
    <2>1. PageProtect(p, "rx")
        BY <1>2 DEF VmRx
    <2> QED
        BY <1>2, <2>1, PageProtectChanges
<1>4. Goto(t, "clear_cache") /\ UNCHANGED <<ctx, list, at, want, seed, draw, owned, made, crashed>>
    BY DEF VmRx
<1>5. b.text = seed[t]
    BY <1>1, <1>2, <1>3 DEF IInv, Compiled
<1> QED
    <2>1. BufferChange(t, p, "clear_cache", b)
        BY <1>1, <1>2, <1>3, <1>4, <1>5 DEF BufferChange
    <2> QED
        BY <1>1, <2>1, BufferStep

LEMMA ClearCacheStep ==
    ASSUME IInv, ~crashed, NEW t \in Thread, ClearCache(t)
    PROVE  IInv'
<1>1. /\ pc[t] = "clear_cache" /\ pc[t] \in Compiling /\ pc[t] \in Making
      /\ UNCHANGED <<ctx, list, want, draw, owned, failed, crashed>>
    BY DEF ClearCache, Compiling, Making
<1>2. PICK c \in Ctx : c = at[t]
    BY <1>1, OneHand
<1>3. PICK p \in Page : p = ctx[c].code /\ page[p] \in Buffers
    BY <1>1, <1>2, OwnBuffer
<1>4. /\ c \in owned /\ HasCode(c) /\ seed[t] \in Seed /\ ctx[c] \in Contexts
      /\ \A u \in Thread : at[u] = c => u = t
      /\ \A d \in Ctx : HasCode(d) /\ ctx[d].code = p => d = c
    BY <1>1, <1>2, <1>3, OneHand, OwnBuffer DEF HasCode
<1>5. /\ at \in [Thread -> Ctx \cup {Null}] /\ pc \in [Thread -> Labels]
      /\ page \in [Page -> {Gone} \cup Buffers] /\ owned \subseteq Ctx
      /\ seed \in [Thread -> Seed \cup {Null}] /\ made \in [Ctx -> Seed \cup {Null}]
    BY DEF IInv, TypeOK
(* What the compilation has come to.                                       *)
<1>6. /\ page[p].text = seed[t] /\ Executable(p)
      /\ ctx[c].key = seed[t] /\ ctx[c].has_program = TRUE
    BY <1>1, <1>2, <1>3 DEF IInv, Compiled
<1>7. /\ page'[p] \in Buffers /\ page'[p].fetch = {seed[t]} /\ page'[p].prot = page[p].prot
      /\ page' \in [Page -> {Gone} \cup Buffers]
      /\ \A q \in Page \ {p} : page'[q] = page[q]
    <2>1. page' = [page EXCEPT ![p].fetch = {page[p].text}]
        BY <1>2, <1>3 DEF ClearCache
    <2>2. page'[p] = [page[p] EXCEPT !.fetch = {seed[t]}]
        BY <1>3, <1>5, <1>6, <2>1
    <2>3. /\ page'[p] \in Buffers /\ page'[p].fetch = {seed[t]}
          /\ page'[p].prot = page[p].prot
        BY <1>3, <1>4, <2>2 DEF Buffers
    <2> QED
        BY <1>5, <2>1, <2>3
<1>8. /\ made' = [made EXCEPT ![c] = seed[t]]
      /\ at' = [at EXCEPT ![t] = Null] /\ seed' = [seed EXCEPT ![t] = Null]
      /\ Goto(t, "idle")
    BY <1>2 DEF ClearCache, Made
<1>9. /\ at'[t] = Null /\ pc'[t] = "idle"
      /\ \A u \in Thread \ {t} : /\ at'[u] = at[u] /\ pc'[u] = pc[u] /\ seed'[u] = seed[u]
                                 /\ at[u] # c
    BY <1>2, <1>4, <1>5, <1>8 DEF Goto
<1>10. made'[c] = seed[t] /\ \A d \in Ctx \ {c} : made'[d] = made[d]
    BY <1>5, <1>8
<1>11. \A d \in Ctx : HasCode(d)' <=> HasCode(d)
    BY <1>1, <1>9 DEF HasCode
<1>12. TypeOK'
    <2>1. /\ at' \in [Thread -> Ctx \cup {Null}] /\ seed' \in [Thread -> Seed \cup {Null}]
          /\ made' \in [Ctx -> Seed \cup {Null}] /\ pc' \in [Thread -> Labels]
        BY <1>4, <1>5, <1>8 DEF Goto, Labels
    <2> QED
        BY <1>1, <1>7, <2>1 DEF IInv, TypeOK
<1>13. FaultsAreProtection'
    BY <1>1 DEF FaultsAreProtection
<1>14. PlacesKept'
    <2>1. PlacesKept!(t)'
        BY <1>9, ContextAssumption DEF Outside, Compiling, Making, Hashing, InOneHand
    <2>2. ASSUME NEW u \in Thread \ {t} PROVE PlacesKept!(u)'
        <3>1. at[u] \in Ctx => made'[at[u]] = made[at[u]]
            BY <1>9, <1>10
        <3>2. pc[u] \in Hashing => at[u] \in Ctx
            BY <1>5 DEF IInv, PlacesKept
        <3>3. PlacesKept!(u)
            BY DEF IInv, PlacesKept
        <3> QED
            BY <1>1, <1>9, <3>1, <3>2, <3>3 DEF Hashing
    <2> QED
        BY <2>1, <2>2 DEF PlacesKept
<1>15. Apart'
    BY <1>9 DEF IInv, Apart
<1>16. ContextsHeld'
    <2>1. pc[t] \notin InOneHand /\ pc'[t] \notin InOneHand
        BY <1>1, <1>9 DEF InOneHand
    <2>2. \A d \in Ctx : (\E u \in Thread : pc[u] \in InOneHand /\ at[u] = d)
                            <=> (\E u \in Thread : pc'[u] \in InOneHand /\ at'[u] = d)
        BY <1>9, <2>1
    <2> QED
        BY <1>1, <2>2 DEF IInv, ContextsHeld
<1>17. CodeHeld'
    <2>1. \A q \in Page : page'[q] # Gone <=> page[q] # Gone
        BY <1>3, <1>7, ContextAssumption
    <2>2. \A u \in Thread : pc'[u] = "alloc_code" => pc[u] = "alloc_code" /\ at'[u] = at[u]
        BY <1>9
    <2> QED
        BY <1>1, <1>11, <2>1, <2>2 DEF IInv, CodeHeld, WellFormed
<1>18. Current'
    <2>1. ASSUME NEW d \in owned \ {c} PROVE Current!(d)'
        <3>1. d \in Ctx \ {c} /\ HasCode(d)
            BY <1>5 DEF HasCode
        <3>2. ctx[d].code # p
            BY <1>4, <3>1
        <3>3. (\A u \in Thread : at'[u] = d => pc'[u] \notin Compiling)
                 => (\A u \in Thread : at[u] = d => pc[u] \notin Compiling)
            BY <1>2, <1>9
        <3>4. Current!(d)
            BY DEF IInv, Current
        <3>5. ctx[d].code \in Page => page'[ctx[d].code] = page[ctx[d].code]
            BY <1>7, <3>2
        <3> QED
            BY <1>1, <1>10, <3>1, <3>3, <3>4, <3>5 DEF Executable
    <2>2. Current!(c)'
        BY <1>1, <1>3, <1>6, <1>7, <1>10, ContextAssumption DEF Executable
    <2> QED
        BY <1>1, <2>1, <2>2 DEF Current
<1>19. Compiled'
    <2>1. ASSUME NEW u \in Thread \ {t} PROVE Compiled!(u)'
        <3>1. CASE pc'[u] \in Compiling
            <4>1. at[u] \in Ctx \ {c} /\ HasCode(at[u]) /\ ctx[at[u]].code \in Page
                BY <1>5, <1>9, <3>1, OwnBuffer DEF HasCode
            <4>2. ctx[at[u]].code # p
                BY <1>4, <4>1
            <4>3. Compiled!(u)
                BY DEF IInv, Compiled
            <4> QED
                BY <1>1, <1>7, <1>9, <4>1, <4>2, <4>3 DEF Executable
        <3>2. CASE pc'[u] \notin Compiling
            BY <3>2 DEF Compiling
        <3> QED
            BY <3>1, <3>2
    <2>2. Compiled!(t)'
        BY <1>9 DEF Compiling
    <2> QED
        BY <2>1, <2>2 DEF Compiled
<1> QED
    BY <1>12, <1>13, <1>14, <1>15, <1>16, <1>17, <1>18, <1>19 DEF IInv

-----------------------------------------------------------------------------
(* The steps of hashwx_exec.                                               *)

(* A context that somebody hashes with is of the seed it was made last,    *)
(* its key and its program both.                                           *)
LEMMA HashesCurrent ==
    ASSUME IInv, ~crashed, NEW t \in Thread, pc[t] \in Hashing
    PROVE  /\ at[t] \in Ctx /\ at[t] \in owned /\ HasCode(at[t]) /\ made[at[t]] \in Seed
           /\ ctx[at[t]].has_program = TRUE /\ ctx[at[t]].key = made[at[t]]
           /\ ctx[at[t]].code \in List => list[ctx[at[t]].code] = made[at[t]]
           /\ ctx[at[t]].code \in Page => /\ page[ctx[at[t]].code].fetch = {made[at[t]]}
                                          /\ Executable(ctx[at[t]].code)
<1>1. PICK c \in Ctx : c = at[t] /\ c \in owned /\ made[c] \in Seed
    BY DEF IInv, TypeOK, PlacesKept
<1>2. \A u \in Thread : at[u] = c => pc[u] \in Hashing
    BY <1>1, ContextAssumption DEF IInv, Apart
<1>3. \A u \in Thread : at[u] = c => pc[u] \notin Compiling
    BY <1>2 DEF Hashing, Compiling
<1>4. Current!(c)
    BY <1>1 DEF IInv, Current
<1> QED
    BY <1>1, <1>3, <1>4 DEF HasCode

LEMMA DrawRegistersStep ==
    ASSUME IInv, ~crashed, NEW t \in Thread, DrawRegisters(t)
    PROVE  IInv'
<1>1. /\ pc[t] = "exec" /\ pc[t] \in Hashing
      /\ draw' = [draw EXCEPT ![t] = made[at[t]]] /\ made[at[t]] \in Seed
      /\ Goto(t, "run")
      /\ UNCHANGED <<ctx, page, list, at, want, seed, owned, made, failed, crashed>>
    <2>1. pc[t] = "exec" /\ pc[t] \in Hashing
        BY DEF DrawRegisters, Hashing
    <2> QED
        BY <2>1, HashesCurrent DEF DrawRegisters, memory
<1>2. pc \in [Thread -> Labels] /\ draw \in [Thread -> Seed \cup {Null}]
    BY DEF IInv, TypeOK
<1>3. /\ pc'[t] = "run" /\ draw'[t] = made[at[t]]
      /\ \A u \in Thread \ {t} : pc'[u] = pc[u] /\ draw'[u] = draw[u]
    BY <1>1, <1>2 DEF Goto
<1>4. TypeOK'
    BY <1>1, <1>2 DEF IInv, TypeOK, Goto, Labels
<1>5. FaultsAreProtection'
    BY <1>1 DEF IInv, FaultsAreProtection
<1>6. \A u \in Thread : /\ pc'[u] \in Outside <=> pc[u] \in Outside
                        /\ pc'[u] \in InOneHand <=> pc[u] \in InOneHand
                        /\ pc'[u] \in Hashing <=> pc[u] \in Hashing
                        /\ pc'[u] \in Making <=> pc[u] \in Making
                        /\ pc'[u] \in Compiling => pc[u] = pc'[u]
                        /\ pc[u] \in Compiling => pc[u] = pc'[u]
    BY <1>1, <1>3 DEF Outside, InOneHand, Hashing, Compiling, Making
<1>7. PlacesKept' /\ Apart' /\ ContextsHeld'
    <2>1. PlacesKept'
        BY <1>1, <1>3, <1>6 DEF IInv, PlacesKept
    <2> QED
        BY <1>1, <1>6, <2>1 DEF IInv, Apart, ContextsHeld
<1>8. CodeHeld'
    <2>1. \A u \in Thread : /\ pc'[u] = "free_code" <=> pc[u] = "free_code"
                            /\ pc'[u] = "alloc_code" <=> pc[u] = "alloc_code"
        BY <1>1, <1>3
    <2>2. \A d \in Ctx : HasCode(d)' <=> HasCode(d)
        BY <1>1, <2>1 DEF HasCode
    <2> QED
        BY <1>1, <2>1, <2>2 DEF IInv, CodeHeld, WellFormed
<1>9. Current'
    BY <1>1, <1>6 DEF IInv, Current, Executable
<1>10. Compiled'
    <2>1. ASSUME NEW u \in Thread PROVE Compiled!(u)'
        <3>1. Compiled!(u)
            BY DEF IInv, Compiled
        <3>2. CASE pc'[u] \in Compiling
            BY <1>1, <1>6, <3>1, <3>2 DEF Executable
        <3>3. CASE pc'[u] \notin Compiling
            BY <3>3 DEF Compiling
        <3> QED
            BY <3>2, <3>3
    <2> QED
        BY <2>1 DEF Compiled
<1> QED
    BY <1>4, <1>5, <1>7, <1>8, <1>9, <1>10 DEF IInv

LEMMA RunStep ==
    ASSUME IInv, ~crashed, NEW t \in Thread, Run(t)
    PROVE  IInv'
<1>1. /\ pc[t] = "run" /\ pc[t] \in Hashing
      /\ at' = [at EXCEPT ![t] = Null] /\ draw' = [draw EXCEPT ![t] = Null]
      /\ Goto(t, "idle")
      /\ UNCHANGED <<ctx, page, list, want, seed, owned, made, failed>>
    BY DEF Run, Hashing, memory
<1>2. /\ at \in [Thread -> Ctx \cup {Null}] /\ pc \in [Thread -> Labels]
      /\ draw \in [Thread -> Seed \cup {Null}]
    BY DEF IInv, TypeOK
<1>3. /\ pc'[t] = "idle" /\ at'[t] = Null
      /\ \A u \in Thread \ {t} : pc'[u] = pc[u] /\ at'[u] = at[u] /\ draw'[u] = draw[u]
    BY <1>1, <1>2 DEF Goto
(* A call of a buffer that does not execute: its protection failed.        *)
<1>4. /\ crashed' \in BOOLEAN
      /\ crashed' => failed # {}
    <2>1. PICK c \in Ctx : c = at[t]
        BY <1>1, HashesCurrent
    <2>2. /\ TypeTest(c) = {ctx[c].code \in Page}
          /\ ctx[c].code \in Page => Executable(ctx[c].code)
        BY <1>1, <2>1, HashesCurrent, TypeTells
    <2>3. \/ TRUE \in TypeTest(c) /\ page[ctx[c].code].prot # "rx" /\ crashed' = TRUE
          \/ crashed' = crashed
        BY <2>1 DEF Run
    <2>4. crashed \in BOOLEAN
        BY DEF IInv, TypeOK
    <2>5. TRUE \in TypeTest(c) => ctx[c].code \in Page
        BY <2>2
    <2>6. TRUE \in TypeTest(c) /\ page[ctx[c].code].prot # "rx" => failed # {}
        BY <2>2, <2>5 DEF Executable
    <2>7. CASE crashed' = crashed
        BY <2>4, <2>7
    <2>8. CASE TRUE \in TypeTest(c) /\ page[ctx[c].code].prot # "rx" /\ crashed' = TRUE
        BY <2>6, <2>8
    <2> QED
        BY <2>3, <2>7, <2>8
<1>5. TypeOK'
    BY <1>1, <1>2, <1>4 DEF IInv, TypeOK, Goto, Labels
<1>6. FaultsAreProtection'
    BY <1>1, <1>4 DEF FaultsAreProtection
<1>7. PlacesKept'
    BY <1>1, <1>3, ContextAssumption
    DEF IInv, PlacesKept, Outside, Compiling, Making, Hashing, InOneHand
<1>8. Apart'
    BY <1>3 DEF IInv, Apart
<1>9. ContextsHeld'
    <2>1. pc[t] \notin InOneHand /\ pc'[t] \notin InOneHand
        BY <1>1, <1>3 DEF InOneHand
    <2>2. \A d \in Ctx : (\E u \in Thread : pc[u] \in InOneHand /\ at[u] = d)
                            <=> (\E u \in Thread : pc'[u] \in InOneHand /\ at'[u] = d)
        BY <1>3, <2>1
    <2> QED
        BY <1>1, <2>2 DEF IInv, ContextsHeld
<1>10. CodeHeld'
    <2>1. \A d \in Ctx : HasCode(d)' <=> HasCode(d)
        BY <1>1, <1>3 DEF HasCode
    <2>2. \A u \in Thread : pc'[u] = "alloc_code" => pc[u] = "alloc_code" /\ at'[u] = at[u]
        BY <1>3
    <2> QED
        BY <1>1, <2>1, <2>2 DEF IInv, CodeHeld, WellFormed
<1>11. \A u \in Thread : /\ pc'[u] \in Compiling => pc[u] = pc'[u] /\ at'[u] = at[u]
                         /\ pc[u] \in Compiling => pc[u] = pc'[u] /\ at'[u] = at[u]
    BY <1>1, <1>3 DEF Compiling
<1>12. Current'
    BY <1>1, <1>11 DEF IInv, Current, Executable
<1>13. Compiled'
    <2>1. ASSUME NEW u \in Thread PROVE Compiled!(u)'
        <3>1. Compiled!(u)
            BY DEF IInv, Compiled
        <3>2. CASE pc'[u] \in Compiling
            BY <1>1, <1>11, <3>1, <3>2 DEF Executable
        <3>3. CASE pc'[u] \notin Compiling
            BY <3>3 DEF Compiling
        <3> QED
            BY <3>2, <3>3
    <2> QED
        BY <2>1 DEF Compiled
<1> QED
    BY <1>5, <1>6, <1>7, <1>8, <1>9, <1>10, <1>12, <1>13 DEF IInv

-----------------------------------------------------------------------------
LEMMA StepKeepsInvariant ==
    ASSUME IInv, [Next]_vars
    PROVE  IInv'
<1>1. CASE UNCHANGED vars
    BY <1>1 DEF vars, memory, call, IInv, TypeOK, FaultsAreProtection, PlacesKept, Apart,
       ContextsHeld, CodeHeld, Current, Compiled, HasCode, WellFormed, Executable
<1>2. ASSUME ~crashed, NEW t \in Thread, Enter(t) PROVE IInv'
    BY <1>2, AllocStep, FreeStep, MakeStep, ExecStep DEF Enter
<1>3. ASSUME ~crashed, NEW t \in Thread, Continue(t) PROVE IInv'
    BY <1>3, AllocCtxStep, AllocCodeStep, FreeCodeStep, FreeCtxStep, GenerateStep, VmRwStep,
       EmitStep, VmRxStep, ClearCacheStep, DrawRegistersStep, RunStep DEF Continue
<1> QED
    BY <1>1, <1>2, <1>3 DEF Next, Enter, Continue, Crashed

LEMMA InitHasInvariant == Init => IInv
<1> SUFFICES ASSUME Init PROVE IInv
    OBVIOUS
<1>1. TypeOK
    BY DEF Init, TypeOK, Labels, Types
<1>2. PlacesKept /\ Apart
    BY DEF Init, PlacesKept, Apart, Outside, Compiling, Making, Hashing, InOneHand
<1>3. ContextsHeld /\ CodeHeld
    BY DEF Init, ContextsHeld, CodeHeld, HasCode, InOneHand
<1>4. Current /\ Compiled
    BY DEF Init, Current, Compiled, Compiling
<1> QED
    BY <1>1, <1>2, <1>3, <1>4 DEF IInv, Init, FaultsAreProtection

(* The inductive invariant holds in every state the library can reach.     *)
THEOREM Invariance == Spec => []IInv
<1>1. IInv /\ [Next]_vars => IInv'
    BY StepKeepsInvariant
<1> QED
    BY <1>1, InitHasInvariant, PTL DEF Spec

(* Every field, every buffer and every local of a call has its type.       *)
THEOREM TypeCorrect == Spec => []TypeOK
<1>1. IInv => TypeOK
    BY DEF IInv
<1> QED
    BY <1>1, Invariance, PTL

(* A store or a call that faults does so at a buffer whose page protection *)
(* failed, and whose failure virtual_memory.c did not report.              *)
THEOREM FaultsExplained == Spec => []FaultsAreProtection
<1>1. IInv => FaultsAreProtection
    BY DEF IInv
<1> QED
    BY <1>1, Invariance, PTL

(* The contexts of MemoryIsOwned that have code are those of the invariant.*)
LEMMA WithCodeIsHasCode ==
    ASSUME IInv, ~crashed, NEW c \in Ctx
    PROVE  c \in WithCode <=> HasCode(c)
<1>1. ASSUME c \in WithCode, c \notin owned PROVE HasCode(c)
    <2>1. /\ ctx[c] # Gone /\ ctx[c].code # Null
          /\ \A u \in Thread : at[u] = c => pc[u] # "free_ctx"
        BY <1>1 DEF WithCode, Alive
    <2>2. PICK t \in Thread : pc[t] \in InOneHand /\ at[t] = c
        BY <1>1, <2>1 DEF IInv, ContextsHeld
    <2>3. pc[t] # "alloc_code"
        BY <2>1, <2>2 DEF IInv, CodeHeld
    <2> QED
        BY <2>1, <2>2, <2>3 DEF InOneHand, HasCode
<1>2. ASSUME HasCode(c) PROVE c \in WithCode
    <2>1. ctx[c].code # Null
        BY <1>2, TypeTells
    <2>2. ctx[c] # Gone
        BY <1>2 DEF HasCode, IInv, ContextsHeld, InOneHand
    <2>3. ASSUME NEW u \in Thread, at[u] = c, pc[u] = "free_ctx" PROVE FALSE
        <3>1. c \notin owned
            BY <2>3 DEF IInv, PlacesKept, InOneHand
        <3>2. PICK t \in Thread : pc[t] = "free_code" /\ at[t] = c
            BY <1>2, <3>1 DEF HasCode
        <3> QED
            BY <2>3, <3>2, OneHand DEF InOneHand
    <2> QED
        BY <2>1, <2>2, <2>3 DEF WithCode, Alive
<1>3. c \in owned => HasCode(c)
    BY DEF HasCode
<1> QED
    BY <1>1, <1>2, <1>3

LEMMA InvariantOwns ==
    ASSUME IInv
    PROVE  MemoryIsOwned
<1> SUFFICES ASSUME ~crashed
             PROVE  /\ Alive = InHand
                    /\ {p \in Page : page[p] # Gone} \cup {l \in List : list[l] # Gone}
                         = {ctx[c].code : c \in WithCode}
                    /\ \A c, d \in WithCode : ctx[c].code = ctx[d].code => c = d
                    /\ \A c \in WithCode :
                          ctx[c].type = IF ctx[c].code \in Page THEN "COMPILED" ELSE "INTERPRETED"
    BY DEF MemoryIsOwned
<1>1. \A c \in WithCode : c \in Ctx /\ HasCode(c)
    BY WithCodeIsHasCode DEF WithCode, Alive
<1>2. \A c \in Ctx : HasCode(c) => c \in WithCode
    BY WithCodeIsHasCode
<1>3. Alive = InHand
    <2>1. ASSUME NEW c \in Alive PROVE c \in InHand
        BY DEF Alive, InHand, IInv, ContextsHeld, InOneHand
    <2>2. ASSUME NEW c \in InHand PROVE c \in Alive
        <3>1. CASE c \in owned
            BY <3>1 DEF Alive, IInv, TypeOK, ContextsHeld
        <3>2. CASE c \notin owned
            <4>1. PICK t \in Thread : pc[t] \in InOneHand /\ at[t] = c
                BY <3>2 DEF InHand, InOneHand
            <4>2. c \in Ctx
                BY <4>1, OneHand
            <4> QED
                BY <4>1, <4>2 DEF Alive, IInv, ContextsHeld
        <3> QED
            BY <3>1, <3>2
    <2> QED
        BY <2>1, <2>2
<1>4. {p \in Page : page[p] # Gone} \cup {l \in List : list[l] # Gone}
         = {ctx[c].code : c \in WithCode}
    <2>1. ASSUME NEW p \in Page, page[p] # Gone PROVE \E c \in WithCode : ctx[c].code = p
        BY <1>2, <2>1 DEF IInv, CodeHeld
    <2>2. ASSUME NEW l \in List, list[l] # Gone PROVE \E c \in WithCode : ctx[c].code = l
        BY <1>2, <2>2 DEF IInv, CodeHeld
    <2>3. ASSUME NEW c \in WithCode
          PROVE  \/ ctx[c].code \in Page /\ page[ctx[c].code] # Gone
                 \/ ctx[c].code \in List /\ list[ctx[c].code] # Gone
        BY <1>1, TypeTells
    <2> QED
        BY <2>1, <2>2, <2>3
<1>5. \A c, d \in WithCode : ctx[c].code = ctx[d].code => c = d
    BY <1>1 DEF IInv, CodeHeld
<1>6. \A c \in WithCode :
          ctx[c].type = IF ctx[c].code \in Page THEN "COMPILED" ELSE "INTERPRETED"
    BY <1>1, TypeTells
<1> QED
    BY <1>3, <1>4, <1>5, <1>6

(* hashwx_alloc, hashwx_make and hashwx_free neither lose nor share memory *)
(* and never take a buffer for a list, however calls of threads interleave *)
(* and wherever memory runs out.                                           *)
THEOREM MemoryOwned == Spec => []MemoryIsOwned
<1>1. IInv => MemoryIsOwned
    BY InvariantOwns
<1> QED
    BY <1>1, Invariance, PTL

LEMMA InvariantDeclares ==
    ASSUME IInv, ~crashed
    PROVE  ProgramDeclared
<1>1. ASSUME NEW t \in Thread, pc[t] = "exec"
      PROVE  ctx[at[t]].has_program = TRUE
    BY <1>1, HashesCurrent DEF Hashing
<1>2. ASSUME NEW t \in Thread, pc[t] \in {"make", "exec", "run"}
      PROVE  ctx[at[t]].type # Garbage
    <2>1. at[t] \in owned
        BY <1>2 DEF IInv, PlacesKept, Making, Hashing
    <2>2. at[t] \in Ctx /\ HasCode(at[t])
        BY <2>1 DEF IInv, TypeOK, HasCode
    <2> QED
        BY <2>2, TypeTells, ContextAssumption DEF Types
<1> QED
    BY <1>1, <1>2 DEF ProgramDeclared

(* The assertion of hashwx_exec holds, and no branch is taken on a field   *)
(* that nobody wrote; also in the calls a fault of another thread finds in *)
(* progress.                                                               *)
THEOREM Declared == Spec => []ProgramDeclared
<1>1. Init => ProgramDeclared
    BY DEF Init, ProgramDeclared
<1>2. IInv /\ IInv' /\ ProgramDeclared /\ [Next]_vars => ProgramDeclared'
    <2> SUFFICES ASSUME IInv, IInv', ProgramDeclared, [Next]_vars
                 PROVE  ProgramDeclared'
        OBVIOUS
    <2>1. CASE ~crashed'
        <3>1. IInv' /\ ~crashed' => ProgramDeclared'
            BY InvariantDeclares, PTL
        <3> QED
            BY <2>1, <3>1
    <2>2. CASE crashed
        BY <2>2 DEF Next, Enter, Continue, Crashed, vars, memory, call, ProgramDeclared
    <2>3. ASSUME ~crashed, crashed' PROVE ProgramDeclared'
        <3>1. PICK t \in Thread : FreeCode(t) \/ Emit(t) \/ Run(t)
            BY <2>3 DEF Next, Enter, Continue, Crashed, vars, Alloc, AllocCtx, AllocCode, Free,
               FreeCtx, Make, Generate, VmRw, VmRx, ClearCache, Exec, DrawRegisters
        <3>2. /\ ctx' = ctx /\ pc'[t] \notin {"make", "exec", "run"}
              /\ \A u \in Thread \ {t} : pc'[u] = pc[u] /\ at'[u] = at[u]
            BY <3>1 DEF FreeCode, Emit, Run, Goto, memory, IInv, TypeOK
        <3> QED
            BY <3>2 DEF ProgramDeclared
    <2> QED
        BY <2>1, <2>2, <2>3
<1> QED
    BY <1>1, <1>2, Invariance, PTL DEF Spec

-----------------------------------------------------------------------------
(* The library implements HashApi.                                         *)

(* What a step does to the function of a context: nothing, or it           *)
(* allocates, makes or frees one.                                          *)
Same(d) == Function(d)' = Function(d)
Effect ==
    \/ \A d \in Ctx : Same(d)
    \/ \E c \in Ctx :
          /\ \A d \in Ctx \ {c} : Same(d)
          /\ \/ Function(c) = Gone /\ Function(c)' = Unmade
             \/ Function(c) # Gone /\ Function(c)' \in Seed \cup {Gone}

LEMMA FunctionIsMade ==
    ASSUME IInv, ~crashed, NEW c \in owned
    PROVE  Function(c) # Gone
<1>1. made[c] \in Seed \cup {Null}
    BY DEF IInv, TypeOK
<1> QED
    BY <1>1, ContextAssumption, FunctionAssumption DEF Function

LEMMA AllocCodeEffect ==
    ASSUME IInv, ~crashed, NEW t \in Thread, AllocCode(t)
    PROVE  Effect
<1>1. PICK c \in Ctx : c = at[t] /\ c \notin owned
    BY OneHand DEF AllocCode, InOneHand, IInv, PlacesKept
<1>2. made \in [Ctx -> Seed \cup {Null}]
    BY DEF IInv, TypeOK
<1>3. CASE owned' = owned \cup {c} /\ made' = [made EXCEPT ![c] = Null]
    <2>1. Function(c) = Gone /\ Function(c)' = Unmade
        BY <1>1, <1>2, <1>3 DEF Function
    <2>2. \A d \in Ctx \ {c} : Same(d)
        BY <1>2, <1>3 DEF Function, Same
    <2> QED
        BY <2>1, <2>2 DEF Effect
<1>4. CASE UNCHANGED <<owned, made>>
    BY <1>4 DEF Effect, Same, Function
<1> QED
    BY <1>1, <1>3, <1>4 DEF AllocCode

LEMMA FreeEffect ==
    ASSUME IInv, ~crashed, NEW t \in Thread, Free(t)
    PROVE  Effect
<1>1. PICK c \in owned : owned' = owned \ {c} /\ made' = made
    BY DEF Free
<1>2. c \in Ctx
    BY DEF IInv, TypeOK
<1>3. Function(c) # Gone /\ Function(c)' = Gone
    BY <1>1, FunctionIsMade DEF Function
<1>4. \A d \in Ctx \ {c} : Same(d)
    BY <1>1 DEF Same, Function
<1> QED
    BY <1>2, <1>3, <1>4 DEF Effect

(* hashwx_make ends in its generation or in the last step of its compiler. *)
LEMMA MadeEffect ==
    ASSUME IInv, ~crashed, NEW t \in Thread, pc[t] \in Making, Made(t), owned' = owned
    PROVE  Effect
<1>1. PICK c \in Ctx : c = at[t] /\ c \in owned /\ seed[t] \in Seed
    BY OneHand DEF IInv, TypeOK, PlacesKept
<1>2. made \in [Ctx -> Seed \cup {Null}] /\ made' = [made EXCEPT ![c] = seed[t]]
    BY <1>1 DEF IInv, TypeOK, Made
<1>3. Function(c)' \in Seed
    BY <1>1, <1>2, ContextAssumption DEF Function
<1>4. \A d \in Ctx \ {c} : Same(d)
    BY <1>2 DEF Same, Function
<1> QED
    BY <1>1, <1>3, <1>4, FunctionIsMade DEF Effect

LEMMA EveryEffect ==
    ASSUME IInv, ~crashed, NEW t \in Thread, Enter(t) \/ Continue(t)
    PROVE  Effect
<1>1. CASE UNCHANGED <<owned, made>>
    BY <1>1 DEF Effect, Same, Function
<1>2. CASE AllocCode(t) \/ Free(t)
    BY <1>2, AllocCodeEffect, FreeEffect
<1>3. CASE Generate(t)
    <2>1. pc[t] \in Making /\ owned' = owned
        BY <1>3 DEF Generate, Making
    <2>2. Made(t) \/ made' = made
        BY <1>3 DEF Generate
    <2> QED
        BY <1>1, <2>1, <2>2, MadeEffect
<1>4. CASE ClearCache(t)
    <2>1. pc[t] \in Making /\ owned' = owned /\ Made(t)
        BY <1>4 DEF ClearCache, Making, Compiling
    <2> QED
        BY <2>1, MadeEffect
<1> QED
    BY <1>1, <1>2, <1>3, <1>4 DEF Enter, Continue, Alloc, AllocCtx, FreeCode, FreeCtx, Make,
       VmRw, Emit, VmRx, Exec, DrawRegisters, Run

LEMMA EffectImplements ==
    ASSUME Effect, answer' = Nothing
    PROVE  Api!Next
<1> DEFINE func == [c \in Ctx |-> Function(c)]
<1>1. CASE \A d \in Ctx : Same(d)
    <2>1. func' = func
        BY <1>1 DEF Same
    <2> QED
        BY <2>1 DEF Api!Next, Api!Silent
<1>2. ASSUME NEW c \in Ctx, \A d \in Ctx \ {c} : Same(d),
             Function(c) = Gone, Function(c)' = Unmade
      PROVE  Api!Next
    <2>1. func' = [func EXCEPT ![c] = Unmade]
        BY <1>2 DEF Same
    <2>2. Api!Alloc(c)
        BY <1>2, <2>1 DEF Api!Alloc
    <2> QED
        BY <2>2 DEF Api!Next
<1>3. ASSUME NEW c \in Ctx, \A d \in Ctx \ {c} : Same(d),
             Function(c) # Gone, Function(c)' \in Seed \cup {Gone}
      PROVE  Api!Next
    <2>1. PICK s \in Seed \cup {Gone} : s = Function(c)'
        BY <1>3
    <2>2. func' = [func EXCEPT ![c] = s]
        BY <1>3, <2>1 DEF Same
    <2>3. Api!Make(c) \/ Api!Release(c)
        BY <1>3, <2>1, <2>2 DEF Api!Make, Api!Release
    <2> QED
        BY <2>3 DEF Api!Next
<1> QED
    BY <1>1, <1>2, <1>3 DEF Effect

(* A hash is the one of the function its context was last made.            *)
LEMMA RunImplements ==
    ASSUME IInv, ~crashed, NEW t \in Thread, Run(t),
           NEW program \in Runnable(at[t]),
           answer' = [handle |-> at[t], key |-> draw[t], program |-> program]
    PROVE  Api!Exec(at[t])
<1> DEFINE func == [c \in Ctx |-> Function(c)]
<1>1. pc[t] = "run" /\ pc[t] \in Hashing /\ owned' = owned /\ made' = made
    BY DEF Run, Hashing
<1>2. PICK c \in Ctx : c = at[t] /\ c \in owned /\ HasCode(c) /\ made[c] \in Seed
    BY <1>1, HashesCurrent
<1>3. draw[t] = made[c]
    BY <1>1, <1>2 DEF IInv, PlacesKept
<1>4. program = made[c]
    <2>1. CASE ctx[c].code \in Page
        BY <1>1, <1>2, <2>1, HashesCurrent, TypeTells DEF Runnable
    <2>2. CASE ctx[c].code \notin Page
        BY <1>1, <1>2, <2>2, HashesCurrent, TypeTells DEF Runnable
    <2> QED
        BY <2>1, <2>2
<1>5. Function(c) = made[c]
    BY <1>2, ContextAssumption DEF Function
<1>6. func' = func
    BY <1>1 DEF Function
<1> QED
    BY <1>2, <1>3, <1>4, <1>5, <1>6 DEF Api!Exec

LEMMA StepImplements ==
    ASSUME IInv, [HNext]_hvars
    PROVE  [Api!Next]_Api!vars
<1>1. CASE UNCHANGED hvars
    <2>1. UNCHANGED <<owned, made, answer>>
        BY <1>1 DEF hvars, vars
    <2>2. [c \in Ctx |-> Function(c)]' = [c \in Ctx |-> Function(c)]
        BY <2>1 DEF Function
    <2> QED
        BY <2>1, <2>2 DEF Api!vars
<1>2. ASSUME NEW t \in Thread, Next, Run(t), ~crashed',
             NEW program \in Runnable(at[t]),
             answer' = [handle |-> at[t], key |-> draw[t], program |-> program]
      PROVE  Api!Next
    <2>1. ~crashed
        BY <1>2 DEF Next, Enter, Continue, Crashed, vars
    <2>2. at[t] \in Ctx
        BY <1>2, <2>1, HashesCurrent DEF Run, Hashing
    <2> QED
        BY <1>2, <2>1, <2>2, RunImplements DEF Api!Next
<1>3. ASSUME Next, answer' = Nothing PROVE Api!Next
    <2>1. Effect
        <3>1. CASE Crashed
            BY <3>1 DEF Crashed, vars, Effect, Same, Function
        <3>2. ASSUME NEW t \in Thread, Enter(t) \/ Continue(t) PROVE Effect
            BY <3>2, EveryEffect DEF Enter, Continue
        <3> QED
            BY <1>3, <3>1, <3>2 DEF Next
    <2> QED
        BY <1>3, <2>1, EffectImplements
<1> QED
    BY <1>1, <1>2, <1>3 DEF HNext

(* Every execution of the library is one of HashApi: a hash is made of the *)
(* seed its context was last made with, key and program both, whatever     *)
(* other threads do and whichever page protection fails.                   *)
THEOREM Refinement == HSpec => ImplementsApi
<1>1. HInit => Api!Init
    BY DEF HInit, Init, Api!Init, Function
<1>2. HInit => IInv
    BY InitHasInvariant DEF HInit
<1>3. IInv /\ [HNext]_hvars => IInv'
    <2>1. [HNext]_hvars => [Next]_vars
        BY DEF HNext, hvars
    <2> QED
        BY <2>1, StepKeepsInvariant
<1>4. IInv /\ [HNext]_hvars => [Api!Next]_Api!vars
    BY StepImplements
<1> QED
    BY <1>1, <1>2, <1>3, <1>4, PTL DEF HSpec, ImplementsApi, Api!Spec
=============================================================================
