----------------------------- MODULE JsGlueProofs -----------------------------
(***************************************************************************)
(* Proofs about the JavaScript class, for any number of contexts and any   *)
(* seeds.                                                                  *)
(***************************************************************************)
EXTENDS JsGlue, LibraryProofs

N == Cardinality(Ctx)

(* The table of instances is an array whose first element is no instance.  *)
Table ==
    \E n \in 0 .. N :
        /\ instances \in [0 .. n -> Objects \cup {One, Hole}]
        /\ \A i \in 0 .. n : instances[i] = One <=> i = 0

(* An object knows the type of its context; of a handle that was made, the *)
(* key, the program and the side module are of the last make.              *)
ObjectsTell ==
    \A h \in owned :
        LET obj == instances[h]
        IN  /\ obj.is_compiled <=> ctx[obj.ctx].type = "COMPILED"
            /\ made[h] \in Seed => /\ ctx[obj.ctx].key = made[h]
                                   /\ ctx[obj.ctx].text = made[h]
                                   /\ obj.is_compiled => obj.side_module = made[h]

IInv ==
    /\ Table
    /\ ctx \in [Ctx -> {Gone} \cup Contexts]
    /\ made \in [0 .. N -> Seed \cup {Unmade, Undefined}]
    /\ HandlesNameInstances
    /\ ObjectsTell

-----------------------------------------------------------------------------
(* What the parts of the invariant say of the table.                       *)
LEMMA TableFacts ==
    ASSUME IInv
    PROVE  /\ N \in Nat
           /\ \E n \in 0 .. N :
                 /\ DOMAIN instances = 0 .. n
                 /\ instances \in [0 .. n -> Objects \cup {One, Hole}]
                 /\ instances[0] = One
           /\ owned \subseteq 1 .. N
           /\ \A i \in DOMAIN instances : i \in owned <=> instances[i] \in Objects
           /\ owned \subseteq DOMAIN instances
           /\ \A i \in DOMAIN instances \ owned : instances[i] = Hole \/ i = 0
<1>1. N \in Nat
    BY GlueAssumption, FS_CardinalityType DEF N
<1>2. PICK n \in 0 .. N : /\ instances \in [0 .. n -> Objects \cup {One, Hole}]
                          /\ \A i \in 0 .. n : instances[i] = One <=> i = 0
    BY DEF IInv, Table
<1>3. DOMAIN instances = 0 .. n /\ instances[0] = One
    BY <1>1, <1>2
<1>4. {i \in DOMAIN instances : instances[i] \notin {One, Hole}} = owned
    BY DEF IInv, HandlesNameInstances
<1>5. \A i \in DOMAIN instances : instances[i] \in Objects <=> instances[i] \notin {One, Hole}
    BY <1>2, <1>3, GlueAssumption
<1>6. \A i \in DOMAIN instances : i \in owned <=> instances[i] \in Objects
    BY <1>4, <1>5
<1>7. owned \subseteq DOMAIN instances /\ 0 \notin owned
    BY <1>3, <1>4
<1>8. owned \subseteq 1 .. N
    BY <1>1, <1>3, <1>7
<1>9. \A i \in DOMAIN instances \ owned : instances[i] = Hole \/ i = 0
    BY <1>2, <1>3, <1>4
<1> QED
    BY <1>1, <1>2, <1>3, <1>6, <1>7, <1>8, <1>9

(* A handle's object names a context that is allocated.                    *)
LEMMA HandleFacts ==
    ASSUME IInv, NEW h \in owned
    PROVE  /\ h \in DOMAIN instances /\ h \in 1 .. N
           /\ instances[h] \in Objects
           /\ instances[h].ctx \in Ctx
           /\ ctx[instances[h].ctx] \in Contexts
           /\ instances[h].is_compiled \in BOOLEAN
           /\ instances[h].is_compiled <=> ctx[instances[h].ctx].type = "COMPILED"
<1>1. h \in DOMAIN instances /\ h \in 1 .. N /\ instances[h] \in Objects
    BY TableFacts
<1>2. instances[h].ctx \in Ctx /\ instances[h].is_compiled \in BOOLEAN
    BY <1>1 DEF Objects
<1>3. ctx[instances[h].ctx] # Gone
    BY DEF IInv, HandlesNameInstances
<1> QED
    BY <1>1, <1>2, <1>3 DEF IInv, ObjectsTell

(* While a context is left, the table has room: a hole, or, when all its   *)
(* elements are instances, an end that is within the number of contexts.   *)
LEMMA SlotIsFree ==
    ASSUME IInv, NEW c \in Ctx, ctx[c] = Gone
    PROVE  /\ new_instance \in 1 .. N
           /\ new_instance \notin owned
           /\ \E n \in 0 .. N : DOMAIN instances \cup {new_instance} = 0 .. n
<1> DEFINE holes == {i \in DOMAIN instances : instances[i] = Hole}
<1>1. PICK n \in 0 .. N : /\ DOMAIN instances = 0 .. n
                          /\ instances \in [0 .. n -> Objects \cup {One, Hole}]
                          /\ instances[0] = One
    BY TableFacts
<1>2. N \in Nat /\ n \in Nat
    BY <1>1, TableFacts
<1>3. \A i \in holes : i \in 1 .. n /\ i \notin owned
    BY <1>1, <1>2, TableFacts, GlueAssumption
<1>4. CASE holes # {}
    <2>1. new_instance = Min(holes)
        BY <1>4 DEF new_instance
    <2>2. holes \in SUBSET Nat
        BY <1>2, <1>3
    <2>3. new_instance \in holes
        BY <1>4, <2>1, <2>2, LeastNumber
    <2> QED
        BY <1>1, <1>2, <1>3, <2>3
<1>5. CASE holes = {}
    <2>1. new_instance = n + 1
        <3>1. Cardinality(0 .. n) = n + 1
            BY <1>2, FS_Interval
        <3> QED
            BY <1>1, <1>5, <3>1 DEF new_instance
    <2>2. 1 .. n \subseteq owned
        <3>1. \A i \in 1 .. n : i \in DOMAIN instances /\ i \notin holes /\ i # 0
            BY <1>1, <1>5
        <3> QED
            BY <3>1, TableFacts
    <2> DEFINE f == [h \in 1 .. n |-> instances[h].ctx]
    <2>3. f \in Injection(1 .. n, Ctx \ {c})
        <3>1. \A h \in 1 .. n : instances[h].ctx \in Ctx \ {c}
            BY <2>2, HandleFacts DEF IInv, HandlesNameInstances
        <3>2. \A g, h \in 1 .. n : instances[g].ctx = instances[h].ctx => g = h
            BY <2>2 DEF IInv, HandlesNameInstances
        <3> QED
            BY <3>1, <3>2 DEF Injection, IsInjective
    <2> HIDE DEF f
    <2>4. IsFiniteSet(Ctx \ {c}) /\ Cardinality(Ctx \ {c}) = N - 1
        BY FS_RemoveElement, GlueAssumption DEF N
    <2>5. Cardinality(1 .. n) = n
        BY <1>2, FS_Interval
    <2>6. Cardinality(1 .. n) <= Cardinality(Ctx \ {c})
        BY <2>3, <2>4, FS_Injection
    <2>7. n + 1 <= N
        BY <1>2, <2>4, <2>5, <2>6
    <2>8. new_instance \notin owned
        BY <1>1, <1>2, <2>1, TableFacts
    <2>9. 0 .. n \cup {n + 1} = 0 .. n + 1
        BY <1>2
    <2> QED
        BY <1>1, <1>2, <2>1, <2>7, <2>8, <2>9
<1> QED
    BY <1>4, <1>5

-----------------------------------------------------------------------------
(* Every call keeps the invariant.                                         *)

LEMMA AllocStep ==
    ASSUME IInv, NEW type \in Types, Alloc(type)
    PROVE  IInv'
<1> DEFINE new(c) == [ctx |-> c, is_compiled |-> type = "COMPILED", side_module |-> Undefined]
<1>0. PICK i : i = new_instance
    OBVIOUS
<1>1. PICK c \in Ctx :
         /\ ctx[c] = Gone
         /\ ctx' = [ctx EXCEPT ![c] = [type |-> type, key |-> Garbage, text |-> Garbage]]
         /\ instances' = [k \in DOMAIN instances \cup {i} |-> IF k # i THEN instances[k] ELSE new(c)]
         /\ owned' = owned \cup ({i} \ {0})
         /\ made' = [made EXCEPT ![i] = Unmade]
    BY <1>0 DEF Alloc
<1>2. N \in Nat /\ i \in 1 .. N /\ i \notin owned
    BY <1>0, <1>1, SlotIsFree, TableFacts
<1>3. PICK n \in 0 .. N : DOMAIN instances \cup {i} = 0 .. n
    BY <1>0, <1>1, SlotIsFree
<1>4. PICK m \in 0 .. N : /\ DOMAIN instances = 0 .. m
                          /\ instances \in [0 .. m -> Objects \cup {One, Hole}]
                          /\ \A k \in 0 .. m : instances[k] = One <=> k = 0
    BY <1>2 DEF IInv, Table
<1>5. owned' = owned \cup {i}
    BY <1>1, <1>2
<1>6. new(c) \in Objects /\ new(c).ctx = c /\ new(c) \notin {One, Hole}
    <2>1. new(c) \in Objects /\ new(c).ctx = c
        BY DEF Objects
    <2> QED
        BY <2>1, GlueAssumption
<1> HIDE DEF new
<1>7. /\ DOMAIN instances' = DOMAIN instances \cup {i}
      /\ instances'[i] = new(c)
      /\ \A k \in DOMAIN instances : k # i => instances'[k] = instances[k]
    BY <1>1
<1>8. Table'
    <2>1. \A k \in 0 .. n : k = i \/ k \in 0 .. m
        BY <1>3, <1>4
    <2>2. \A k \in 0 .. n : instances'[k] \in Objects \cup {One, Hole}
        BY <1>4, <1>6, <1>7, <2>1
    <2>3. instances' \in [0 .. n -> Objects \cup {One, Hole}]
        BY <1>1, <1>3, <2>2
    <2>4. \A k \in 0 .. n : instances'[k] = One <=> k = 0
        BY <1>2, <1>4, <1>6, <1>7, <2>1
    <2> QED
        BY <2>3, <2>4 DEF Table, N
<1>9. ctx \in [Ctx -> {Gone} \cup Contexts] /\ made \in [0 .. N -> Seed \cup {Unmade, Undefined}]
    BY DEF IInv
<1>10. /\ ctx'[c] = [type |-> type, key |-> Garbage, text |-> Garbage]
       /\ ctx'[c] \in Contexts /\ ctx'[c] # Gone
       /\ \A d \in Ctx \ {c} : ctx'[d] = ctx[d]
    BY <1>1, <1>9, GlueAssumption DEF Contexts
<1>11. ctx' \in [Ctx -> {Gone} \cup Contexts]
    BY <1>1, <1>9, <1>10
<1>12. made' \in [0 .. N -> Seed \cup {Unmade, Undefined}]
    BY <1>1, <1>9
<1>13. \A h \in owned : /\ h # i /\ h \in DOMAIN instances /\ instances'[h] = instances[h]
                        /\ instances[h].ctx \in Ctx \ {c} /\ made'[h] = made[h]
    <2>1. \A h \in owned : h # i /\ h \in DOMAIN instances /\ h \in 1 .. N
        BY <1>2, HandleFacts
    <2>2. \A h \in owned : instances[h].ctx \in Ctx /\ ctx[instances[h].ctx] # Gone
        BY HandleFacts, GlueAssumption
    <2> QED
        BY <1>1, <1>2, <1>7, <1>9, <2>1, <2>2
<1>14. HandlesNameInstances'
    <2>1. {k \in DOMAIN instances' : instances'[k] \notin {One, Hole}} = owned'
        <3>1. {k \in DOMAIN instances : instances[k] \notin {One, Hole}} = owned
            BY DEF IInv, HandlesNameInstances
        <3> QED
            BY <1>2, <1>5, <1>6, <1>7, <3>1
    <2>2. {instances'[h].ctx : h \in owned'} = {d \in Ctx : ctx'[d] # Gone}
        <3>1. {instances[h].ctx : h \in owned} = {d \in Ctx : ctx[d] # Gone}
            BY DEF IInv, HandlesNameInstances
        <3>2. {instances'[h].ctx : h \in owned'} = {instances[h].ctx : h \in owned} \cup {c}
            BY <1>5, <1>6, <1>7, <1>13
        <3>3. {d \in Ctx : ctx'[d] # Gone} = {d \in Ctx : ctx[d] # Gone} \cup {c}
            BY <1>10
        <3> QED
            BY <3>1, <3>2, <3>3
    <2>3. \A g, h \in owned' : instances'[g].ctx = instances'[h].ctx => g = h
        <3>1. \A g, h \in owned : instances[g].ctx = instances[h].ctx => g = h
            BY DEF IInv, HandlesNameInstances
        <3> QED
            BY <1>5, <1>6, <1>7, <1>13, <3>1
    <2> QED
        BY <2>1, <2>2, <2>3 DEF HandlesNameInstances
<1>15. ObjectsTell'
    <2>1. made'[i] = Unmade /\ Unmade \notin Seed
        BY <1>1, <1>2, <1>9, GlueAssumption
    <2>2. new(c).is_compiled <=> type = "COMPILED"
        BY DEF new
    <2>3. ctx'[c].type = type
        BY <1>10
    <2>4. ASSUME NEW h \in owned PROVE ObjectsTell!(h)'
        <3>1. ctx'[instances[h].ctx] = ctx[instances[h].ctx]
            BY <1>10, <1>13
        <3> QED
            BY <1>13, <3>1 DEF IInv, ObjectsTell
    <2>5. ObjectsTell!(i)'
        BY <1>6, <1>7, <2>1, <2>2, <2>3
    <2> QED
        BY <1>5, <2>4, <2>5 DEF ObjectsTell
<1> QED
    BY <1>8, <1>11, <1>12, <1>14, <1>15 DEF IInv, N

(* What hashwx_make of the main module does to the context of a handle.    *)
LEMMA GeneratedFacts ==
    ASSUME IInv, NEW h \in owned, NEW s \in Seed, Generated(instances[h].ctx, s)
    PROVE  /\ ctx' \in [Ctx -> {Gone} \cup Contexts]
           /\ ctx'[instances[h].ctx] \in Contexts
           /\ ctx'[instances[h].ctx].type = ctx[instances[h].ctx].type
           /\ ctx'[instances[h].ctx].key = s
           /\ ctx'[instances[h].ctx].text = s
           /\ \A g \in owned \ {h} : ctx'[instances[g].ctx] = ctx[instances[g].ctx]
           /\ \A d \in Ctx : ctx'[d] # Gone <=> ctx[d] # Gone
<1>1. PICK c \in Ctx : c = instances[h].ctx /\ ctx[c] \in Contexts
    BY HandleFacts
<1>2. ctx \in [Ctx -> {Gone} \cup Contexts]
    BY DEF IInv
<1>3. ctx' = [ctx EXCEPT ![c].key = s, ![c].text = s]
    BY <1>1 DEF Generated
<1>4. /\ ctx'[c] = [ctx[c] EXCEPT !.key = s, !.text = s]
      /\ \A d \in Ctx \ {c} : ctx'[d] = ctx[d]
    BY <1>2, <1>3
<1>5. ctx'[c] \in Contexts /\ ctx'[c].type = ctx[c].type /\ ctx'[c].key = s /\ ctx'[c].text = s
    BY <1>1, <1>4 DEF Contexts
<1>6. ctx' \in [Ctx -> {Gone} \cup Contexts]
    BY <1>2, <1>3, <1>5
<1>7. \A g \in owned \ {h} : instances[g].ctx \in Ctx \ {c}
    BY <1>1, HandleFacts DEF IInv, HandlesNameInstances
<1>8. \A d \in Ctx : ctx'[d] # Gone <=> ctx[d] # Gone
    BY <1>1, <1>4, <1>5, GlueAssumption
<1> QED
    BY <1>1, <1>4, <1>5, <1>6, <1>7, <1>8

LEMMA MakeStep ==
    ASSUME IInv, NEW h \in owned, NEW s \in Seed, Make(h, s)
    PROVE  IInv'
<1>1. /\ Generated(instances[h].ctx, s)
      /\ made' = [made EXCEPT ![h] = s] /\ owned' = owned
      /\ \/ /\ instances[h].is_compiled
            /\ instances' = [instances EXCEPT ![h].side_module = ctx'[instances[h].ctx].text]
         \/ ~instances[h].is_compiled /\ instances' = instances
    BY DEF Make, SideModule
<1>2. /\ h \in DOMAIN instances /\ h \in 1 .. N
      /\ instances[h] \in Objects /\ instances[h].is_compiled \in BOOLEAN
    BY HandleFacts
<1>3. /\ ctx' \in [Ctx -> {Gone} \cup Contexts]
      /\ ctx'[instances[h].ctx].type = ctx[instances[h].ctx].type
      /\ ctx'[instances[h].ctx].key = s /\ ctx'[instances[h].ctx].text = s
      /\ \A g \in owned \ {h} : ctx'[instances[g].ctx] = ctx[instances[g].ctx]
      /\ \A d \in Ctx : ctx'[d] # Gone <=> ctx[d] # Gone
    BY <1>1, GeneratedFacts
<1>4. PICK n \in 0 .. N : /\ DOMAIN instances = 0 .. n
                          /\ instances \in [0 .. n -> Objects \cup {One, Hole}]
                          /\ \A k \in 0 .. n : instances[k] = One <=> k = 0
    BY DEF IInv, Table
<1>5. /\ DOMAIN instances' = DOMAIN instances
      /\ \A k \in DOMAIN instances : k # h => instances'[k] = instances[k]
      /\ instances' \in [0 .. n -> Objects \cup {One, Hole}]
      /\ instances'[h] \in Objects
      /\ instances'[h].ctx = instances[h].ctx
      /\ instances'[h].is_compiled = instances[h].is_compiled
      /\ instances[h].is_compiled => instances'[h].side_module = s
    <2>1. CASE instances' = [instances EXCEPT ![h].side_module = s]
        <3>1. instances'[h] = [instances[h] EXCEPT !.side_module = s]
            BY <1>2, <2>1
        <3>2. /\ instances'[h] \in Objects /\ instances'[h].ctx = instances[h].ctx
              /\ instances'[h].is_compiled = instances[h].is_compiled
              /\ instances'[h].side_module = s
            BY <1>2, <3>1 DEF Objects
        <3> QED
            BY <1>2, <1>4, <2>1, <3>2
    <2>2. CASE ~instances[h].is_compiled /\ instances' = instances
        BY <1>2, <1>4, <2>2
    <2> QED
        BY <1>1, <1>3, <2>1, <2>2
<1>6. Table'
    <2>1. \A k \in 0 .. n : instances'[k] = One <=> k = 0
        BY <1>2, <1>4, <1>5, GlueAssumption
    <2> QED
        BY <1>5, <2>1 DEF Table, N
<1>7. made \in [0 .. N -> Seed \cup {Unmade, Undefined}]
    BY DEF IInv
<1>8. /\ made' \in [0 .. N -> Seed \cup {Unmade, Undefined}]
      /\ \A g \in owned \ {h} : made'[g] = made[g] /\ instances'[g] = instances[g]
      /\ made'[h] = s
    <2>1. h \in 0 .. N
        BY <1>2
    <2>2. \A g \in owned : g \in DOMAIN instances /\ g \in 0 .. N
        BY HandleFacts
    <2> QED
        BY <1>1, <1>5, <1>7, <2>1, <2>2
<1>9. HandlesNameInstances'
    <2>1. \A g \in owned : instances'[g].ctx = instances[g].ctx
        BY <1>5, <1>8
    <2>2. \A k \in DOMAIN instances : instances'[k] \notin {One, Hole} <=> instances[k] \notin {One, Hole}
        BY <1>2, <1>5, GlueAssumption
    <2>3. {k \in DOMAIN instances' : instances'[k] \notin {One, Hole}} = owned'
        BY <1>1, <1>5, <2>2 DEF IInv, HandlesNameInstances
    <2>4. {instances'[g].ctx : g \in owned'} = {d \in Ctx : ctx'[d] # Gone}
        <3>1. {instances'[g].ctx : g \in owned} = {instances[g].ctx : g \in owned}
            BY <2>1
        <3>2. {d \in Ctx : ctx'[d] # Gone} = {d \in Ctx : ctx[d] # Gone}
            BY <1>3
        <3> QED
            BY <1>1, <3>1, <3>2 DEF IInv, HandlesNameInstances
    <2>5. \A f, g \in owned' : instances'[f].ctx = instances'[g].ctx => f = g
        BY <1>1, <2>1 DEF IInv, HandlesNameInstances
    <2> QED
        BY <2>3, <2>4, <2>5 DEF HandlesNameInstances
<1>10. ObjectsTell'
    <2>1. ASSUME NEW g \in owned \ {h} PROVE ObjectsTell!(g)'
        BY <1>3, <1>8 DEF IInv, ObjectsTell
    <2>2. ObjectsTell!(h)'
        BY <1>3, <1>5, <1>8, HandleFacts
    <2> QED
        BY <1>1, <2>1, <2>2 DEF ObjectsTell
<1> QED
    BY <1>3, <1>6, <1>8, <1>9, <1>10 DEF IInv, N

LEMMA MakeThrowsStep ==
    ASSUME IInv, NEW h \in owned, NEW s \in Seed, MakeThrows(h, s)
    PROVE  IInv'
<1>1. /\ Generated(instances[h].ctx, s)
      /\ made' = [made EXCEPT ![h] = Undefined] /\ UNCHANGED <<instances, owned>>
    BY DEF MakeThrows
<1>2. /\ ctx' \in [Ctx -> {Gone} \cup Contexts]
      /\ ctx'[instances[h].ctx].type = ctx[instances[h].ctx].type
      /\ \A g \in owned \ {h} : ctx'[instances[g].ctx] = ctx[instances[g].ctx]
      /\ \A d \in Ctx : ctx'[d] # Gone <=> ctx[d] # Gone
    BY <1>1, GeneratedFacts
<1>3. made \in [0 .. N -> Seed \cup {Unmade, Undefined}]
    BY DEF IInv
<1>4. /\ made' \in [0 .. N -> Seed \cup {Unmade, Undefined}]
      /\ \A g \in owned \ {h} : made'[g] = made[g]
      /\ made'[h] \notin Seed
    <2>1. \A g \in owned : g \in 0 .. N
        BY HandleFacts
    <2> QED
        BY <1>1, <1>3, <2>1, GlueAssumption
<1>5. Table'
    BY <1>1 DEF IInv, Table, N
<1>6. HandlesNameInstances'
    <2>1. {d \in Ctx : ctx'[d] # Gone} = {d \in Ctx : ctx[d] # Gone}
        BY <1>2
    <2> QED
        BY <1>1, <2>1 DEF IInv, HandlesNameInstances
<1>7. ObjectsTell'
    <2>1. ASSUME NEW g \in owned \ {h} PROVE ObjectsTell!(g)'
        BY <1>1, <1>2, <1>4 DEF IInv, ObjectsTell
    <2>2. ObjectsTell!(h)'
        BY <1>1, <1>2, <1>4, HandleFacts
    <2> QED
        BY <1>1, <2>1, <2>2 DEF ObjectsTell
<1> QED
    BY <1>2, <1>4, <1>5, <1>6, <1>7 DEF IInv, N

LEMMA FreeStep ==
    ASSUME IInv, NEW h, Free(h)
    PROVE  IInv'
<1>1. CASE /\ h \in DOMAIN instances /\ instances[h] \notin {One, Hole}
           /\ ctx' = [ctx EXCEPT ![instances[h].ctx] = Gone]
           /\ instances' = [instances EXCEPT ![h] = Hole]
           /\ owned' = owned \ {h} /\ made' = made
    <2>1. h \in owned
        BY <1>1 DEF IInv, HandlesNameInstances
    <2>2. PICK c \in Ctx : /\ c = instances[h].ctx
                           /\ \A g \in owned \ {h} : instances[g].ctx \in Ctx \ {c}
        BY <2>1, HandleFacts DEF IInv, HandlesNameInstances
    <2>3. ctx \in [Ctx -> {Gone} \cup Contexts] /\ ctx' = [ctx EXCEPT ![c] = Gone]
        BY <1>1, <2>2 DEF IInv
    <2>4. ctx' \in [Ctx -> {Gone} \cup Contexts]
          /\ ctx'[c] = Gone /\ \A d \in Ctx \ {c} : ctx'[d] = ctx[d]
        BY <2>3
    <2>5. PICK n \in 0 .. N : /\ DOMAIN instances = 0 .. n
                              /\ instances \in [0 .. n -> Objects \cup {One, Hole}]
                              /\ \A k \in 0 .. n : instances[k] = One <=> k = 0
        BY DEF IInv, Table
    <2>6. /\ DOMAIN instances' = DOMAIN instances /\ instances'[h] = Hole
          /\ \A k \in DOMAIN instances : k # h => instances'[k] = instances[k]
          /\ instances' \in [0 .. n -> Objects \cup {One, Hole}]
        BY <1>1, <2>5
    <2>7. Table'
        <3>1. h # 0
            BY <2>1, TableFacts
        <3>2. \A k \in 0 .. n : instances'[k] = One <=> k = 0
            BY <2>5, <2>6, <3>1, GlueAssumption
        <3> QED
            BY <2>6, <3>2 DEF Table, N
    <2>8. \A g \in owned' : /\ g \in owned \ {h} /\ instances'[g] = instances[g]
                            /\ ctx'[instances[g].ctx] = ctx[instances[g].ctx]
        BY <1>1, <2>2, <2>4, <2>6, HandleFacts
    <2>9. HandlesNameInstances'
        <3>1. {k \in DOMAIN instances' : instances'[k] \notin {One, Hole}} = owned'
            BY <1>1, <2>6 DEF IInv, HandlesNameInstances
        <3>2. {instances'[g].ctx : g \in owned'} = {instances[g].ctx : g \in owned} \ {c}
            <4>1. {instances'[g].ctx : g \in owned'} = {instances[g].ctx : g \in owned \ {h}}
                BY <1>1, <2>8
            <4>2. c \notin {instances[g].ctx : g \in owned \ {h}}
                BY <2>2
            <4>3. {instances[g].ctx : g \in owned} = {instances[g].ctx : g \in owned \ {h}} \cup {c}
                BY <2>1, <2>2
            <4> QED
                BY <4>1, <4>2, <4>3
        <3>3. {d \in Ctx : ctx'[d] # Gone} = {d \in Ctx : ctx[d] # Gone} \ {c}
            BY <2>4
        <3>4. {instances'[g].ctx : g \in owned'} = {d \in Ctx : ctx'[d] # Gone}
            BY <3>2, <3>3 DEF IInv, HandlesNameInstances
        <3>5. \A f, g \in owned' : instances'[f].ctx = instances'[g].ctx => f = g
            BY <2>8 DEF IInv, HandlesNameInstances
        <3> QED
            BY <3>1, <3>4, <3>5 DEF HandlesNameInstances
    <2>10. ObjectsTell'
        <3>1. ASSUME NEW g \in owned' PROVE ObjectsTell!(g)'
            BY <1>1, <2>8 DEF IInv, ObjectsTell
        <3> QED
            BY <3>1 DEF ObjectsTell
    <2> QED
        BY <1>1, <2>4, <2>7, <2>9, <2>10 DEF IInv, N
<1>2. CASE UNCHANGED <<instances, ctx, owned, made>>
    BY <1>2 DEF IInv, Table, N, HandlesNameInstances, ObjectsTell
<1> QED
    BY <1>1, <1>2 DEF Free, free_instance

LEMMA StepKeepsInvariant ==
    ASSUME IInv, [Next]_vars
    PROVE  IInv'
<1>1. CASE UNCHANGED <<instances, ctx, owned, made>>
    BY <1>1 DEF IInv, Table, N, HandlesNameInstances, ObjectsTell
<1> QED
    BY <1>1, AllocStep, MakeStep, MakeThrowsStep, FreeStep DEF Next, AllocFails, Exec, vars

LEMMA InitHasInvariant == Init => IInv
<1> SUFFICES ASSUME Init PROVE IInv
    OBVIOUS
<1>1. N \in Nat
    BY GlueAssumption, FS_CardinalityType DEF N
<1>2. Table
    <2>1. instances \in [0 .. 0 -> Objects \cup {One, Hole}] /\ instances[0] = One
        BY DEF Init
    <2> QED
        BY <1>1, <2>1 DEF Table
<1>3. HandlesNameInstances
    BY DEF Init, HandlesNameInstances
<1>4. ObjectsTell
    BY DEF Init, ObjectsTell
<1> QED
    BY <1>2, <1>3, <1>4 DEF IInv, Init, N

(* The inductive invariant holds after any calls.                          *)
THEOREM Invariance == Spec => []IInv
<1>1. IInv /\ [Next]_vars => IInv'
    BY StepKeepsInvariant
<1> QED
    BY <1>1, InitHasInvariant, PTL DEF Spec

(* The handles the callers hold are the instances of the table; each has a *)
(* context of its own in the linear memory, and there are no others.       *)
THEOREM HandlesName == Spec => []HandlesNameInstances
<1>1. IInv => HandlesNameInstances
    BY DEF IInv
<1> QED
    BY <1>1, Invariance, PTL

(* new_instance never makes the table longer than one slot per context and *)
(* the first element: a hole is filled before the table grows.             *)
THEOREM TableBounded == Spec => []SlotsReused
<1>1. IInv => SlotsReused
    <2> SUFFICES ASSUME IInv PROVE SlotsReused
        OBVIOUS
    <2>1. PICK n \in 0 .. N : N \in Nat /\ DOMAIN instances = 0 .. n
        BY TableFacts
    <2>2. Cardinality(DOMAIN instances) = n + 1
        BY <2>1, FS_Interval
    <2> QED
        BY <2>1, <2>2 DEF SlotsReused, N
<1> QED
    BY <1>1, Invariance, PTL

-----------------------------------------------------------------------------
(* The class implements HashApi.                                           *)

LEMMA StepImplements ==
    ASSUME IInv, [Next]_vars
    PROVE  [Api!Next]_Api!vars
<1> DEFINE func == [h \in 1 .. Cardinality(Ctx) |-> IF h \in owned THEN made[h] ELSE Gone]
<1>1. \A h \in owned : h \in 1 .. Cardinality(Ctx) /\ func[h] = made[h] /\ made[h] # Gone
    BY HandleFacts, GlueAssumption DEF N, IInv
<1>2. made \in [0 .. Cardinality(Ctx) -> Seed \cup {Unmade, Undefined}]
    BY DEF IInv, N
<1>3. ASSUME NEW type \in Types, Alloc(type) PROVE Api!Next
    <2>1. PICK i : i = new_instance /\ i \in 1 .. Cardinality(Ctx) /\ i \notin owned
        BY <1>3, SlotIsFree DEF Alloc, N
    <2>2. owned' = owned \cup {i} /\ made' = [made EXCEPT ![i] = Unmade] /\ answer' = Nothing
        BY <1>3, <2>1 DEF Alloc
    <2>3. func[i] = Gone /\ func' = [func EXCEPT ![i] = Unmade]
        <3>1. \A k \in 1 .. Cardinality(Ctx) : k # i => made'[k] = made[k]
            BY <1>2, <2>2
        <3>2. made'[i] = Unmade
            BY <1>2, <2>1, <2>2
        <3> QED
            BY <2>1, <2>2, <3>1, <3>2
    <2>4. Api!Alloc(i)
        BY <2>2, <2>3 DEF Api!Alloc
    <2> QED
        BY <2>1, <2>4 DEF Api!Next
<1>4. ASSUME NEW h \in owned, NEW s \in Seed \cup {Undefined},
             made' = [made EXCEPT ![h] = s], owned' = owned, answer' = Nothing
      PROVE  Api!Next
    <2>1. func[h] # Gone /\ func' = [func EXCEPT ![h] = s]
        <3>1. h \in 1 .. Cardinality(Ctx)
            BY <1>1
        <3>2. \A k \in 1 .. Cardinality(Ctx) : k # h => made'[k] = made[k]
            BY <1>2, <1>4
        <3>3. made'[h] = s
            BY <1>2, <1>4, <3>1
        <3> QED
            BY <1>1, <1>4, <3>1, <3>2, <3>3
    <2>2. Api!Make(h)
        BY <1>4, <2>1 DEF Api!Make
    <2> QED
        BY <1>1, <2>2 DEF Api!Next
<1>5. ASSUME NEW h \in owned, Exec(h) PROVE Api!Next
    <2>1. made[h] \in Seed /\ UNCHANGED <<owned, made>>
        BY <1>5 DEF Exec
    <2>2. answer' = [handle |-> h, key |-> made[h], program |-> made[h]]
        <3>1. /\ ctx[instances[h].ctx].key = made[h] /\ ctx[instances[h].ctx].text = made[h]
              /\ instances[h].is_compiled => instances[h].side_module = made[h]
            BY <2>1 DEF IInv, ObjectsTell
        <3>2. ~instances[h].is_compiled => ctx[instances[h].ctx].type = "INTERPRETED"
            BY HandleFacts DEF Contexts, Types
        <3> QED
            BY <1>5, <3>1, <3>2 DEF Exec
    <2>3. Api!Exec(h)
        BY <1>1, <2>1, <2>2 DEF Api!Exec
    <2> QED
        BY <1>1, <2>3 DEF Api!Next
<1>6. ASSUME NEW h, Free(h) PROVE Api!Next
    <2>1. CASE h \in owned /\ owned' = owned \ {h}
        <3>1. func[h] # Gone /\ func' = [func EXCEPT ![h] = Gone]
            BY <1>1, <1>6, <2>1 DEF Free
        <3>2. Api!Release(h)
            BY <1>6, <3>1 DEF Free, Api!Release
        <3> QED
            BY <1>1, <2>1, <3>2 DEF Api!Next
    <2>2. CASE owned' = owned
        BY <1>6, <2>2 DEF Free, Api!Next, Api!Silent
    <2>3. h \in DOMAIN instances /\ instances[h] \notin {One, Hole} => h \in owned
        BY DEF IInv, HandlesNameInstances
    <2> QED
        BY <1>6, <2>1, <2>2, <2>3 DEF Free
<1>7. CASE AllocFails
    BY <1>7 DEF AllocFails, Api!Next, Api!Silent
<1>8. CASE UNCHANGED vars
    BY <1>8 DEF vars, Api!vars
<1>9. ASSUME NEW h \in owned, NEW s \in Seed, Make(h, s) \/ MakeThrows(h, s) PROVE Api!Next
    BY <1>4, <1>9 DEF Make, MakeThrows
<1> QED
    BY <1>3, <1>5, <1>6, <1>7, <1>8, <1>9 DEF Next

(* Every history of calls is one of HashApi: a hash is made of the key and *)
(* the program of its handle's last make, and none is answered between a   *)
(* make that threw and the next.                                           *)
THEOREM Refinement == Spec => ImplementsApi
<1>1. Init => Api!Init
    BY DEF Init, Api!Init
<1>2. IInv /\ [Next]_vars => [Api!Next]_Api!vars
    BY StepImplements
<1> QED
    BY <1>1, <1>2, Invariance, PTL DEF Spec, ImplementsApi, Api!Spec
=============================================================================
