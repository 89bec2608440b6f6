--------------------------- MODULE ContextRefinement ---------------------------
(***************************************************************************)
(* The library implements HashApi: a call takes effect, for every thread   *)
(* at once, when it returns (a free, when it begins).                      *)
(***************************************************************************)
EXTENDS Context

CONSTANTS Unmade, Nothing

ASSUME FunctionAssumption == Unmade \notin Seed \cup {Gone, Garbage}

VARIABLE answer    \* history: what the hash that just returned was made of

hvars == <<vars, answer>>

HInit == Init /\ answer = Nothing

(* The program a core fetches from a buffer whose stores have not reached  *)
(* it may be an older one.                                                 *)
HNext ==
    /\ Next
    /\ \/ \E t \in Thread :
             /\ Run(t) /\ ~crashed'
             /\ \E program \in Runnable(at[t]) :
                   answer' = [handle |-> at[t], key |-> draw[t], program |-> program]
       \/ /\ ~ \E t \in Thread : Run(t) /\ ~crashed'
          /\ answer' = Nothing

HSpec == HInit /\ [][HNext]_hvars /\ \A t \in Thread : WF_vars(Continue(t))

Function(c) ==
    IF c \notin owned THEN Gone ELSE IF made[c] = Null THEN Unmade ELSE made[c]

Api == INSTANCE HashApi
    WITH Handle <- Ctx, Absent <- Gone, Undefined <- Garbage,
         func <- [c \in Ctx |-> Function(c)]

(* Whatever other threads allocate, make, hash and free meanwhile, a hash  *)
(* is the one of the function its context was last made: its program and   *)
(* the key of its registers are both of the latest hashwx_make, also when  *)
(* a page protection failed in it, and when the context was made before or *)
(* its memory belonged to another one.                                     *)
ImplementsApi == Api!Spec
=============================================================================
