------------------------------- MODULE HashApi --------------------------------
(***************************************************************************)
(* What include/hashwx.h promises: an instance is allocated, is made the   *)
(* function of a seed as often as the caller likes, hashes with the        *)
(* function made last, and is freed.  A hash takes its registers from the  *)
(* key and its program from the words of one and the same seed.  The C     *)
(* library (ContextRefinement) and the JavaScript class (JsGlue) are shown *)
(* to implement this machine.                                              *)
(***************************************************************************)
CONSTANTS
    Handle, Seed,
    Absent,        \* not allocated
    Unmade,        \* allocated, without a function
    Undefined,     \* hashwx_make did not come to its end
    Nothing        \* no hash was returned by this step

VARIABLES
    func,          \* the function each instance is, a seed
    answer         \* the hash this step returned, or Nothing

vars == <<func, answer>>

Init ==
    /\ func = [h \in Handle |-> Absent]
    /\ answer = Nothing

Alloc(h) ==
    /\ func[h] = Absent
    /\ func' = [func EXCEPT ![h] = Unmade]
    /\ answer' = Nothing

Make(h) ==
    /\ func[h] # Absent
    /\ \E s \in Seed \cup {Undefined} : func' = [func EXCEPT ![h] = s]
    /\ answer' = Nothing

Exec(h) ==
    /\ func[h] \in Seed
    /\ answer' = [handle |-> h, key |-> func[h], program |-> func[h]]
    /\ UNCHANGED func

Release(h) ==
    /\ func[h] # Absent
    /\ func' = [func EXCEPT ![h] = Absent]
    /\ answer' = Nothing

(* A piece of a call between its begin and its end.                        *)
Silent == answer' = Nothing /\ UNCHANGED func

Next == Silent \/ \E h \in Handle : Alloc(h) \/ Make(h) \/ Exec(h) \/ Release(h)

Spec == Init /\ [][Next]_vars
=============================================================================
