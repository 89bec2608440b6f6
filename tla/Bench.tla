-------------------------------- MODULE Bench ---------------------------------
(***************************************************************************)
(* src/bench.c: main shares the seeds out to workers, one context each,    *)
(* waits for them and adds up what they found.  A step of a worker is one  *)
(* hashwx_make or one hash with the arithmetic that follows it, a step of  *)
(* main one turn of one of its loops; the workers run between them.        *)
(***************************************************************************)
EXTENDS Integers, FiniteSets, FiniteSetsExt

CONSTANTS
    Options,          \* --start, --seeds, --nonces and --threads
    MaxInt,           \* INT_MAX
    HashOf(_, _),     \* the hash of a nonce with the function of a seed
    MaxHash,          \* UINT64_MAX
    Ctx,              \* addresses hashwx_alloc can return
    Null, Unmade, Garbage

(* The largest value a loop variable gets to is one step behind the last   *)
(* seed; beyond INT_MAX the program is undefined.                          *)
Fits(o) == o.start + o.seeds - 1 + o.threads <= MaxInt

ASSUME OptionsAssumption ==
    /\ MaxInt \in Nat
    /\ \A o \in Options :
          /\ o.start \in Nat
          /\ {o.seeds, o.nonces, o.threads} \subseteq Nat \ {0}
          /\ Fits(o)

ASSUME HashAssumption ==
    /\ MaxHash \in Nat
    /\ \A o \in Options : \A s \in 0 .. MaxInt, n \in 0 .. o.nonces - 1 :
          HashOf(s, n) \in 0 .. MaxHash

(* What the bytes of a struct worker_job can be.                           *)
Job == [ctx : Ctx, start : 0 .. MaxInt, end : 0 .. MaxInt,
        total : Nat \cup {Garbage}, best : 0 .. MaxHash \cup {Garbage},
        sum : (SUBSET ((0 .. MaxInt) \X Nat)) \cup {Garbage}]

ASSUME ValuesAssumption ==
    /\ Null # Unmade /\ {Null, Unmade} \cap 0 .. MaxInt = {}
    /\ Garbage \notin Job

VARIABLES
    options,
    pc, thd,          \* main, and its loop index
    jobs,             \* the array of struct worker_job
    func,             \* the contexts: the seed each was made of, Unmade or Null
    at, seed, nonce,  \* the workers
    results           \* total, best and sum that main prints

main == <<options, pc, thd, results>>
worker == <<at, seed, nonce>>
vars == <<main, jobs, func, worker>>

Thd == 0 .. options.threads - 1
Plus(a, b) == IF a + b <= MaxInt THEN a + b ELSE a + b - 2 * (MaxInt + 1)
Xor(a, b) == (a \ b) \cup (b \ a)
Less(a, b) == IF a < b THEN a ELSE b

Init ==
    /\ options \in Options
    /\ pc = "begin"
    /\ thd = 0
    /\ jobs = [t \in Thd |-> Garbage]
    /\ func = [c \in Ctx |-> Null]
    /\ at = [t \in Thd |-> "none"]
    /\ seed = [t \in Thd |-> 0]
    /\ nonce = [t \in Thd |-> 0]
    /\ results = [total |-> 0, best |-> MaxHash, sum |-> {}]

(* Mutants: every job begins with the first seed; the next seed is that of *)
(* the worker behind.                                                      *)
MutFirstSeed(t) == options.start
MutNextSeed(t) == Plus(seed[t], options.threads + 1)

FirstSeed(t) == Plus(options.start, t)
NextSeed(t) == Plus(seed[t], options.threads)

-----------------------------------------------------------------------------
(* main                                                                    *)
Loop(label) ==
    IF thd + 1 = options.threads THEN pc' = label /\ thd' = 0
    ELSE thd' = thd + 1 /\ UNCHANGED pc

(* Returning from main ends the process, whatever its threads do.          *)
Exit ==
    /\ pc' = "exit"
    /\ UNCHANGED <<options, thd, results, jobs, func, worker>>

(* Without C11 threads only one is possible; the array may not be had.     *)
Begin ==
    /\ pc = "begin"
    /\ \/ pc' = "alloc" /\ UNCHANGED <<options, thd, results, jobs, func, worker>>
       \/ Exit

Alloc ==
    /\ pc = "alloc"
    /\ \/ /\ \E c \in Ctx :
                /\ func[c] = Null
                /\ func' = [func EXCEPT ![c] = Unmade]
                /\ jobs' = [jobs EXCEPT ![thd] =
                               [ctx |-> c, start |-> FirstSeed(thd),
                                end |-> Plus(options.seeds, options.start),
                                total |-> Garbage, best |-> Garbage, sum |-> Garbage]]
          /\ Loop("create")
          /\ UNCHANGED <<options, results, worker>>
       \/ Exit

(* A single job is run by main itself, which then has nobody to wait for.  *)
Create ==
    /\ pc = "create"
    /\ \/ /\ at' = [at EXCEPT ![thd] = "start"]
          /\ Loop("join")
          /\ UNCHANGED <<options, results, jobs, func, seed, nonce>>
       \/ options.threads > 1 /\ Exit

(* Mutant: main waits until the worker has begun.                          *)
MutJoin ==
    /\ pc = "join"
    /\ at[thd] # "start"
    /\ Loop("report")
    /\ UNCHANGED <<options, results, jobs, func, worker>>

Join ==
    /\ pc = "join"
    /\ at[thd] = "ended"
    /\ Loop("report")
    /\ UNCHANGED <<options, results, jobs, func, worker>>

Report ==
    LET job == jobs[thd]
    IN  /\ pc = "report"
        /\ results' = [total |-> results.total + job.total,
                       best |-> Less(job.best, results.best),
                       sum |-> Xor(results.sum, job.sum)]
        /\ func' = [func EXCEPT ![job.ctx] = Null]
        /\ Loop("done")
        /\ UNCHANGED <<options, jobs, worker>>

-----------------------------------------------------------------------------
(* worker                                                                  *)
Start(t) ==
    /\ at[t] = "start"
    /\ jobs' = [jobs EXCEPT ![t].total = 0, ![t].best = MaxHash, ![t].sum = {}]
    /\ seed' = [seed EXCEPT ![t] = jobs[t].start]
    /\ at' = [at EXCEPT ![t] = "seed"]
    /\ UNCHANGED <<main, func, nonce>>

MakeSeed(t) ==
    /\ at[t] = "seed"
    /\ \/ /\ seed[t] < jobs[t].end
          /\ func' = [func EXCEPT ![jobs[t].ctx] = seed[t]]
          /\ nonce' = [nonce EXCEPT ![t] = 0]
          /\ at' = [at EXCEPT ![t] = "nonce"]
       \/ /\ seed[t] >= jobs[t].end
          /\ at' = [at EXCEPT ![t] = "ended"]
          /\ UNCHANGED <<func, nonce>>
    /\ UNCHANGED <<main, jobs, seed>>

Hashed(t) ==
    LET made == func[jobs[t].ctx]
    IN  jobs' = [jobs EXCEPT ![t].sum = Xor(@, {<<made, nonce[t]>>}),
                             ![t].best = Less(HashOf(made, nonce[t]), @)]

(* Mutant: the nonce stays what it is.                                     *)
MutHash(t) ==
    /\ at[t] = "nonce"
    /\ nonce[t] < options.nonces
    /\ Hashed(t)
    /\ UNCHANGED <<main, func, worker>>

Hash(t) ==
    /\ at[t] = "nonce"
    /\ nonce[t] < options.nonces
    /\ Hashed(t)
    /\ nonce' = [nonce EXCEPT ![t] = @ + 1]
    /\ UNCHANGED <<main, func, at, seed>>

SeedDone(t) ==
    /\ at[t] = "nonce"
    /\ nonce[t] >= options.nonces
    /\ jobs' = [jobs EXCEPT ![t].total = @ + options.nonces]
    /\ seed' = [seed EXCEPT ![t] = NextSeed(t)]
    /\ at' = [at EXCEPT ![t] = "seed"]
    /\ UNCHANGED <<main, func, nonce>>

-----------------------------------------------------------------------------
Main == Begin \/ Alloc \/ Create \/ Join \/ Report
Worker(t) == pc # "exit" /\ (Start(t) \/ MakeSeed(t) \/ Hash(t) \/ SeedDone(t))
Ended == pc \in {"exit", "done"} /\ UNCHANGED vars

Next == Main \/ (\E t \in Thd : Worker(t)) \/ Ended

(* Main and every worker is a thread the system schedules.                 *)
Spec ==
    /\ Init /\ [][Next]_vars /\ WF_vars(Main)
    /\ \A t \in 0 .. Max({o.threads : o \in Options}) - 1 :
          WF_vars(t \in Thd /\ Worker(t))

-----------------------------------------------------------------------------
Jobs == {t \in Thd : jobs[t] # Garbage}

(* The type invariant: no int of the program overflows.                    *)
TypeOK ==
    /\ options \in Options
    /\ pc \in {"begin", "alloc", "create", "join", "report", "done", "exit"}
    /\ thd \in Thd
    /\ \A t \in Jobs : {jobs[t].start, jobs[t].end} \subseteq 0 .. MaxInt
    /\ func \in [Ctx -> 0 .. MaxInt \cup {Unmade, Null}]
    /\ at \in [Thd -> {"none", "start", "seed", "nonce", "ended"}]
    /\ seed \in [Thd -> 0 .. MaxInt]
    /\ nonce \in [Thd -> 0 .. options.nonces]

(* The callers' side of hashwx.h: a context a worker makes and hashes with *)
(* is used by no other worker, and main frees it when the worker is done.  *)
(* It is what Context assumes of them.                                     *)
ContextsPrivate ==
    /\ \A t \in Thd : at[t] \in {"start", "seed", "nonce"} => func[jobs[t].ctx] # Null
    /\ \A t, u \in Jobs : jobs[t].ctx = jobs[u].ctx => t = u
    /\ pc = "done" => \A c \in Ctx : func[c] = Null

(* However the workers ran, the totals are those of every seed with every  *)
(* nonce, once: with fewer seeds than threads, and up to INT_MAX.          *)
Pairs ==
    (options.start .. options.start + options.seeds - 1) \X (0 .. options.nonces - 1)
ResultsComplete ==
    pc = "done" =>
        results = [total |-> options.seeds * options.nonces,
                   best |-> Min({HashOf(p[1], p[2]) : p \in Pairs} \cup {MaxHash}),
                   sum |-> Pairs]

(* The benchmark ends, with its results or because something was not to be *)
(* had.                                                                    *)
Termination == <>(pc \in {"exit", "done"})
=============================================================================
