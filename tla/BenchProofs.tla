----------------------------- MODULE BenchProofs ------------------------------
(***************************************************************************)
(* Proofs about the benchmark, for any options within the ints, any number *)
(* of workers and any hashes.                                              *)
(***************************************************************************)
EXTENDS Bench, LibraryProofs

-----------------------------------------------------------------------------
(* The seeds that are the turn of worker t under options o, and of all     *)
(* pairs of a seed and a nonce those of its share, those with the seeds    *)
(* before s, and those with seed s and the nonces before n.                *)
Turn(o, t, s) == \E q \in Nat : s = o.start + t + q * o.threads
PairsOf(o) == (o.start .. o.start + o.seeds - 1) \X (0 .. o.nonces - 1)
Share(o, t) == {p \in PairsOf(o) : Turn(o, t, p[1])}
Finished(o, t, s) == {p \in Share(o, t) : p[1] < s}
Begun(s, n) == {s} \X (0 .. n - 1)

(* A least hash of a set of pairs.                                         *)
Least(b, P) ==
    /\ b \in 0 .. MaxHash
    /\ b = MaxHash \/ \E p \in P : b = HashOf(p[1], p[2])
    /\ \A p \in P : HashOf(p[1], p[2]) \in 0 .. MaxHash /\ b <= HashOf(p[1], p[2])

-----------------------------------------------------------------------------
(* The inductive invariant.                                                *)

(* The loops of main one after the other: which jobs are written, which    *)
(* workers are not running yet, which are joined and which are reported.   *)
Written(t) == (pc = "alloc" /\ t < thd) \/ pc \in {"create", "join", "report", "done"}
Unborn(t) == pc \in {"begin", "alloc"} \/ (pc = "create" /\ t >= thd)
Joined(t) == (pc = "join" /\ t < thd) \/ pc \in {"report", "done"}
Reported(t) == (pc = "report" /\ t < thd) \/ pc = "done"

LastSeed == options.start + options.seeds     \* one behind the last seed

MainKept ==
    pc # "exit" =>
        /\ pc = "begin" => thd = 0
        /\ \A t \in Thd : /\ jobs[t] # Garbage <=> Written(t)
                          /\ at[t] = "none" <=> Unborn(t)
                          /\ Joined(t) => at[t] = "ended"
        /\ \A c \in Ctx : func[c] # Null <=>
              \E t \in Thd : Written(t) /\ ~Reported(t) /\ jobs[t].ctx = c

JobsKept ==
    /\ jobs \in [Thd -> {Garbage} \cup Job]
    /\ \A t \in Jobs : jobs[t].start = options.start + t /\ jobs[t].end = LastSeed
    /\ \A t, u \in Jobs : jobs[t].ctx = jobs[u].ctx => t = u

(* What a worker has hashed of its share.                                  *)
Works(t) ==
    /\ at[t] # "none" => t \in Jobs
    /\ at[t] \in {"start", "seed", "nonce"} => func[jobs[t].ctx] # Null
    /\ at[t] \in {"seed", "nonce", "ended"} =>
          /\ Turn(options, t, seed[t])
          /\ jobs[t].total = Cardinality(Finished(options, t, seed[t]))
          /\ Least(jobs[t].best, jobs[t].sum)
    /\ at[t] \in {"seed", "ended"} => jobs[t].sum = Finished(options, t, seed[t])
    /\ at[t] = "nonce" =>
          /\ seed[t] < LastSeed
          /\ func[jobs[t].ctx] = seed[t]
          /\ jobs[t].sum = Finished(options, t, seed[t]) \cup Begun(seed[t], nonce[t])
    /\ at[t] = "ended" => seed[t] >= LastSeed
WorkKept == \A t \in Thd : Works(t)

(* What main has added up.                                                 *)
Counted == {p \in PairsOf(options) : \E t \in Thd : Reported(t) /\ p \in Share(options, t)}
ResultsKept ==
    /\ results \in [total : Nat, best : 0 .. MaxHash, sum : SUBSET PairsOf(options)]
    /\ pc # "exit" => /\ results.sum = Counted
                      /\ results.total = Cardinality(Counted)
                      /\ Least(results.best, Counted)

IInv ==
    /\ TypeOK
    /\ MainKept
    /\ JobsKept
    /\ WorkKept
    /\ ResultsKept

-----------------------------------------------------------------------------
(* The seeds are dealt out like cards: each is the turn of one worker.     *)

LEMMA OptionFacts ==
    ASSUME NEW o \in Options
    PROVE  /\ o.start \in Nat
           /\ o.seeds \in Nat \ {0}
           /\ o.nonces \in Nat \ {0}
           /\ o.threads \in Nat \ {0}
           /\ o.start + o.seeds - 1 + o.threads <= MaxInt
           /\ MaxInt \in Nat
           /\ o.start + o.seeds <= MaxInt
<1>1. /\ o.start \in Nat /\ MaxInt \in Nat
      /\ {o.seeds, o.nonces, o.threads} \subseteq Nat \ {0}
      /\ Fits(o)
    BY OptionsAssumption
<1> QED
    BY <1>1 DEF Fits

LEMMA TurnFacts ==
    ASSUME NEW o \in Options, NEW t \in 0 .. o.threads - 1, NEW s, Turn(o, t, s)
    PROVE  /\ s \in Nat
           /\ s >= o.start + t
           /\ Turn(o, t, s + o.threads)
<1>1. /\ o.start \in Nat /\ o.threads \in Nat /\ t \in Nat
    BY OptionFacts
<1>2. PICK q \in Nat : s = o.start + t + q * o.threads
    BY DEF Turn
<1>3. q * o.threads \in Nat
    BY <1>1
<1>4. s + o.threads = o.start + t + (q + 1) * o.threads
    <2>1. (q + 1) * o.threads = q * o.threads + o.threads
        BY <1>1, ProductNext
    <2> QED
        BY <1>1, <1>2, <1>3, <2>1
<1>5. q + 1 \in Nat
    OBVIOUS
<1> QED
    BY <1>1, <1>2, <1>3, <1>4, <1>5 DEF Turn

LEMMA TurnFirst ==
    ASSUME NEW o \in Options, NEW t \in 0 .. o.threads - 1
    PROVE  Turn(o, t, o.start + t)
<1>1. o.start + t = o.start + t + 0 * o.threads
    BY OptionFacts
<1> QED
    BY <1>1 DEF Turn

(* Two turns of one worker are a round apart.                              *)
LEMMA TurnApart ==
    ASSUME NEW o \in Options, NEW t \in 0 .. o.threads - 1, NEW r, NEW s,
           Turn(o, t, r), Turn(o, t, s), r < s + o.threads
    PROVE  r <= s
<1>1. /\ o.start \in Nat /\ o.threads \in Nat /\ t \in Nat
    BY OptionFacts
<1>2. PICK p \in Nat : r = o.start + t + p * o.threads
    BY DEF Turn
<1>3. PICK q \in Nat : s = o.start + t + q * o.threads
    BY DEF Turn
<1>4. p * o.threads \in Nat /\ q * o.threads \in Nat
    BY <1>1
<1>5. CASE p <= q
    <2>1. p = q \/ p < q
        BY <1>5
    <2>2. p < q => p * o.threads + o.threads <= q * o.threads
        BY <1>1, ProductOrder
    <2> QED
        BY <1>1, <1>2, <1>3, <1>4, <2>1, <2>2
<1>6. CASE q < p
    <2>1. q * o.threads + o.threads <= p * o.threads
        BY <1>1, <1>6, ProductOrder
    <2> QED
        BY <1>1, <1>2, <1>3, <1>4, <2>1
<1> QED
    BY <1>5, <1>6

(* No seed is the turn of two workers.                                     *)
LEMMA TurnOfOne ==
    ASSUME NEW o \in Options, NEW s,
           NEW t \in 0 .. o.threads - 1, NEW u \in 0 .. o.threads - 1,
           Turn(o, t, s), Turn(o, u, s)
    PROVE  t = u
<1>1. /\ o.start \in Nat /\ o.threads \in Nat
      /\ t \in Nat /\ u \in Nat /\ t < o.threads /\ u < o.threads
    BY OptionFacts
<1>2. PICK p \in Nat : s = o.start + t + p * o.threads
    BY DEF Turn
<1>3. PICK q \in Nat : s = o.start + u + q * o.threads
    BY DEF Turn
<1>4. p * o.threads \in Nat /\ q * o.threads \in Nat
    BY <1>1
<1>5. p < q => p * o.threads + o.threads <= q * o.threads
    BY <1>1, ProductOrder
<1>6. q < p => q * o.threads + o.threads <= p * o.threads
    BY <1>1, ProductOrder
<1>7. ~ p < q /\ ~ q < p
    BY <1>1, <1>2, <1>3, <1>4, <1>5, <1>6
<1>8. p = q
    BY <1>7
<1> QED
    BY <1>1, <1>2, <1>3, <1>4, <1>8

(* Every seed is somebody's turn.                                          *)
LEMMA TurnOfSome ==
    ASSUME NEW o \in Options, NEW s \in Nat, s >= o.start
    PROVE  \E t \in 0 .. o.threads - 1 : Turn(o, t, s)
<1>1. /\ o.start \in Nat /\ o.threads \in Nat \ {0}
    BY OptionFacts
<1> DEFINE S == {x \in Nat : Turn(o, x, s)}
<1>2. s - o.start \in S
    <2>1. s = o.start + (s - o.start) + 0 * o.threads
        BY <1>1
    <2> QED
        BY <1>1, <2>1 DEF Turn
<1> DEFINE t == Min(S)
<1>3. t \in S /\ \A x \in S : t <= x
    <2>1. S \in SUBSET Nat /\ S # {}
        BY <1>2
    <2> HIDE DEF S
    <2> QED
        BY <2>1, LeastNumber
<1> HIDE DEF t
<1>4. PICK q \in Nat : s = o.start + t + q * o.threads
    BY <1>3 DEF Turn
<1>5. t < o.threads
    <2>1. SUFFICES ASSUME t >= o.threads PROVE FALSE
        BY <1>1, <1>3
    <2>2. t - o.threads \in Nat /\ t - o.threads < t /\ t \in Nat
        BY <1>1, <1>3, <2>1
    <2>3. s = o.start + (t - o.threads) + (q + 1) * o.threads
        <3>1. /\ (q + 1) * o.threads = q * o.threads + o.threads
              /\ q * o.threads \in Nat
            BY <1>1, ProductNext
        <3> QED
            BY <1>1, <1>4, <2>2, <3>1
    <2>4. t - o.threads \in S
        BY <2>2, <2>3 DEF Turn
    <2> QED
        BY <1>3, <2>2, <2>4
<1> QED
    BY <1>1, <1>3, <1>5

-----------------------------------------------------------------------------
(* The shares of the workers.                                              *)

LEMMA SizeOfRange ==
    ASSUME NEW a \in Nat, NEW n \in Nat \ {0}
    PROVE  /\ IsFiniteSet(a .. a + n - 1) /\ Cardinality(a .. a + n - 1) = n
           /\ IsFiniteSet(0 .. n - 1) /\ Cardinality(0 .. n - 1) = n
<1>1. ASSUME NEW c \in Int, NEW d \in Int, c <= d
      PROVE  IsFiniteSet(c .. d) /\ Cardinality(c .. d) = d - c + 1
    BY <1>1, FS_Interval
<1>2. /\ a \in Int /\ a + n - 1 \in Int /\ a <= a + n - 1
      /\ 0 \in Int /\ n - 1 \in Int /\ 0 <= n - 1
    OBVIOUS
<1>3. /\ IsFiniteSet(a .. a + n - 1) /\ Cardinality(a .. a + n - 1) = (a + n - 1) - a + 1
      /\ IsFiniteSet(0 .. n - 1) /\ Cardinality(0 .. n - 1) = (n - 1) - 0 + 1
    BY <1>1, <1>2
<1>4. (a + n - 1) - a + 1 = n /\ (n - 1) - 0 + 1 = n
    OBVIOUS
<1> QED
    BY <1>3, <1>4

LEMMA PairFacts ==
    ASSUME NEW o \in Options
    PROVE  /\ IsFiniteSet(PairsOf(o))
           /\ Cardinality(PairsOf(o)) = o.seeds * o.nonces
           /\ \A p \in PairsOf(o) :
                 /\ p[1] \in o.start .. o.start + o.seeds - 1
                 /\ p[1] \in 0 .. MaxInt
                 /\ p[2] \in 0 .. o.nonces - 1
                 /\ HashOf(p[1], p[2]) \in 0 .. MaxHash
<1>1. /\ o.start \in Nat /\ o.seeds \in Nat \ {0} /\ o.nonces \in Nat \ {0}
      /\ o.start + o.seeds <= MaxInt /\ MaxInt \in Nat
    BY OptionFacts
<1>2. /\ IsFiniteSet(o.start .. o.start + o.seeds - 1)
      /\ Cardinality(o.start .. o.start + o.seeds - 1) = o.seeds
    BY <1>1, SizeOfRange
<1>3. IsFiniteSet(0 .. o.nonces - 1) /\ Cardinality(0 .. o.nonces - 1) = o.nonces
    BY <1>1, SizeOfRange
<1>4. \A p \in PairsOf(o) : /\ p[1] \in o.start .. o.start + o.seeds - 1
                            /\ p[1] \in 0 .. MaxInt
                            /\ p[2] \in 0 .. o.nonces - 1
    BY <1>1 DEF PairsOf
<1> QED
    BY <1>2, <1>3, <1>4, FS_Product, HashAssumption DEF PairsOf

LEMMA PairsInRange ==
    ASSUME NEW o \in Options
    PROVE  PairsOf(o) \subseteq (0 .. MaxInt) \X Nat
<1>1. /\ o.start \in Nat /\ o.seeds \in Nat \ {0} /\ o.nonces \in Nat \ {0}
      /\ o.start + o.seeds <= MaxInt /\ MaxInt \in Nat
    BY OptionFacts
<1>2. o.start .. o.start + o.seeds - 1 \subseteq 0 .. MaxInt /\ 0 .. o.nonces - 1 \subseteq Nat
    BY <1>1
<1> QED
    BY <1>2 DEF PairsOf

LEMMA ShareFacts ==
    ASSUME NEW o \in Options, NEW t \in 0 .. o.threads - 1, NEW s
    PROVE  /\ Share(o, t) \subseteq PairsOf(o) /\ IsFiniteSet(Share(o, t))
           /\ Finished(o, t, s) \subseteq Share(o, t) /\ IsFiniteSet(Finished(o, t, s))
           /\ Cardinality(Finished(o, t, s)) \in Nat
<1>1. Share(o, t) \in SUBSET PairsOf(o) /\ Finished(o, t, s) \in SUBSET Share(o, t)
    BY DEF Share, Finished
<1>2. IsFiniteSet(Share(o, t))
    BY <1>1, PairFacts, FS_Subset
<1>3. IsFiniteSet(Finished(o, t, s))
    BY <1>1, <1>2, FS_Subset
<1> QED
    BY <1>1, <1>2, <1>3, FS_CardinalityType

(* Before its first seed a worker has finished none of its share, and all  *)
(* of it when its seed is beyond the last.                                 *)
LEMMA FinishedFirst ==
    ASSUME NEW o \in Options, NEW t \in 0 .. o.threads - 1
    PROVE  Finished(o, t, o.start + t) = {}
<1>1. SUFFICES ASSUME NEW p \in Finished(o, t, o.start + t) PROVE FALSE
    OBVIOUS
<1>2. Turn(o, t, p[1]) /\ p[1] < o.start + t
    BY DEF Finished, Share
<1>3. p[1] >= o.start + t /\ p[1] \in Nat
    BY <1>2, TurnFacts
<1> QED
    BY <1>2, <1>3, OptionFacts

LEMMA FinishedLast ==
    ASSUME NEW o \in Options, NEW t \in 0 .. o.threads - 1, NEW s \in Nat, s >= o.start + o.seeds
    PROVE  Finished(o, t, s) = Share(o, t)
<1>1. \A p \in Share(o, t) : p[1] < s
    BY PairFacts, OptionFacts DEF Share
<1> QED
    BY <1>1 DEF Finished

(* When it has hashed all nonces with a seed, the pairs of that seed join  *)
(* those it has finished: no other seed of its share lies between.         *)
LEMMA FinishedNext ==
    ASSUME NEW o \in Options, NEW t \in 0 .. o.threads - 1, NEW s,
           Turn(o, t, s), s < o.start + o.seeds
    PROVE  /\ Finished(o, t, s + o.threads) = Finished(o, t, s) \cup Begun(s, o.nonces)
           /\ Cardinality(Finished(o, t, s + o.threads))
                 = Cardinality(Finished(o, t, s)) + o.nonces
<1>1. /\ s \in Nat /\ s >= o.start + t /\ o.start \in Nat /\ o.threads \in Nat \ {0}
      /\ o.nonces \in Nat \ {0} /\ o.seeds \in Nat /\ t \in Nat
    BY OptionFacts, TurnFacts
<1>2. \A p \in Share(o, t) : p[1] < s + o.threads <=> p[1] < s \/ p[1] = s
    <2>1. SUFFICES ASSUME NEW p \in Share(o, t)
                   PROVE  p[1] < s + o.threads <=> p[1] < s \/ p[1] = s
        OBVIOUS
    <2>2. Turn(o, t, p[1]) /\ p[1] \in Nat
        BY TurnFacts DEF Share
    <2>3. p[1] < s + o.threads => p[1] <= s
        BY <2>2, TurnApart
    <2> QED
        BY <1>1, <2>2, <2>3
<1>3. Begun(s, o.nonces) \subseteq Share(o, t)
    BY <1>1 DEF Begun, Share, PairsOf
<1>4. \A p \in Share(o, t) : p[1] = s => p \in Begun(s, o.nonces)
    BY DEF Begun, Share, PairsOf
<1>5. \A p \in Begun(s, o.nonces) : p[1] = s
    BY DEF Begun
<1>6. Finished(o, t, s + o.threads) = Finished(o, t, s) \cup Begun(s, o.nonces)
    BY <1>1, <1>2, <1>3, <1>4, <1>5 DEF Finished
<1>7. Finished(o, t, s) \cap Begun(s, o.nonces) = {}
    BY <1>1, <1>5 DEF Finished
<1>8. IsFiniteSet(Begun(s, o.nonces)) /\ Cardinality(Begun(s, o.nonces)) = o.nonces
    <2>1. /\ IsFiniteSet({s}) /\ Cardinality({s}) = 1
          /\ IsFiniteSet(0 .. o.nonces - 1) /\ Cardinality(0 .. o.nonces - 1) = o.nonces
        BY <1>1, FS_Singleton, SizeOfRange
    <2>2. /\ IsFiniteSet({s} \X (0 .. o.nonces - 1))
          /\ Cardinality({s} \X (0 .. o.nonces - 1)) = 1 * o.nonces
        BY <2>1, FS_Product
    <2> QED
        BY <1>1, <2>2 DEF Begun
<1>9. IsFiniteSet(Finished(o, t, s)) /\ Cardinality(Finished(o, t, s)) \in Nat
    BY ShareFacts
<1>10. Cardinality(Finished(o, t, s) \cup Begun(s, o.nonces))
          = Cardinality(Finished(o, t, s)) + Cardinality(Begun(s, o.nonces)) - Cardinality({})
    BY <1>7, <1>8, <1>9, FS_Union
<1> QED
    BY <1>1, <1>6, <1>8, <1>9, <1>10, FS_EmptySet

LEMMA SharesDisjoint ==
    ASSUME NEW o \in Options, NEW t \in 0 .. o.threads - 1, NEW u \in 0 .. o.threads - 1, t # u
    PROVE  Share(o, t) \cap Share(o, u) = {}
BY TurnOfOne DEF Share

LEMMA SharesCover ==
    ASSUME NEW o \in Options
    PROVE  UNION {Share(o, t) : t \in 0 .. o.threads - 1} = PairsOf(o)
<1>1. ASSUME NEW p \in PairsOf(o) PROVE \E t \in 0 .. o.threads - 1 : p \in Share(o, t)
    <2>1. p[1] \in Nat /\ p[1] >= o.start
        BY PairFacts, OptionFacts
    <2> QED
        BY <2>1, TurnOfSome DEF Share
<1>2. \A t \in 0 .. o.threads - 1 : Share(o, t) \subseteq PairsOf(o)
    BY DEF Share
<1> QED
    BY <1>1, <1>2

-----------------------------------------------------------------------------
(* The least hash.                                                         *)

LEMMA LeastOfMore ==
    ASSUME NEW a, NEW b, NEW P, NEW Q, Least(a, P), Least(b, Q)
    PROVE  Least(Less(a, b), P \cup Q)
<1>1. a \in Nat /\ b \in Nat /\ MaxHash \in Nat
    BY HashAssumption DEF Least
<1>2. ASSUME NEW x \in Nat, NEW y \in Nat, NEW X, NEW Y, x <= y, Least(x, X), Least(y, Y)
      PROVE  Least(x, X \cup Y)
    <2>1. /\ x \in 0 .. MaxHash
          /\ x = MaxHash \/ \E p \in X \cup Y : x = HashOf(p[1], p[2])
        BY <1>2 DEF Least
    <2>2. ASSUME NEW p \in Y PROVE HashOf(p[1], p[2]) \in 0 .. MaxHash /\ x <= HashOf(p[1], p[2])
        <3>1. HashOf(p[1], p[2]) \in 0 .. MaxHash /\ y <= HashOf(p[1], p[2])
            BY <1>2 DEF Least
        <3> DEFINE h == HashOf(p[1], p[2])
        <3>2. h \in 0 .. MaxHash /\ y <= h
            BY <3>1
        <3> HIDE DEF h
        <3>3. x <= h
            BY <1>1, <1>2, <3>2
        <3> QED
            BY <3>2, <3>3 DEF h
    <2> QED
        BY <1>2, <2>1, <2>2 DEF Least
<1>3. CASE a < b
    BY <1>1, <1>2, <1>3 DEF Less
<1>4. CASE ~ a < b
    <2>1. b <= a /\ Less(a, b) = b
        BY <1>1, <1>4 DEF Less
    <2>2. Least(b, Q \cup P)
        BY <1>1, <1>2, <2>1
    <2>3. Q \cup P = P \cup Q
        OBVIOUS
    <2> QED
        BY <2>1, <2>2, <2>3
<1> QED
    BY <1>3, <1>4

(* Only one number is it.                                                  *)
LEMMA LeastIsMin ==
    ASSUME NEW b, NEW P, Least(b, P)
    PROVE  b = Min({HashOf(p[1], p[2]) : p \in P} \cup {MaxHash})
<1> DEFINE S == {HashOf(p[1], p[2]) : p \in P} \cup {MaxHash}
<1>1. S \in SUBSET Nat /\ S # {} /\ b \in S /\ b \in Nat
    BY HashAssumption DEF Least
<1>2. \A x \in S : b <= x
    BY HashAssumption DEF Least
<1> HIDE DEF S
<1>3. Min(S) \in S /\ \A x \in S : Min(S) <= x
    BY <1>1, LeastNumber
<1>4. Min(S) \in Nat /\ b <= Min(S) /\ Min(S) <= b
    BY <1>1, <1>2, <1>3
<1>5. b = Min(S)
    BY <1>1, <1>4
<1> QED
    BY <1>5 DEF S

-----------------------------------------------------------------------------
(* What the invariant says, in the form the steps use it.                  *)

LEMMA Facts ==
    ASSUME IInv
    PROVE  /\ options \in Options
           /\ options.start \in Nat
           /\ options.seeds \in Nat \ {0}
           /\ options.nonces \in Nat \ {0}
           /\ options.threads \in Nat \ {0}
           /\ options.start + options.seeds - 1 + options.threads <= MaxInt
           /\ MaxInt \in Nat
           /\ LastSeed \in 0 .. MaxInt /\ LastSeed = options.start + options.seeds
           /\ Thd = 0 .. options.threads - 1
           /\ thd \in Thd /\ thd \in Nat
           /\ \A t \in Thd : t \in Nat /\ t < options.threads
           /\ \A t \in Thd : t \in Jobs <=> jobs[t] # Garbage
           /\ \A t \in Jobs : t \in Thd /\ jobs[t] \in Job /\ jobs[t].ctx \in Ctx
<1>1. options \in Options /\ thd \in Thd
    BY DEF IInv, TypeOK
<1>2. /\ options.start \in Nat
      /\ options.seeds \in Nat \ {0}
      /\ options.nonces \in Nat \ {0}
      /\ options.threads \in Nat \ {0}
      /\ options.start + options.seeds - 1 + options.threads <= MaxInt
      /\ MaxInt \in Nat
      /\ options.start + options.seeds <= MaxInt
    BY <1>1, OptionFacts
<1>3. \A t \in Jobs : t \in Thd /\ jobs[t] \in Job /\ jobs[t].ctx \in Ctx
    BY DEF IInv, JobsKept, Jobs, Job
<1>4. \A t \in Thd : t \in Jobs <=> jobs[t] # Garbage
    BY DEF Jobs
<1> QED
    BY <1>1, <1>2, <1>3, <1>4 DEF Thd, LastSeed

(* A turn of a loop of main moves one job on, and its last turn leaves no  *)
(* job behind.                                                             *)
LEMMA Turns ==
    ASSUME IInv, NEW label, Loop(label), options' = options
    PROVE  /\ thd' \in Thd
           /\ \/ pc' = label /\ thd' = 0 /\ \A t \in Thd : t < thd \/ t = thd
              \/ pc' = pc /\ \A t \in Thd : t < thd' <=> t < thd \/ t = thd
           /\ \A t \in Thd : t >= thd <=> ~ t < thd
           /\ \A t \in Thd : t >= thd' <=> ~ t < thd'
           /\ \A t \in Thd : ~ t < 0
<1>1. /\ options.threads \in Nat \ {0} /\ Thd = 0 .. options.threads - 1
      /\ thd \in Thd
    BY Facts
<1>2. CASE thd + 1 = options.threads
    BY <1>1, <1>2 DEF Loop
<1>3. CASE thd + 1 # options.threads
    BY <1>1, <1>3 DEF Loop
<1> QED
    BY <1>2, <1>3

LEMMA AllocTurn ==
    ASSUME IInv, pc = "alloc", Loop("create"), options' = options, NEW t \in Thd
    PROVE  /\ Written(t)' <=> Written(t) \/ t = thd
           /\ Unborn(t)' /\ Unborn(t)
           /\ ~Joined(t)' /\ ~Reported(t)' /\ ~Reported(t)
           /\ ~Written(thd)
           /\ pc' # "exit" /\ pc' # "begin"
<1>1. t \in Nat /\ thd \in Nat /\ thd' \in Nat
    BY Turns, Facts
<1>2. CASE pc' = "create" /\ thd' = 0 /\ (t < thd \/ t = thd)
    BY <1>1, <1>2 DEF Written, Unborn, Joined, Reported
<1>3. CASE pc' = "alloc" /\ (t < thd' <=> t < thd \/ t = thd) /\ (t >= thd' <=> ~(t < thd'))
    BY <1>1, <1>3 DEF Written, Unborn, Joined, Reported
<1> QED
    BY <1>2, <1>3, Turns

LEMMA CreateTurn ==
    ASSUME IInv, pc = "create", Loop("join"), options' = options, NEW t \in Thd
    PROVE  /\ Written(t)' /\ Written(t)
           /\ Unborn(t)' <=> Unborn(t) /\ t # thd
           /\ Unborn(thd)
           /\ ~Joined(t)' /\ ~Joined(t)
           /\ ~Reported(t)' /\ ~Reported(t)
           /\ pc' # "exit" /\ pc' # "begin"
<1>1. t \in Nat /\ thd \in Nat /\ thd' \in Nat
    BY Turns, Facts
<1>2. CASE pc' = "join" /\ thd' = 0 /\ (t < thd \/ t = thd)
    BY <1>1, <1>2 DEF Written, Unborn, Joined, Reported
<1>3. CASE pc' = "create" /\ (t < thd' <=> t < thd \/ t = thd) /\ (t >= thd' <=> ~(t < thd'))
    BY <1>1, <1>3 DEF Written, Unborn, Joined, Reported
<1> QED
    BY <1>2, <1>3, Turns

LEMMA JoinTurn ==
    ASSUME IInv, pc = "join", Loop("report"), options' = options, NEW t \in Thd
    PROVE  /\ Written(t)' /\ Written(t)
           /\ ~Unborn(t)' /\ ~Unborn(t)
           /\ Joined(t)' <=> Joined(t) \/ t = thd
           /\ ~Reported(t)' /\ ~Reported(t)
           /\ pc' # "exit" /\ pc' # "begin"
<1>1. t \in Nat /\ thd \in Nat /\ thd' \in Nat
    BY Turns, Facts
<1>2. CASE pc' = "report" /\ thd' = 0 /\ (t < thd \/ t = thd)
    BY <1>1, <1>2 DEF Written, Unborn, Joined, Reported
<1>3. CASE pc' = "join" /\ (t < thd' <=> t < thd \/ t = thd) /\ (t >= thd' <=> ~(t < thd'))
    BY <1>1, <1>3 DEF Written, Unborn, Joined, Reported
<1> QED
    BY <1>2, <1>3, Turns

LEMMA ReportTurn ==
    ASSUME IInv, pc = "report", Loop("done"), options' = options, NEW t \in Thd
    PROVE  /\ Written(t)' /\ Written(t)
           /\ ~Unborn(t)' /\ ~Unborn(t)
           /\ Joined(t)' /\ Joined(t)
           /\ Reported(t)' <=> Reported(t) \/ t = thd
           /\ ~Reported(thd)
           /\ pc' # "exit" /\ pc' # "begin"
<1>1. t \in Nat /\ thd \in Nat /\ thd' \in Nat
    BY Turns, Facts
<1>2. CASE pc' = "done" /\ thd' = 0 /\ (t < thd \/ t = thd)
    BY <1>1, <1>2 DEF Written, Unborn, Joined, Reported
<1>3. CASE pc' = "report" /\ (t < thd' <=> t < thd \/ t = thd) /\ (t >= thd' <=> ~(t < thd'))
    BY <1>1, <1>3 DEF Written, Unborn, Joined, Reported
<1> QED
    BY <1>2, <1>3, Turns

(* What a step leaves alone of a worker.                                   *)
LEMMA WorksOn ==
    ASSUME NEW u \in Thd, Works(u), options' = options, jobs'[u] = jobs[u],
           at'[u] = at[u], seed'[u] = seed[u], nonce'[u] = nonce[u],
           at[u] \in {"start", "seed", "nonce"} => func'[jobs[u].ctx] = func[jobs[u].ctx]
    PROVE  Works(u)'
BY DEF Works, Jobs, Thd, LastSeed

-----------------------------------------------------------------------------
(* The steps of main.                                                      *)

LEMMA ExitStep == IInv /\ Exit => IInv'
<1> SUFFICES ASSUME IInv, Exit PROVE IInv'
    OBVIOUS
<1> USE DEF Exit, worker
<1>1. TypeOK'
    BY DEF IInv, TypeOK, Thd, Jobs
<1>2. MainKept'
    BY DEF MainKept
<1>3. JobsKept'
    BY DEF IInv, JobsKept, Jobs, Thd, LastSeed
<1>4. WorkKept'
    BY WorksOn DEF IInv, WorkKept, Thd
<1>5. ResultsKept'
    BY DEF IInv, ResultsKept
<1> QED
    BY <1>1, <1>2, <1>3, <1>4, <1>5 DEF IInv

LEMMA BeginStep == IInv /\ Begin => IInv'
<1> SUFFICES ASSUME IInv, Begin PROVE IInv'
    OBVIOUS
<1>1. CASE Exit
    BY <1>1, ExitStep
<1>2. CASE pc' = "alloc" /\ UNCHANGED <<options, thd, results, jobs, func, worker>>
    <2> USE <1>2 DEF worker
    <2>1. pc = "begin" /\ thd = 0
        BY DEF Begin, IInv, MainKept
    <2>2. \A t \in Thd : ~ t < thd
        BY <2>1, Facts
    <2>3. /\ Thd' = Thd
          /\ \A t \in Thd : /\ Written(t)' <=> Written(t)
                            /\ Unborn(t)' <=> Unborn(t)
                            /\ Joined(t)' <=> Joined(t)
                            /\ Reported(t)' <=> Reported(t)
        BY <2>1, <2>2 DEF Thd, Written, Unborn, Joined, Reported
    <2>4. TypeOK'
        BY DEF IInv, TypeOK, Thd, Jobs
    <2>5. MainKept'
        BY <2>1, <2>3 DEF IInv, MainKept
    <2>6. JobsKept'
        BY DEF IInv, JobsKept, Jobs, Thd, LastSeed
    <2>7. WorkKept'
        BY WorksOn DEF IInv, WorkKept, Thd
    <2>8. ResultsKept'
        <3>1. Counted' = Counted
            BY <2>3 DEF Counted
        <3> QED
            BY <2>1, <3>1 DEF IInv, ResultsKept
    <2> QED
        BY <2>4, <2>5, <2>6, <2>7, <2>8 DEF IInv
<1> QED
    BY <1>1, <1>2 DEF Begin

LEMMA AllocStep == IInv /\ Alloc => IInv'
<1> SUFFICES ASSUME IInv, Alloc, ~Exit PROVE IInv'
    BY ExitStep
<1> DEFINE job(c) == [ctx |-> c, start |-> FirstSeed(thd),
                      end |-> Plus(options.seeds, options.start),
                      total |-> Garbage, best |-> Garbage, sum |-> Garbage]
<1>1. PICK c \in Ctx : /\ func[c] = Null
                       /\ func' = [func EXCEPT ![c] = Unmade]
                       /\ jobs' = [jobs EXCEPT ![thd] = job(c)]
    BY DEF Alloc
<1>2. /\ pc = "alloc" /\ Loop("create")
      /\ options' = options /\ results' = results
      /\ at' = at /\ seed' = seed /\ nonce' = nonce
    BY DEF Alloc, worker
<1> DEFINE new == job(c)
<1>3. /\ FirstSeed(thd) = options.start + thd /\ Plus(options.seeds, options.start) = LastSeed
      /\ options.start + thd \in 0 .. MaxInt /\ LastSeed \in 0 .. MaxInt
    <2>1. /\ options.start + thd \in 0 .. MaxInt /\ LastSeed \in 0 .. MaxInt
          /\ options.seeds + options.start = LastSeed
        <3>1. /\ options.start \in Nat /\ options.seeds \in Nat \ {0} /\ MaxInt \in Nat
              /\ options.threads \in Nat
              /\ thd \in Nat /\ thd < options.threads
              /\ options.start + options.seeds - 1 + options.threads <= MaxInt
            BY Facts
        <3>2. LastSeed \in 0 .. MaxInt /\ LastSeed = options.start + options.seeds
            BY Facts
        <3> QED
            BY <3>1, <3>2
    <2> QED
        BY <2>1 DEF FirstSeed, Plus
<1>4. /\ new \in Job /\ new # Garbage
      /\ new.ctx = c /\ new.start = options.start + thd /\ new.end = LastSeed
    <2>1. new = [ctx |-> c, start |-> options.start + thd, end |-> LastSeed,
                 total |-> Garbage, best |-> Garbage, sum |-> Garbage]
        BY <1>3
    <2>2. /\ Garbage \in Nat \cup {Garbage} /\ Garbage \in 0 .. MaxHash \cup {Garbage}
          /\ Garbage \in (SUBSET ((0 .. MaxInt) \X Nat)) \cup {Garbage}
        OBVIOUS
    <2>3. new \in Job
        BY <1>3, <2>1, <2>2 DEF Job
    <2> QED
        BY <2>1, <2>3, ValuesAssumption
<1> HIDE DEF job, new
<1>5. /\ Thd' = Thd /\ thd \in Thd /\ thd' \in Thd
      /\ func \in [Ctx -> 0 .. MaxInt \cup {Unmade, Null}]
      /\ jobs \in [Thd -> {Garbage} \cup Job]
      /\ jobs' = [jobs EXCEPT ![thd] = new]
    BY <1>1, <1>2, Facts, Turns DEF IInv, TypeOK, JobsKept, Thd, new
<1>6. /\ jobs'[thd] = new
      /\ \A t \in Thd : t # thd => jobs'[t] = jobs[t]
      /\ func'[c] = Unmade /\ Unmade # Null
      /\ \A d \in Ctx : d # c => func'[d] = func[d]
    BY <1>1, <1>5, ValuesAssumption
<1>7. \A t \in Thd : /\ at[t] = "none"
                     /\ jobs[t] # Garbage <=> Written(t)
                     /\ ~Reported(t)
                     /\ Written(t) => func[jobs[t].ctx] # Null
    <2>1. \A t \in Thd : Unborn(t) /\ ~Reported(t)
        BY <1>2, AllocTurn
    <2>2. \A t \in Thd : Written(t) => jobs[t].ctx \in Ctx
        BY <1>2, Facts DEF IInv, MainKept
    <2> QED
        BY <1>2, <2>1, <2>2 DEF IInv, MainKept
<1>8. Jobs' = Jobs \cup {thd}
    BY <1>4, <1>5, <1>6 DEF Jobs
<1>9. JobsKept'
    <2>1. jobs' \in [Thd' -> {Garbage} \cup Job]
        BY <1>4, <1>5
    <2>2. LastSeed' = LastSeed
        BY <1>2 DEF LastSeed
    <2>3. \A t \in Jobs' : jobs'[t].start = options'.start + t /\ jobs'[t].end = LastSeed'
        BY <1>2, <1>4, <1>6, <1>8, <2>2, Facts DEF IInv, JobsKept
    <2>4. \A t \in Jobs : jobs[t].ctx # c
        BY <1>1, <1>7, Facts
    <2>5. \A t, u \in Jobs' : jobs'[t].ctx = jobs'[u].ctx => t = u
        BY <1>4, <1>6, <1>8, <2>4, Facts DEF IInv, JobsKept
    <2> QED
        BY <2>1, <2>3, <2>5 DEF JobsKept
<1>10. TypeOK'
    <2>1. \A t \in Jobs' : {jobs'[t].start, jobs'[t].end} \subseteq 0 .. MaxInt
        BY <1>9 DEF JobsKept, Job, Jobs
    <2>2. pc' \in {"alloc", "create"}
        BY <1>2, Turns
    <2>3. func' \in [Ctx -> 0 .. MaxInt \cup {Unmade, Null}]
        BY <1>1, <1>5
    <2> QED
        BY <1>2, <1>5, <2>1, <2>2, <2>3 DEF IInv, TypeOK
<1>11. MainKept'
    <2>1. \A t \in Thd : /\ Written(t)' <=> Written(t) \/ t = thd
                         /\ Unborn(t)' /\ ~Joined(t)' /\ ~Reported(t)'
        BY <1>2, AllocTurn
    <2>2. pc' # "begin" /\ ~Written(thd)
        BY <1>2, <1>5, AllocTurn
    <2>3. \A t \in Thd : /\ jobs'[t] # Garbage <=> Written(t)'
                         /\ at'[t] = "none" <=> Unborn(t)'
                         /\ Joined(t)' => at'[t] = "ended"
        BY <1>2, <1>4, <1>6, <1>7, <2>1
    <2>4. ASSUME NEW d \in Ctx
          PROVE  func'[d] # Null <=>
                    \E t \in Thd : Written(t)' /\ ~Reported(t)' /\ jobs'[t].ctx = d
        <3>1. CASE d = c
            BY <1>4, <1>5, <1>6, <2>1, <3>1
        <3>2. CASE d # c
            <4>1. func[d] # Null <=>
                     \E t \in Thd : Written(t) /\ ~Reported(t) /\ jobs[t].ctx = d
                BY <1>2 DEF IInv, MainKept
            <4>2. \A t \in Thd : Written(t) => t # thd
                BY <2>2
            <4> QED
                BY <1>4, <1>6, <1>7, <2>1, <3>2, <4>1, <4>2
        <3> QED
            BY <3>1, <3>2
    <2> QED
        BY <1>5, <2>2, <2>3, <2>4 DEF MainKept
<1>12. WorkKept'
    <2>1. ASSUME NEW t \in Thd PROVE Works(t)'
        BY <1>2, <1>7, <2>1 DEF Works
    <2> QED
        BY <1>5, <2>1 DEF WorkKept
<1>13. ResultsKept'
    <2>1. Counted' = Counted
        <3>1. \A t \in Thd : ~Reported(t) /\ ~Reported(t)'
            BY <1>2, AllocTurn
        <3> QED
            BY <1>5, <3>1 DEF Counted
    <2> QED
        BY <1>2, <2>1 DEF IInv, ResultsKept
<1> QED
    BY <1>9, <1>10, <1>11, <1>12, <1>13 DEF IInv

LEMMA CreateStep == IInv /\ Create => IInv'
<1> SUFFICES ASSUME IInv, Create, ~Exit PROVE IInv'
    BY ExitStep
<1>1. /\ pc = "create" /\ Loop("join")
      /\ at' = [at EXCEPT ![thd] = "start"]
      /\ options' = options /\ results' = results /\ jobs' = jobs
      /\ func' = func /\ seed' = seed /\ nonce' = nonce
    BY DEF Create
<1>2. /\ Thd' = Thd /\ thd \in Thd /\ thd' \in Thd /\ Jobs' = Jobs /\ LastSeed' = LastSeed
      /\ at \in [Thd -> {"none", "start", "seed", "nonce", "ended"}]
    BY <1>1, Facts, Turns DEF IInv, TypeOK, Thd, Jobs, LastSeed
<1>3. at'[thd] = "start" /\ \A t \in Thd : t # thd => at'[t] = at[t]
    BY <1>1, <1>2
<1>4. /\ pc' \in {"create", "join"}
      /\ \A t \in Thd : /\ Written(t)' /\ Written(t)
                        /\ Unborn(t)' <=> Unborn(t) /\ t # thd
                        /\ Unborn(thd)
                        /\ ~Joined(t)' /\ ~Joined(t)
                        /\ ~Reported(t)' /\ ~Reported(t)
    BY <1>1, CreateTurn, Turns
<1>5. TypeOK'
    BY <1>1, <1>2, <1>4 DEF IInv, TypeOK
<1>6. MainKept'
    BY <1>1, <1>2, <1>3, <1>4 DEF IInv, MainKept
<1>7. JobsKept'
    BY <1>1, <1>2 DEF IInv, JobsKept
<1>8. WorkKept'
    <2>1. ASSUME NEW t \in Thd, t # thd PROVE Works(t)'
        BY <1>1, <1>3, <2>1, WorksOn DEF IInv, WorkKept
    <2>2. thd \in Jobs /\ func[jobs[thd].ctx] # Null
        <3>1. jobs[thd] # Garbage /\ Written(thd) /\ ~Reported(thd)
            BY <1>1, <1>2, <1>4 DEF IInv, MainKept
        <3>2. jobs[thd].ctx \in Ctx /\ thd \in Jobs
            BY <1>2, <3>1, Facts
        <3> QED
            BY <1>1, <1>2, <3>1, <3>2 DEF IInv, MainKept
    <2>3. ASSUME NEW t \in Thd, t = thd PROVE Works(t)'
        BY <1>1, <1>2, <1>3, <2>2, <2>3 DEF Works
    <2> QED
        BY <1>2, <2>1, <2>3 DEF WorkKept
<1>9. ResultsKept'
    <2>1. Counted' = Counted
        BY <1>1, <1>2, <1>4 DEF Counted
    <2> QED
        BY <1>1, <2>1 DEF IInv, ResultsKept
<1> QED
    BY <1>5, <1>6, <1>7, <1>8, <1>9 DEF IInv

LEMMA JoinStep == IInv /\ Join => IInv'
<1> SUFFICES ASSUME IInv, Join PROVE IInv'
    OBVIOUS
<1>1. /\ pc = "join" /\ Loop("report") /\ at[thd] = "ended"
      /\ options' = options /\ results' = results /\ jobs' = jobs
      /\ func' = func /\ at' = at /\ seed' = seed /\ nonce' = nonce
    BY DEF Join, worker
<1>2. /\ Thd' = Thd /\ thd \in Thd /\ thd' \in Thd /\ Jobs' = Jobs /\ LastSeed' = LastSeed
    BY <1>1, Facts, Turns DEF Thd, Jobs, LastSeed
<1>3. /\ pc' \in {"join", "report"}
      /\ \A t \in Thd : /\ Written(t)' /\ Written(t)
                        /\ ~Unborn(t)' /\ ~Unborn(t)
                        /\ Joined(t)' <=> Joined(t) \/ t = thd
                        /\ ~Reported(t)' /\ ~Reported(t)
    BY <1>1, JoinTurn, Turns
<1>4. TypeOK'
    BY <1>1, <1>2, <1>3 DEF IInv, TypeOK
<1>5. MainKept'
    BY <1>1, <1>2, <1>3 DEF IInv, MainKept
<1>6. JobsKept'
    BY <1>1, <1>2 DEF IInv, JobsKept
<1>7. WorkKept'
    BY <1>1, <1>2, WorksOn DEF IInv, WorkKept
<1>8. ResultsKept'
    <2>1. Counted' = Counted
        BY <1>1, <1>2, <1>3 DEF Counted
    <2> QED
        BY <1>1, <2>1 DEF IInv, ResultsKept
<1> QED
    BY <1>4, <1>5, <1>6, <1>7, <1>8 DEF IInv

(* A worker that ended has hashed its share, no pair of which is counted   *)
(* yet.                                                                    *)
LEMMA ShareDone ==
    ASSUME IInv, NEW t \in Thd, at[t] = "ended"
    PROVE  /\ t \in Jobs
           /\ jobs[t].sum = Share(options, t)
           /\ jobs[t].total = Cardinality(Share(options, t))
           /\ Least(jobs[t].best, Share(options, t))
<1>1. Works(t)
    BY DEF IInv, WorkKept
<1>2. /\ t \in Jobs /\ Turn(options, t, seed[t]) /\ seed[t] >= LastSeed
      /\ jobs[t].total = Cardinality(Finished(options, t, seed[t]))
      /\ jobs[t].sum = Finished(options, t, seed[t])
      /\ Least(jobs[t].best, jobs[t].sum)
    BY <1>1 DEF Works
<1>3. options \in Options /\ t \in 0 .. options.threads - 1 /\ seed[t] \in Nat
    BY Facts DEF IInv, TypeOK
<1>4. Finished(options, t, seed[t]) = Share(options, t)
    BY <1>2, <1>3, Facts, FinishedLast
<1> QED
    BY <1>2, <1>4

LEMMA ReportStep == IInv /\ Report => IInv'
<1> SUFFICES ASSUME IInv, Report PROVE IInv'
    OBVIOUS
<1> DEFINE job == jobs[thd]
<1>1. /\ pc = "report" /\ Loop("done")
      /\ results' = [total |-> results.total + job.total,
                     best |-> Less(job.best, results.best),
                     sum |-> Xor(results.sum, job.sum)]
      /\ func' = [func EXCEPT ![job.ctx] = Null]
      /\ options' = options /\ jobs' = jobs
      /\ at' = at /\ seed' = seed /\ nonce' = nonce
    BY DEF Report, worker
<1>2. /\ Thd' = Thd /\ thd \in Thd /\ thd' \in Thd /\ Jobs' = Jobs /\ LastSeed' = LastSeed
      /\ func \in [Ctx -> 0 .. MaxInt \cup {Unmade, Null}]
      /\ options \in Options /\ Thd = 0 .. options.threads - 1
    BY <1>1, Facts, Turns DEF IInv, TypeOK, Thd, Jobs, LastSeed
<1>3. /\ pc' \in {"report", "done"}
      /\ \A t \in Thd : /\ Written(t)' /\ Written(t)
                        /\ ~Unborn(t)' /\ ~Unborn(t)
                        /\ Joined(t)' /\ Joined(t)
                        /\ Reported(t)' <=> Reported(t) \/ t = thd
                        /\ ~Reported(thd)
    BY <1>1, ReportTurn, Turns
<1>4. \A t \in Thd : at[t] = "ended" /\ t \in Jobs /\ jobs[t].ctx \in Ctx
    BY <1>1, <1>3, Facts, ShareDone DEF IInv, MainKept
<1>5. /\ func'[job.ctx] = Null
      /\ \A c \in Ctx : c # job.ctx => func'[c] = func[c]
      /\ func' \in [Ctx -> 0 .. MaxInt \cup {Unmade, Null}]
    BY <1>1, <1>2, <1>4
<1>6. TypeOK'
    BY <1>1, <1>2, <1>3, <1>5 DEF IInv, TypeOK
<1>7. MainKept'
    <2>1. ASSUME NEW c \in Ctx
          PROVE  func'[c] # Null <=>
                    \E t \in Thd : Written(t)' /\ ~Reported(t)' /\ jobs'[t].ctx = c
        <3>1. func[c] # Null <=>
                 \E t \in Thd : Written(t) /\ ~Reported(t) /\ jobs[t].ctx = c
            BY <1>1 DEF IInv, MainKept
        <3>2. \A t \in Thd : jobs[t].ctx = job.ctx => t = thd
            BY <1>2, <1>4 DEF IInv, JobsKept
        <3>3. CASE c = job.ctx
            BY <1>1, <1>2, <1>3, <1>5, <3>2, <3>3
        <3>4. CASE c # job.ctx
            <4>1. func'[c] = func[c]
                BY <1>5, <3>4
            <4>2. \A t \in Thd : Written(t) /\ ~Reported(t) /\ jobs[t].ctx = c <=>
                                    Written(t)' /\ ~Reported(t)' /\ jobs'[t].ctx = c
                BY <1>1, <1>3, <3>4
            <4> QED
                BY <3>1, <4>1, <4>2
        <3> QED
            BY <3>3, <3>4
    <2> QED
        BY <1>1, <1>2, <1>3, <1>4, <2>1, Facts DEF MainKept
<1>8. JobsKept'
    BY <1>1, <1>2 DEF IInv, JobsKept
<1>9. WorkKept'
    BY <1>1, <1>2, <1>4, WorksOn DEF IInv, WorkKept
<1>10. ResultsKept'
    <2> DEFINE S == Share(options, thd)
    <2>1. /\ results \in [total : Nat, best : 0 .. MaxHash, sum : SUBSET PairsOf(options)]
          /\ results.sum = Counted
          /\ results.total = Cardinality(Counted)
          /\ Least(results.best, Counted)
        BY <1>1 DEF IInv, ResultsKept
    <2>2. job.sum = S /\ job.total = Cardinality(S) /\ Least(job.best, S)
        BY <1>2, <1>4, ShareDone
    <2>3. S \subseteq PairsOf(options)
        BY DEF Share
    <2>4. Counted' = S \cup Counted
        BY <1>1, <1>2, <1>3, <2>3 DEF Counted
    <2>5. S \cap Counted = {}
        <3>1. \A t \in Thd : Reported(t) => t # thd
            BY <1>3
        <3> QED
            BY <1>2, <3>1, SharesDisjoint DEF Counted
    <2>6. /\ IsFiniteSet(S) /\ IsFiniteSet(Counted) /\ Counted \subseteq PairsOf(options)
          /\ Cardinality(S) \in Nat /\ Cardinality(Counted) \in Nat
        <3>1. Counted \subseteq PairsOf(options)
            BY DEF Counted
        <3> QED
            BY <1>2, <2>3, <3>1, PairFacts, FS_Subset, FS_CardinalityType
    <2> HIDE DEF S
    <2>7. Cardinality(S \cup Counted) = Cardinality(S) + Cardinality(Counted)
        <3>1. Cardinality(S \cup Counted)
                 = Cardinality(S) + Cardinality(Counted) - Cardinality(S \cap Counted)
            BY <2>6, FS_Union
        <3>2. Cardinality(S \cap Counted) = 0
            BY <2>5, FS_EmptySet
        <3> QED
            BY <2>6, <3>1, <3>2
    <2>8. results'.total = Cardinality(Counted') /\ results'.total \in Nat
        <3>1. results'.total = Cardinality(Counted) + Cardinality(S)
            BY <1>1, <2>1, <2>2
        <3> QED
            BY <2>4, <2>6, <2>7, <3>1
    <2>9. results'.sum = Counted' /\ results'.sum \in SUBSET PairsOf(options)
        <3>1. Xor(Counted, S) = S \cup Counted
            BY <2>5 DEF Xor
        <3> QED
            BY <1>1, <2>1, <2>2, <2>3, <2>4, <2>6, <3>1 DEF S
    <2>10. Least(results'.best, Counted')
        BY <1>1, <2>1, <2>2, <2>4, LeastOfMore
    <2>11. results'.best \in 0 .. MaxHash
        BY <2>10 DEF Least
    <2>12. results' \in [total : Nat, best : 0 .. MaxHash, sum : SUBSET PairsOf(options)]
        BY <1>1, <2>8, <2>9, <2>11
    <2> QED
        BY <1>1, <2>8, <2>9, <2>10, <2>12 DEF ResultsKept
<1> QED
    BY <1>6, <1>7, <1>8, <1>9, <1>10 DEF IInv

-----------------------------------------------------------------------------
(* The steps of the workers.                                               *)

(* Main and its sums do not notice what a worker does before it has ended. *)
LEMMA MainUnaware ==
    ASSUME IInv, NEW t \in Thd, at[t] \notin {"none", "ended"}, at'[t] # "none",
           UNCHANGED main,
           \A u \in Thd : /\ jobs'[u] # Garbage <=> jobs[u] # Garbage
                          /\ u \in Jobs => jobs'[u].ctx = jobs[u].ctx
                          /\ u # t => at'[u] = at[u],
           \A c \in Ctx : func'[c] # Null <=> func[c] # Null
    PROVE  MainKept' /\ ResultsKept'
<1>1. /\ options' = options /\ pc' = pc /\ thd' = thd /\ results' = results
      /\ Thd' = Thd
    BY DEF main, Thd
<1>2. \A u \in Thd : /\ Written(u)' <=> Written(u)
                     /\ Unborn(u)' <=> Unborn(u)
                     /\ Joined(u)' <=> Joined(u)
                     /\ Reported(u)' <=> Reported(u)
    BY <1>1 DEF Written, Unborn, Joined, Reported
<1>3. MainKept'
    <2>1. SUFFICES ASSUME pc # "exit" PROVE MainKept'
        BY <1>1 DEF MainKept
    <2>2. \A u \in Thd : /\ jobs'[u] # Garbage <=> Written(u)'
                         /\ at'[u] = "none" <=> Unborn(u)'
                         /\ Joined(u)' => at'[u] = "ended"
        BY <1>2, <2>1 DEF IInv, MainKept
    <2>3. \A u \in Thd : Written(u) => jobs'[u].ctx = jobs[u].ctx
        BY <2>1 DEF IInv, MainKept, Jobs
    <2>4. ASSUME NEW c \in Ctx
          PROVE  func'[c] # Null <=>
                    \E u \in Thd : Written(u)' /\ ~Reported(u)' /\ jobs'[u].ctx = c
        <3>1. func[c] # Null <=>
                 \E u \in Thd : Written(u) /\ ~Reported(u) /\ jobs[u].ctx = c
            BY <2>1 DEF IInv, MainKept
        <3> QED
            BY <1>2, <2>3, <3>1
    <2>5. pc = "begin" => thd = 0
        BY <2>1 DEF IInv, MainKept
    <2> QED
        BY <1>1, <2>2, <2>4, <2>5 DEF MainKept
<1>4. Counted' = Counted
    BY <1>1, <1>2 DEF Counted
<1> QED
    BY <1>1, <1>3, <1>4 DEF IInv, ResultsKept

(* A step that gives worker t a job with the same context and seeds keeps  *)
(* what is said of the jobs.                                               *)
LEMMA JobWritten ==
    ASSUME IInv, NEW t \in Jobs, options' = options, NEW job \in Job,
           job.ctx = jobs[t].ctx, job.start = jobs[t].start, job.end = jobs[t].end,
           jobs' = [jobs EXCEPT ![t] = job]
    PROVE  /\ JobsKept'
           /\ Jobs' = Jobs /\ Thd' = Thd /\ LastSeed' = LastSeed
           /\ jobs'[t] = job
           /\ \A u \in Thd : u # t => jobs'[u] = jobs[u]
           /\ \A u \in Thd : /\ jobs'[u] # Garbage <=> jobs[u] # Garbage
                             /\ u \in Jobs => jobs'[u].ctx = jobs[u].ctx
           /\ \A u \in Jobs' : {jobs'[u].start, jobs'[u].end} \subseteq 0 .. MaxInt
<1>1. t \in Thd /\ Thd' = Thd /\ LastSeed' = LastSeed /\ jobs \in [Thd -> {Garbage} \cup Job]
    BY DEF Thd, LastSeed, Jobs, IInv, JobsKept
<1>2. jobs'[t] = job /\ \A u \in Thd : u # t => jobs'[u] = jobs[u]
    BY <1>1
<1>3. jobs[t] # Garbage /\ job # Garbage
    BY ValuesAssumption DEF Jobs
<1>4. Jobs' = Jobs
    BY <1>1, <1>2, <1>3 DEF Jobs
<1>5. \A u \in Thd : /\ jobs'[u] # Garbage <=> jobs[u] # Garbage
                     /\ u \in Jobs => jobs'[u].ctx = jobs[u].ctx
    BY <1>2, <1>3
<1>6. jobs' \in [Thd -> {Garbage} \cup Job]
    BY <1>1
<1>7. \A u \in Jobs : jobs'[u].start = options.start + u /\ jobs'[u].end = LastSeed
    BY <1>2, Facts DEF IInv, JobsKept
<1>8. JobsKept'
    BY <1>1, <1>4, <1>5, <1>6, <1>7, Facts DEF IInv, JobsKept
<1>9. \A u \in Jobs' : {jobs'[u].start, jobs'[u].end} \subseteq 0 .. MaxInt
    BY <1>1, <1>4, <1>6, Facts DEF Job, Jobs
<1> QED
    BY <1>1, <1>2, <1>4, <1>5, <1>8, <1>9

(* A job with other sums is a job.                                         *)
Summed(job, new, n, b, S) ==
    /\ n \in Nat /\ b \in 0 .. MaxHash /\ S \in SUBSET ((0 .. MaxInt) \X Nat)
    /\ \/ new = [job EXCEPT !.total = n, !.best = b, !.sum = S]
       \/ n = job.total /\ new = [job EXCEPT !.sum = S, !.best = b]
       \/ b = job.best /\ S = job.sum /\ new = [job EXCEPT !.total = n]

LEMMA JobSummed ==
    ASSUME NEW job \in Job, NEW new, NEW n, NEW b, NEW S, Summed(job, new, n, b, S)
    PROVE  /\ new \in Job
           /\ new.ctx = job.ctx /\ new.start = job.start /\ new.end = job.end
           /\ new.total = n /\ new.best = b /\ new.sum = S
<1>1. PICK c \in Ctx, x \in 0 .. MaxInt, y \in 0 .. MaxInt,
           n0 \in Nat \cup {Garbage}, b0 \in 0 .. MaxHash \cup {Garbage},
           S0 \in (SUBSET ((0 .. MaxInt) \X Nat)) \cup {Garbage} :
         job = [ctx |-> c, start |-> x, end |-> y, total |-> n0, best |-> b0, sum |-> S0]
    BY DEF Job
<1>2. new = [ctx |-> c, start |-> x, end |-> y, total |-> n, best |-> b, sum |-> S]
    BY <1>1 DEF Summed
<1>3. /\ n \in Nat \cup {Garbage} /\ b \in 0 .. MaxHash \cup {Garbage}
      /\ S \in (SUBSET ((0 .. MaxInt) \X Nat)) \cup {Garbage}
    BY DEF Summed
<1>4. new \in Job
    BY <1>2, <1>3 DEF Job
<1> QED
    BY <1>1, <1>2, <1>4

(* What a worker on its way is known by.                                   *)
LEMMA WorkerFacts ==
    ASSUME IInv, NEW t \in Thd, at[t] # "none"
    PROVE  /\ t \in Jobs /\ jobs[t] \in Job /\ jobs[t].ctx \in Ctx
           /\ jobs[t].start = options.start + t /\ jobs[t].end = LastSeed
           /\ seed[t] \in 0 .. MaxInt
           /\ nonce[t] \in 0 .. options.nonces
           /\ \A u \in Jobs : jobs[u].ctx = jobs[t].ctx => u = t
<1>1. t \in Jobs
    BY DEF IInv, WorkKept, Works
<1> QED
    BY <1>1, Facts DEF IInv, JobsKept, TypeOK

LEMMA StartStep == ASSUME IInv, NEW t \in Thd, pc # "exit", Start(t) PROVE IInv'
<1>1. /\ at[t] = "start"
      /\ jobs' = [jobs EXCEPT ![t].total = 0, ![t].best = MaxHash, ![t].sum = {}]
      /\ seed' = [seed EXCEPT ![t] = jobs[t].start]
      /\ at' = [at EXCEPT ![t] = "seed"]
      /\ UNCHANGED main /\ options' = options /\ pc' = pc /\ thd' = thd
      /\ func' = func /\ nonce' = nonce
    BY DEF Start, main
<1>2. /\ t \in Jobs /\ jobs[t] \in Job /\ jobs[t].ctx \in Ctx
      /\ jobs[t].start = options.start + t /\ jobs[t].end = LastSeed
      /\ jobs \in [Thd -> {Garbage} \cup Job]
      /\ at \in [Thd -> {"none", "start", "seed", "nonce", "ended"}]
      /\ seed \in [Thd -> 0 .. MaxInt]
    BY <1>1, WorkerFacts DEF IInv, JobsKept, TypeOK
<1> DEFINE new == [jobs[t] EXCEPT !.total = 0, !.best = MaxHash, !.sum = {}]
<1>3. jobs' = [jobs EXCEPT ![t] = new]
    BY <1>1, <1>2
<1>new. Summed(jobs[t], new, 0, MaxHash, {})
    BY HashAssumption DEF Summed
<1> HIDE DEF new
<1>4. /\ new \in Job
      /\ new.ctx = jobs[t].ctx /\ new.start = jobs[t].start /\ new.end = jobs[t].end
      /\ new.total = 0 /\ new.best = MaxHash /\ new.sum = {}
    BY <1>2, <1>new, JobSummed
<1>5. /\ JobsKept'
      /\ Jobs' = Jobs /\ Thd' = Thd /\ LastSeed' = LastSeed
      /\ jobs'[t] = new
      /\ \A u \in Thd : u # t => jobs'[u] = jobs[u]
      /\ \A u \in Thd : /\ jobs'[u] # Garbage <=> jobs[u] # Garbage
                        /\ u \in Jobs => jobs'[u].ctx = jobs[u].ctx
      /\ \A u \in Jobs' : {jobs'[u].start, jobs'[u].end} \subseteq 0 .. MaxInt
    BY <1>1, <1>2, <1>3, <1>4, JobWritten
<1>6. /\ at'[t] = "seed" /\ seed'[t] = options.start + t
      /\ \A u \in Thd : u # t => at'[u] = at[u] /\ seed'[u] = seed[u]
    BY <1>1, <1>2
<1>7. MainKept' /\ ResultsKept'
    BY <1>1, <1>5, <1>6, MainUnaware
<1>8. TypeOK'
    <2>1. jobs[t].start \in 0 .. MaxInt
        BY <1>2 DEF Job
    <2>2. /\ seed' \in [Thd -> 0 .. MaxInt]
          /\ at' \in [Thd -> {"none", "start", "seed", "nonce", "ended"}]
        BY <1>1, <1>2, <2>1
    <2> QED
        BY <1>1, <1>5, <2>2 DEF IInv, TypeOK
<1>9. WorkKept'
    <2>1. ASSUME NEW u \in Thd, u # t PROVE Works(u)'
        BY <1>1, <1>5, <1>6, <2>1, WorksOn DEF IInv, WorkKept
    <2>2. Works(t)'
        <3>1. options \in Options /\ t \in 0 .. options.threads - 1
            BY Facts
        <3>2. Turn(options, t, options.start + t) /\ Finished(options, t, options.start + t) = {}
            BY <3>1, TurnFirst, FinishedFirst
        <3>3. Least(MaxHash, {}) /\ Cardinality({}) = 0
            BY HashAssumption, FS_EmptySet DEF Least
        <3>4. func[jobs[t].ctx] # Null
            BY <1>1 DEF IInv, WorkKept, Works
        <3>5. /\ Turn(options, t, seed'[t])
              /\ jobs'[t].total = Cardinality(Finished(options, t, seed'[t]))
              /\ Least(jobs'[t].best, jobs'[t].sum)
              /\ jobs'[t].sum = Finished(options, t, seed'[t])
            BY <1>4, <1>5, <1>6, <3>2, <3>3
        <3>6. t \in Jobs' /\ func'[jobs'[t].ctx] # Null
            BY <1>1, <1>2, <1>4, <1>5, <3>4
        <3> QED
            BY <1>1, <1>6, <3>5, <3>6 DEF Works
    <2> QED
        BY <1>5, <2>1, <2>2 DEF WorkKept
<1> QED
    BY <1>5, <1>7, <1>8, <1>9 DEF IInv

LEMMA MakeSeedStep == ASSUME IInv, NEW t \in Thd, pc # "exit", MakeSeed(t) PROVE IInv'
<1>1. /\ at[t] = "seed" /\ UNCHANGED main /\ options' = options /\ pc' = pc /\ thd' = thd
      /\ jobs' = jobs /\ seed' = seed
      /\ Thd' = Thd /\ Jobs' = Jobs /\ LastSeed' = LastSeed
    BY DEF MakeSeed, main, Thd, Jobs, LastSeed
<1>2. /\ t \in Jobs /\ jobs[t].ctx \in Ctx /\ jobs[t].end = LastSeed
      /\ seed[t] \in 0 .. MaxInt
      /\ \A u \in Jobs : jobs[u].ctx = jobs[t].ctx => u = t
      /\ at \in [Thd -> {"none", "start", "seed", "nonce", "ended"}]
      /\ nonce \in [Thd -> 0 .. options.nonces]
      /\ func \in [Ctx -> 0 .. MaxInt \cup {Unmade, Null}]
    BY <1>1, WorkerFacts DEF IInv, TypeOK
<1>3. /\ func[jobs[t].ctx] # Null
      /\ Turn(options, t, seed[t])
      /\ jobs[t].total = Cardinality(Finished(options, t, seed[t]))
      /\ Least(jobs[t].best, jobs[t].sum)
      /\ jobs[t].sum = Finished(options, t, seed[t])
    BY <1>1 DEF IInv, WorkKept, Works
<1>4. JobsKept' /\ \A u \in Jobs' : {jobs'[u].start, jobs'[u].end} \subseteq 0 .. MaxInt
    BY <1>1 DEF IInv, JobsKept, TypeOK
<1>5. CASE /\ seed[t] < jobs[t].end
           /\ func' = [func EXCEPT ![jobs[t].ctx] = seed[t]]
           /\ nonce' = [nonce EXCEPT ![t] = 0]
           /\ at' = [at EXCEPT ![t] = "nonce"]
    <2>1. /\ at'[t] = "nonce" /\ nonce'[t] = 0 /\ func'[jobs[t].ctx] = seed[t]
          /\ \A u \in Thd : u # t => at'[u] = at[u] /\ nonce'[u] = nonce[u]
          /\ \A c \in Ctx : c # jobs[t].ctx => func'[c] = func[c]
        BY <1>2, <1>5
    <2>2. seed[t] # Null
        BY <1>2, ValuesAssumption
    <2>3. \A c \in Ctx : func'[c] # Null <=> func[c] # Null
        BY <1>3, <2>1, <2>2
    <2>4. MainKept' /\ ResultsKept'
        BY <1>1, <2>1, <2>3, MainUnaware
    <2>5. TypeOK'
        <3>1. 0 \in 0 .. options.nonces
            BY Facts
        <3>2. /\ func' \in [Ctx -> 0 .. MaxInt \cup {Unmade, Null}]
              /\ nonce' \in [Thd -> 0 .. options.nonces]
              /\ at' \in [Thd -> {"none", "start", "seed", "nonce", "ended"}]
            BY <1>2, <1>5, <3>1
        <3> QED
            BY <1>1, <1>4, <3>2 DEF IInv, TypeOK
    <2>6. ASSUME NEW u \in Thd, u # t PROVE Works(u)'
        <3>1. Works(u)
            BY DEF IInv, WorkKept
        <3>2. at[u] \in {"start", "seed", "nonce"} => func'[jobs[u].ctx] = func[jobs[u].ctx]
            <4>1. SUFFICES ASSUME at[u] # "none" PROVE func'[jobs[u].ctx] = func[jobs[u].ctx]
                OBVIOUS
            <4>2. u \in Jobs /\ jobs[u].ctx \in Ctx
                BY <4>1, WorkerFacts
            <4> QED
                BY <1>2, <2>1, <2>6, <4>2
        <3> QED
            BY <1>1, <2>1, <2>6, <3>1, <3>2, WorksOn
    <2>7. Works(t)'
        <3>1. Begun(seed[t], 0) = {}
            BY DEF Begun
        <3> QED
            BY <1>1, <1>2, <1>3, <1>5, <2>1, <2>2, <3>1 DEF Works
    <2> QED
        BY <1>1, <1>4, <2>4, <2>5, <2>6, <2>7 DEF IInv, WorkKept
<1>6. CASE /\ seed[t] >= jobs[t].end
           /\ at' = [at EXCEPT ![t] = "ended"]
           /\ UNCHANGED <<func, nonce>>
    <2>1. at'[t] = "ended" /\ \A u \in Thd : u # t => at'[u] = at[u]
        BY <1>2, <1>6
    <2>2. MainKept' /\ ResultsKept'
        BY <1>1, <1>6, <2>1, MainUnaware
    <2>3. TypeOK'
        <3>1. at' \in [Thd -> {"none", "start", "seed", "nonce", "ended"}]
            BY <1>2, <1>6
        <3> QED
            BY <1>1, <1>4, <1>6, <3>1 DEF IInv, TypeOK
    <2>4. ASSUME NEW u \in Thd, u # t PROVE Works(u)'
        BY <1>1, <1>6, <2>1, <2>4, WorksOn DEF IInv, WorkKept
    <2>5. Works(t)'
        BY <1>1, <1>2, <1>3, <1>6, <2>1 DEF Works
    <2> QED
        BY <1>1, <1>4, <2>2, <2>3, <2>4, <2>5 DEF IInv, WorkKept
<1> QED
    BY <1>5, <1>6 DEF MakeSeed

LEMMA BegunNext ==
    ASSUME NEW s, NEW n \in Nat
    PROVE  Begun(s, n + 1) = Begun(s, n) \cup {<<s, n>>}
<1>1. 0 .. (n + 1) - 1 = 0 .. n - 1 \cup {n}
    OBVIOUS
<1> QED
    BY <1>1 DEF Begun

LEMMA HashStep == ASSUME IInv, NEW t \in Thd, pc # "exit", Hash(t) PROVE IInv'
<1> DEFINE made == func[jobs[t].ctx]
<1>1. /\ at[t] = "nonce" /\ nonce[t] < options.nonces
      /\ jobs' = [jobs EXCEPT ![t].sum = Xor(@, {<<made, nonce[t]>>}),
                              ![t].best = Less(HashOf(made, nonce[t]), @)]
      /\ nonce' = [nonce EXCEPT ![t] = @ + 1]
      /\ UNCHANGED main /\ options' = options /\ pc' = pc /\ thd' = thd
      /\ func' = func /\ at' = at /\ seed' = seed
    BY DEF Hash, Hashed, main
<1>2. /\ t \in Jobs /\ jobs[t] \in Job /\ jobs[t].ctx \in Ctx
      /\ jobs \in [Thd -> {Garbage} \cup Job]
      /\ nonce \in [Thd -> 0 .. options.nonces]
      /\ seed[t] \in 0 .. MaxInt /\ nonce[t] \in 0 .. options.nonces - 1
      /\ options \in Options /\ t \in 0 .. options.threads - 1
      /\ options.nonces \in Nat \ {0}
    <2>1. /\ t \in Jobs /\ jobs[t] \in Job /\ jobs[t].ctx \in Ctx
          /\ seed[t] \in 0 .. MaxInt /\ nonce[t] \in 0 .. options.nonces
        BY <1>1, WorkerFacts
    <2>2. /\ jobs \in [Thd -> {Garbage} \cup Job]
          /\ nonce \in [Thd -> 0 .. options.nonces]
        BY DEF IInv, JobsKept, TypeOK
    <2>3. /\ options \in Options /\ t \in 0 .. options.threads - 1
          /\ options.nonces \in Nat \ {0}
        BY Facts
    <2>4. nonce[t] \in 0 .. options.nonces - 1
        BY <1>1, <2>1, <2>3
    <2> QED
        BY <2>1, <2>2, <2>3, <2>4
<1>3. /\ func[jobs[t].ctx] # Null /\ made = seed[t] /\ seed[t] < LastSeed
      /\ Turn(options, t, seed[t])
      /\ jobs[t].total = Cardinality(Finished(options, t, seed[t]))
      /\ Least(jobs[t].best, jobs[t].sum)
      /\ jobs[t].sum = Finished(options, t, seed[t]) \cup Begun(seed[t], nonce[t])
    BY <1>1 DEF IInv, WorkKept, Works
<1> DEFINE P == <<seed[t], nonce[t]>>
           b == Less(HashOf(seed[t], nonce[t]), jobs[t].best)
           S == jobs[t].sum \cup {P}
           new == [jobs[t] EXCEPT !.sum = S, !.best = b]
<1>4. Xor(jobs[t].sum, {P}) = S
    <2>1. \A p \in Finished(options, t, seed[t]) : p[1] < seed[t]
        BY DEF Finished
    <2>2. \A p \in Begun(seed[t], nonce[t]) : p[2] \in 0 .. nonce[t] - 1
        BY DEF Begun
    <2>3. P[1] = seed[t] /\ P[2] = nonce[t]
        OBVIOUS
    <2>4. P \notin Finished(options, t, seed[t])
        BY <1>2, <2>1, <2>3
    <2>5. P \notin Begun(seed[t], nonce[t])
        BY <1>2, <2>2, <2>3
    <2> QED
        BY <1>3, <2>4, <2>5 DEF Xor
<1>5. jobs' = [jobs EXCEPT ![t] = new]
    BY <1>1, <1>2, <1>3, <1>4
<1>6. Least(b, S)
    <2>1. HashOf(seed[t], nonce[t]) \in 0 .. MaxHash
        BY <1>2, HashAssumption
    <2>2. Least(HashOf(seed[t], nonce[t]), {P})
        <3>1. \A p \in {P} : p[1] = seed[t] /\ p[2] = nonce[t]
            OBVIOUS
        <3>2. HashOf(P[1], P[2]) = HashOf(seed[t], nonce[t])
            OBVIOUS
        <3>3. HashOf(seed[t], nonce[t]) <= HashOf(seed[t], nonce[t])
            BY <2>1, HashAssumption
        <3> QED
            BY <2>1, <3>1, <3>2, <3>3 DEF Least
    <2>3. Least(b, {P} \cup jobs[t].sum)
        BY <1>3, <2>2, LeastOfMore
    <2>4. {P} \cup jobs[t].sum = S
        OBVIOUS
    <2> QED
        BY <2>3, <2>4
<1>7. /\ jobs[t].total \in Nat
      /\ S \in SUBSET ((0 .. MaxInt) \X Nat)
      /\ b \in 0 .. MaxHash
    <2>1. jobs[t].total \in Nat
        BY <1>2, <1>3, ShareFacts
    <2>2. Finished(options, t, seed[t]) \subseteq (0 .. MaxInt) \X Nat
        <3>1. PairsOf(options) \subseteq (0 .. MaxInt) \X Nat
            BY Facts, PairsInRange
        <3>2. Finished(options, t, seed[t]) \subseteq PairsOf(options)
            BY DEF Finished, Share
        <3> QED
            BY <3>1, <3>2
    <2>3. Begun(seed[t], nonce[t]) \subseteq (0 .. MaxInt) \X Nat
        BY <1>2 DEF Begun
    <2>4. P \in (0 .. MaxInt) \X Nat
        BY <1>2
    <2>5. S \in SUBSET ((0 .. MaxInt) \X Nat)
        BY <1>3, <2>2, <2>3, <2>4
    <2> QED
        BY <1>6, <2>1, <2>5 DEF Least
<1>new. Summed(jobs[t], new, jobs[t].total, b, S)
    BY <1>7 DEF Summed
<1> HIDE DEF S, b, P, made, new
<1>8. /\ new \in Job
      /\ new.ctx = jobs[t].ctx /\ new.start = jobs[t].start /\ new.end = jobs[t].end
      /\ new.total = jobs[t].total /\ new.best = b /\ new.sum = S
    BY <1>2, <1>new, JobSummed
<1>9. /\ JobsKept'
      /\ Jobs' = Jobs /\ Thd' = Thd /\ LastSeed' = LastSeed
      /\ jobs'[t] = new
      /\ \A u \in Thd : u # t => jobs'[u] = jobs[u]
      /\ \A u \in Thd : /\ jobs'[u] # Garbage <=> jobs[u] # Garbage
                        /\ u \in Jobs => jobs'[u].ctx = jobs[u].ctx
      /\ \A u \in Jobs' : {jobs'[u].start, jobs'[u].end} \subseteq 0 .. MaxInt
    BY <1>1, <1>2, <1>5, <1>8, JobWritten
<1>10. nonce'[t] = nonce[t] + 1 /\ \A u \in Thd : u # t => nonce'[u] = nonce[u]
    BY <1>1, <1>2
<1>11. MainKept' /\ ResultsKept'
    BY <1>1, <1>9, MainUnaware
<1>12. TypeOK'
    <2>1. nonce[t] + 1 \in 0 .. options.nonces
        BY <1>2
    <2>2. nonce' \in [Thd -> 0 .. options.nonces]
        BY <1>1, <1>2, <2>1
    <2> QED
        BY <1>1, <1>9, <2>2 DEF IInv, TypeOK
<1>13. WorkKept'
    <2>1. ASSUME NEW u \in Thd, u # t PROVE Works(u)'
        BY <1>1, <1>9, <1>10, <2>1, WorksOn DEF IInv, WorkKept
    <2>2. Works(t)'
        <3>1. S = Finished(options, t, seed[t]) \cup Begun(seed[t], nonce'[t])
            <4>1. Begun(seed[t], nonce[t] + 1) = Begun(seed[t], nonce[t]) \cup {P}
                BY <1>2, BegunNext DEF P
            <4> QED
                BY <1>3, <1>10, <4>1 DEF S
        <3>2. /\ Turn(options, t, seed[t])
              /\ jobs'[t].total = Cardinality(Finished(options, t, seed[t]))
              /\ Least(jobs'[t].best, jobs'[t].sum)
              /\ jobs'[t].sum = Finished(options, t, seed[t]) \cup Begun(seed[t], nonce'[t])
              /\ func[jobs'[t].ctx] # Null /\ func[jobs'[t].ctx] = seed[t]
            BY <1>3, <1>6, <1>8, <1>9, <3>1 DEF made
        <3> QED
            BY <1>1, <1>2, <1>3, <1>9, <3>2 DEF Works
    <2> QED
        BY <1>9, <2>1, <2>2 DEF WorkKept
<1> QED
    BY <1>9, <1>11, <1>12, <1>13 DEF IInv

LEMMA SeedDoneStep == ASSUME IInv, NEW t \in Thd, pc # "exit", SeedDone(t) PROVE IInv'
<1>1. /\ at[t] = "nonce" /\ nonce[t] >= options.nonces
      /\ jobs' = [jobs EXCEPT ![t].total = @ + options.nonces]
      /\ seed' = [seed EXCEPT ![t] = NextSeed(t)]
      /\ at' = [at EXCEPT ![t] = "seed"]
      /\ UNCHANGED main /\ options' = options /\ pc' = pc /\ thd' = thd
      /\ func' = func /\ nonce' = nonce
    BY DEF SeedDone, main
<1>2. /\ t \in Jobs /\ jobs[t] \in Job /\ jobs[t].ctx \in Ctx
      /\ jobs \in [Thd -> {Garbage} \cup Job]
      /\ seed \in [Thd -> 0 .. MaxInt]
      /\ at \in [Thd -> {"none", "start", "seed", "nonce", "ended"}]
      /\ nonce[t] \in 0 .. options.nonces
      /\ options \in Options /\ t \in 0 .. options.threads - 1
    BY <1>1, WorkerFacts, Facts DEF IInv, JobsKept, TypeOK
<1>3. /\ func[jobs[t].ctx] # Null /\ seed[t] < LastSeed
      /\ Turn(options, t, seed[t])
      /\ jobs[t].total = Cardinality(Finished(options, t, seed[t]))
      /\ Least(jobs[t].best, jobs[t].sum)
      /\ jobs[t].sum = Finished(options, t, seed[t]) \cup Begun(seed[t], nonce[t])
    BY <1>1 DEF IInv, WorkKept, Works
<1>4. NextSeed(t) = seed[t] + options.threads /\ NextSeed(t) \in 0 .. MaxInt
    <2>1. /\ seed[t] \in Nat /\ options.threads \in Nat
          /\ seed[t] + options.threads <= MaxInt /\ MaxInt \in Nat
        <3>1. /\ options.start \in Nat /\ options.seeds \in Nat /\ MaxInt \in Nat
              /\ options.threads \in Nat
              /\ options.start + options.seeds - 1 + options.threads <= MaxInt
              /\ LastSeed = options.start + options.seeds
              /\ seed[t] \in 0 .. MaxInt
            BY <1>2, Facts
        <3> QED
            BY <1>3, <3>1
    <2> QED
        BY <2>1 DEF NextSeed, Plus
<1>5. nonce[t] = options.nonces /\ options.nonces \in Nat
    BY <1>1, <1>2, Facts
<1>6. /\ Turn(options, t, seed[t] + options.threads)
      /\ jobs[t].sum = Finished(options, t, seed[t] + options.threads)
      /\ jobs[t].total + options.nonces
            = Cardinality(Finished(options, t, seed[t] + options.threads))
      /\ jobs[t].total \in Nat
    <2>1. seed[t] < options.start + options.seeds
        BY <1>3, Facts
    <2> QED
        BY <1>2, <1>3, <1>5, <2>1, TurnFacts, FinishedNext, ShareFacts
<1> DEFINE n == jobs[t].total + options.nonces
           new == [jobs[t] EXCEPT !.total = n]
<1>7. jobs' = [jobs EXCEPT ![t] = new]
    BY <1>1, <1>2
<1>8. /\ n \in Nat /\ jobs[t].best \in 0 .. MaxHash
      /\ jobs[t].sum \in SUBSET ((0 .. MaxInt) \X Nat)
    <2>1. PairsOf(options) \subseteq (0 .. MaxInt) \X Nat
        BY Facts, PairsInRange
    <2> QED
        BY <1>3, <1>5, <1>6, <2>1 DEF Least, Finished, Share
<1>new. Summed(jobs[t], new, n, jobs[t].best, jobs[t].sum)
    BY <1>8 DEF Summed
<1> HIDE DEF n, new
<1>9. /\ new \in Job
      /\ new.ctx = jobs[t].ctx /\ new.start = jobs[t].start /\ new.end = jobs[t].end
      /\ new.total = n /\ new.best = jobs[t].best /\ new.sum = jobs[t].sum
    BY <1>2, <1>new, JobSummed
<1>10. /\ JobsKept'
       /\ Jobs' = Jobs /\ Thd' = Thd /\ LastSeed' = LastSeed
       /\ jobs'[t] = new
       /\ \A u \in Thd : u # t => jobs'[u] = jobs[u]
       /\ \A u \in Thd : /\ jobs'[u] # Garbage <=> jobs[u] # Garbage
                         /\ u \in Jobs => jobs'[u].ctx = jobs[u].ctx
       /\ \A u \in Jobs' : {jobs'[u].start, jobs'[u].end} \subseteq 0 .. MaxInt
    BY <1>1, <1>2, <1>7, <1>9, JobWritten
<1>11. /\ at'[t] = "seed" /\ seed'[t] = seed[t] + options.threads
       /\ \A u \in Thd : u # t => at'[u] = at[u] /\ seed'[u] = seed[u]
    BY <1>1, <1>2, <1>4
<1>12. MainKept' /\ ResultsKept'
    BY <1>1, <1>10, <1>11, MainUnaware
<1>13. TypeOK'
    <2>1. /\ seed' \in [Thd -> 0 .. MaxInt]
          /\ at' \in [Thd -> {"none", "start", "seed", "nonce", "ended"}]
        BY <1>1, <1>2, <1>4
    <2> QED
        BY <1>1, <1>10, <2>1 DEF IInv, TypeOK
<1>14. WorkKept'
    <2>1. ASSUME NEW u \in Thd, u # t PROVE Works(u)'
        BY <1>1, <1>10, <1>11, <2>1, WorksOn DEF IInv, WorkKept
    <2>2. Works(t)'
        <3>1. /\ Turn(options, t, seed'[t])
              /\ jobs'[t].total = Cardinality(Finished(options, t, seed'[t]))
              /\ Least(jobs'[t].best, jobs'[t].sum)
              /\ jobs'[t].sum = Finished(options, t, seed'[t])
              /\ func'[jobs'[t].ctx] # Null
            BY <1>1, <1>3, <1>6, <1>9, <1>10, <1>11 DEF n
        <3> QED
            BY <1>1, <1>2, <1>10, <1>11, <3>1 DEF Works
    <2> QED
        BY <1>10, <2>1, <2>2 DEF WorkKept
<1> QED
    BY <1>10, <1>12, <1>13, <1>14 DEF IInv

-----------------------------------------------------------------------------
(* The theorems.                                                           *)

LEMMA InitHolds == Init => IInv
<1> SUFFICES ASSUME Init PROVE IInv
    OBVIOUS
<1>1. /\ options \in Options /\ pc = "begin" /\ thd = 0
      /\ options.threads \in Nat \ {0} /\ options.nonces \in Nat /\ MaxInt \in Nat
      /\ Thd = 0 .. options.threads - 1 /\ thd \in Thd
    BY OptionFacts DEF Init, Thd
<1>2. \A t \in Thd : ~Written(t) /\ Unborn(t) /\ ~Joined(t) /\ ~Reported(t)
    BY <1>1 DEF Written, Unborn, Joined, Reported
<1>3. Jobs = {}
    BY DEF Jobs, Init
<1>4. TypeOK
    BY <1>1, <1>3 DEF Init, TypeOK
<1>5. MainKept
    BY <1>1, <1>2 DEF Init, MainKept
<1>6. JobsKept
    BY <1>3 DEF Init, JobsKept
<1>7. WorkKept
    BY DEF Init, WorkKept, Works
<1>8. ResultsKept
    <2>1. Counted = {}
        BY <1>2 DEF Counted
    <2>2. Least(MaxHash, {}) /\ Cardinality({}) = 0 /\ MaxHash \in 0 .. MaxHash
        BY HashAssumption, FS_EmptySet DEF Least
    <2> QED
        BY <2>1, <2>2 DEF Init, ResultsKept
<1> QED
    BY <1>4, <1>5, <1>6, <1>7, <1>8 DEF IInv

LEMMA Stutter == IInv /\ UNCHANGED vars => IInv'
<1> SUFFICES ASSUME IInv, UNCHANGED vars PROVE IInv'
    OBVIOUS
<1> USE DEF vars, main, worker
<1>1. TypeOK'
    BY DEF IInv, TypeOK, Thd, Jobs
<1>2. \A t \in Thd : /\ Written(t)' <=> Written(t)
                     /\ Unborn(t)' <=> Unborn(t)
                     /\ Joined(t)' <=> Joined(t)
                     /\ Reported(t)' <=> Reported(t)
    BY DEF Written, Unborn, Joined, Reported
<1>3. MainKept'
    BY <1>2 DEF IInv, MainKept, Thd
<1>4. JobsKept'
    BY DEF IInv, JobsKept, Jobs, Thd, LastSeed
<1>5. WorkKept'
    BY WorksOn DEF IInv, WorkKept, Thd
<1>6. ResultsKept'
    <2>1. Counted' = Counted
        BY <1>2 DEF Counted, Thd
    <2> QED
        BY <2>1 DEF IInv, ResultsKept
<1> QED
    BY <1>1, <1>3, <1>4, <1>5, <1>6 DEF IInv

(* Every step of main and of the workers, in any order, keeps the          *)
(* invariant.                                                              *)
THEOREM Invariance == Spec => []IInv
<1>1. IInv /\ [Next]_vars => IInv'
    <2> SUFFICES ASSUME IInv, [Next]_vars PROVE IInv'
        OBVIOUS
    <2>1. CASE Main
        BY <2>1, BeginStep, AllocStep, CreateStep, JoinStep, ReportStep DEF Main
    <2>2. ASSUME NEW t \in Thd, Worker(t) PROVE IInv'
        BY <2>2, StartStep, MakeSeedStep, HashStep, SeedDoneStep DEF Worker
    <2>3. CASE UNCHANGED vars
        BY <2>3, Stutter
    <2> QED
        BY <2>1, <2>2, <2>3 DEF Next, Ended
<1> QED
    BY InitHolds, <1>1, PTL DEF Spec

(* No int of the program overflows, whatever the options that fit.         *)
THEOREM TypeCorrect == Spec => []TypeOK
<1>1. IInv => TypeOK
    BY DEF IInv
<1> QED
    BY Invariance, <1>1, PTL

(* No two workers use one context, and main frees none that is in use and  *)
(* in the end all of them.                                                 *)
THEOREM ContextsStayPrivate == Spec => []ContextsPrivate
<1>1. IInv => ContextsPrivate
    <2> SUFFICES ASSUME IInv PROVE ContextsPrivate
        OBVIOUS
    <2>1. \A t \in Thd : at[t] \in {"start", "seed", "nonce"} => func[jobs[t].ctx] # Null
        BY DEF IInv, WorkKept, Works
    <2>2. pc = "done" => \A c \in Ctx : func[c] = Null
        BY DEF IInv, MainKept, Reported
    <2> QED
        BY <2>1, <2>2 DEF IInv, JobsKept, ContextsPrivate
<1> QED
    BY Invariance, <1>1, PTL

(* The printed totals are those of every seed with every nonce, for any    *)
(* number of workers and however they ran.                                 *)
THEOREM ResultsAreComplete == Spec => []ResultsComplete
<1>1. IInv => ResultsComplete
    <2> SUFFICES ASSUME IInv, pc = "done"
                 PROVE  results = [total |-> options.seeds * options.nonces,
                                   best |-> Min({HashOf(p[1], p[2]) : p \in Pairs} \cup {MaxHash}),
                                   sum |-> Pairs]
        BY DEF ResultsComplete
    <2>1. options \in Options /\ Thd = 0 .. options.threads - 1
        BY Facts
    <2>2. /\ results \in [total : Nat, best : 0 .. MaxHash, sum : SUBSET PairsOf(options)]
          /\ results.sum = Counted
          /\ results.total = Cardinality(Counted)
          /\ Least(results.best, Counted)
        BY DEF IInv, ResultsKept
    <2>3. Counted = PairsOf(options)
        BY <2>1, SharesCover DEF Counted, Reported
    <2>4. Pairs = PairsOf(options)
        BY DEF Pairs, PairsOf
    <2>5. results.total = options.seeds * options.nonces
        BY <2>1, <2>2, <2>3, PairFacts
    <2>6. results.best = Min({HashOf(p[1], p[2]) : p \in Pairs} \cup {MaxHash})
        BY <2>2, <2>3, <2>4, LeastIsMin
    <2> DEFINE m == Min({HashOf(p[1], p[2]) : p \in Pairs} \cup {MaxHash})
    <2>7. results.best = m
        BY <2>6
    <2> HIDE DEF m
    <2>8. results = [total |-> options.seeds * options.nonces, best |-> m, sum |-> Pairs]
        BY <2>2, <2>3, <2>4, <2>5, <2>7
    <2> QED
        BY <2>8 DEF m
<1> QED
    BY Invariance, <1>1, PTL
=============================================================================
