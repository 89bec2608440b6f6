----------------------------- MODULE LibraryProofs ----------------------------
(***************************************************************************)
(* Facts about numbers and sequences the other proofs rest on: least       *)
(* numbers, which stand in for induction, and concatenation, with which    *)
(* the compilers put their code together.                                  *)
(***************************************************************************)
EXTENDS SequencesExt, SequenceTheorems, FiniteSetTheorems, TLAPS

(* A set of numbers has its minimum: their initial segments are ordered by *)
(* strict inclusion, which is well-founded on finite sets.                 *)
LEMMA LeastNumber ==
    ASSUME NEW S \in SUBSET Nat, S # {}
    PROVE  Min(S) \in S /\ \A y \in S : Min(S) <= y
<1> DEFINE Segments == {0 .. x : x \in S}
<1>1. IsWellFoundedOn(StrictSubsetOrdering(Nat), FiniteSubsetsOf(Nat))
    BY FS_StrictSubsetOrderingWellFounded
<1>2. Segments \subseteq FiniteSubsetsOf(Nat) /\ Segments # {}
    <2>1. \A x \in S : IsFiniteSet(0 .. x) /\ 0 .. x \subseteq Nat
        BY FS_Interval
    <2> QED
        BY <2>1 DEF FiniteSubsetsOf
<1>3. PICK T \in Segments : \A U \in Segments : <<U, T>> \notin StrictSubsetOrdering(Nat)
    <2> HIDE DEF Segments
    <2> QED
        BY <1>1, <1>2, WFMin
<1>4. PICK x \in S : T = 0 .. x
    BY <1>3
<1>5. \A y \in S : x <= y
    <2>1. SUFFICES ASSUME NEW y \in S, y < x PROVE FALSE
        OBVIOUS
    <2>2. 0 .. y \subseteq 0 .. x /\ x \notin 0 .. y /\ x \in 0 .. x
        BY <2>1
    <2>3. <<0 .. y, 0 .. x>> \in StrictSubsetOrdering(Nat)
        BY <2>2 DEF StrictSubsetOrdering
    <2> QED
        BY <1>3, <1>4, <2>3
<1> QED
    BY <1>5 DEF Min

(* Every set of numbers that is not empty has a least one.                 *)
LEMMA LeastExists ==
    ASSUME NEW S, S \subseteq Nat, S # {}
    PROVE  \E m \in S : \A y \in S : m <= y
BY LeastNumber

(* What no step changes stays as it was.                                   *)
LEMMA Steady ==
    ASSUME NEW n \in Nat, NEW f, \A i \in 0 .. n - 1 : f[i + 1] = f[i]
    PROVE  \A i \in 0 .. n : f[i] = f[0]
<1> DEFINE S == {i \in 0 .. n : f[i] # f[0]}
<1> SUFFICES ASSUME S # {} PROVE FALSE
    OBVIOUS
<1>0. S \subseteq Nat
    OBVIOUS
<1>1. PICK m \in S : \A y \in S : m <= y
    <2> HIDE DEF S
    <2> QED
        BY <1>0, LeastExists
<1>2. m # 0 /\ m - 1 \in 0 .. n - 1 /\ m - 1 \notin S
    BY <1>1
<1>3. f[(m - 1) + 1] = f[m - 1] /\ f[m - 1] = f[0]
    BY <1>2
<1> QED
    BY <1>1, <1>2, <1>3

(* One step more of a multiple.                                            *)
LEMMA ProductNext ==
    ASSUME NEW q \in Nat, NEW k \in Nat
    PROVE  q * k \in Nat /\ (q + 1) * k = q * k + k
OBVIOUS

(* A larger factor leaves room for a whole step.                           *)
LEMMA ProductOrder ==
    ASSUME NEW q \in Nat, NEW r \in Nat, NEW k \in Nat, q < r
    PROVE  q * k + k <= r * k
<1>1. PICK d \in Nat : r = q + 1 + d
    <2>1. r - q - 1 \in Nat /\ r = q + 1 + (r - q - 1)
        OBVIOUS
    <2> QED
        BY <2>1
<1>2. r * k = q * k + k + d * k
    BY <1>1
<1>3. d * k >= 0 /\ q * k \in Int /\ d * k \in Int
    OBVIOUS
<1> QED
    BY <1>2, <1>3

-----------------------------------------------------------------------------
(* A sequence of m elements.                                               *)
Listing(s, m) == m \in Nat /\ s = [i \in 1 .. m |-> s[i]]

(* It is a sequence, and m is its length.                                  *)
LEMMA ListingIsSeq ==
    ASSUME NEW s, NEW m, Listing(s, m), NEW S, \A i \in 1 .. m : s[i] \in S
    PROVE  s \in Seq(S) /\ Len(s) = m
<1>1. s \in [1 .. m -> S]
    BY DEF Listing
<1> QED
    BY <1>1 DEF Listing

(* The concatenation of a sequence of m and one of n elements.             *)
Appended(s, m, t, n) ==
    /\ Listing(s \o t, m + n) /\ Len(s \o t) = m + n
    /\ \A i \in 1 .. m : (s \o t)[i] = s[i]
    /\ \A i \in 1 .. n : (s \o t)[m + i] = t[i]

(* Concatenation puts the second after the first.                          *)
LEMMA Concat ==
    ASSUME NEW s, NEW m, Listing(s, m), NEW t, NEW n, Listing(t, n)
    PROVE  Appended(s, m, t, n)
<1> DEFINE S == {s[i] : i \in 1 .. m} \cup {t[i] : i \in 1 .. n}
<1>1. s \in Seq(S) /\ Len(s) = m
    <2>1. \A i \in 1 .. m : s[i] \in S
        OBVIOUS
    <2> QED
        BY <2>1, ListingIsSeq
<1>2. t \in Seq(S) /\ Len(t) = n
    <2>1. \A i \in 1 .. n : t[i] \in S
        OBVIOUS
    <2> QED
        BY <2>1, ListingIsSeq
<1>3. m \in Nat /\ n \in Nat
    BY DEF Listing
<1> HIDE DEF S
<1>4. /\ s \o t \in Seq(S) /\ Len(s \o t) = m + n
      /\ \A i \in 1 .. m + n : (s \o t)[i] = IF i <= m THEN s[i] ELSE t[i - m]
    BY <1>1, <1>2, ConcatProperties
<1>5. Listing(s \o t, m + n)
    <2>1. s \o t \in [1 .. m + n -> S]
        BY <1>4, LenProperties
    <2> QED
        BY <1>3, <2>1 DEF Listing
<1> QED
    BY <1>3, <1>4, <1>5 DEF Appended

-----------------------------------------------------------------------------
(* Sequences one after the other: the k-th of them takes the places from   *)
(* S[k] + 1 to S[k + 1].                                                   *)
Pieces(seqs, n, S) ==
    /\ n \in Nat \ {0} /\ Listing(seqs, n) /\ S[1] = 0
    /\ \A k \in 1 .. n :
          S[k] \in Nat /\ S[k + 1] \in Nat /\ S[k] <= S[k + 1] /\ Listing(seqs[k], S[k + 1] - S[k])

(* What the first i of them make.                                          *)
Joins(g, seqs, n) == g = [i \in 0 .. n |-> IF i = 0 THEN <<>> ELSE g[i - 1] \o seqs[i]]
Chained(f, seqs, S, m) ==
    /\ Listing(f, S[m + 1])
    /\ \A k \in 1 .. m : \A o \in 1 .. S[k + 1] - S[k] : f[S[k] + o] = seqs[k][o]
AllChained(g, seqs, S, m) == \A i \in 0 .. m : Chained(g[i], seqs, S, i)

(* The pieces follow one another.                                          *)
LEMMA StartsOrdered ==
    ASSUME NEW seqs, NEW n, NEW S, Pieces(seqs, n, S), NEW k \in 1 .. n
    PROVE  \A i \in 1 .. n + 1 : k < i => S[k + 1] <= S[i]
<1> DEFINE Late == {i \in 1 .. n + 1 : k < i /\ ~(S[k + 1] <= S[i])}
<1> SUFFICES ASSUME Late # {} PROVE FALSE
    OBVIOUS
<1>0. n \in Nat /\ Late \subseteq Nat
    BY DEF Pieces
<1>1. PICK i \in Late : \A y \in Late : i <= y
    <2> HIDE DEF Late
    <2> QED
        BY <1>0, LeastExists
<1>2. i \in 1 .. n + 1 /\ k < i /\ ~(S[k + 1] <= S[i])
    OBVIOUS
<1>3. \A q \in 1 .. n : S[q] \in Nat /\ S[q + 1] \in Nat /\ S[q] <= S[q + 1]
    BY DEF Pieces
<1>4. i # k + 1
    BY <1>0, <1>2, <1>3
<1>5. i - 1 \in 1 .. n /\ k < i - 1 /\ i - 1 \in 1 .. n + 1 /\ (i - 1) + 1 = i /\ ~(i <= i - 1)
    BY <1>0, <1>2, <1>4
<1>6. i - 1 \notin Late
    BY <1>1, <1>5
<1>7. S[k + 1] <= S[i - 1]
    BY <1>5, <1>6
<1>8. S[i - 1] \in Nat /\ S[i] \in Nat /\ S[i - 1] <= S[i] /\ S[k + 1] \in Nat
    BY <1>3, <1>5
<1> QED
    BY <1>2, <1>7, <1>8

(* One piece more can be joined to what the ones before it make.           *)
LEMMA JoinMore ==
    ASSUME NEW seqs, NEW n, NEW S, Pieces(seqs, n, S),
           NEW m \in 1 .. n, NEW g, Joins(g, seqs, m - 1), AllChained(g, seqs, S, m - 1)
    PROVE  \E h : Joins(h, seqs, m) /\ AllChained(h, seqs, S, m)
<1>1. n \in Nat /\ m \in Nat /\ m - 1 \in 0 .. m - 1 /\ m \in 0 .. m
    BY DEF Pieces
<1> DEFINE h == [i \in 0 .. m |-> IF i < m THEN g[i] ELSE g[m - 1] \o seqs[m]]
<1>2. \A i \in 0 .. m - 1 : h[i] = g[i]
    BY <1>1
<1>3. h[m] = g[m - 1] \o seqs[m]
    <2>1. m \in 0 .. m /\ ~(m < m)
        BY <1>1
    <2> QED
        BY <2>1
<1>4. Joins(h, seqs, m)
    <2>1. \A i \in 0 .. m : h[i] = IF i = 0 THEN <<>> ELSE h[i - 1] \o seqs[i]
        <3> SUFFICES ASSUME NEW i \in 0 .. m
                     PROVE  h[i] = IF i = 0 THEN <<>> ELSE h[i - 1] \o seqs[i]
            OBVIOUS
        <3>1. CASE i = m
            BY <1>1, <1>2, <1>3, <3>1
        <3>2. CASE i # m
            <4>1. i \in 0 .. m - 1 /\ (i # 0 => i - 1 \in 0 .. m - 1)
                BY <1>1, <3>2
            <4>2. g[i] = IF i = 0 THEN <<>> ELSE g[i - 1] \o seqs[i]
                BY <4>1 DEF Joins
            <4> HIDE DEF h
            <4> QED
                BY <1>2, <4>1, <4>2
        <3> QED
            BY <3>1, <3>2
    <2> QED
        BY <2>1 DEF Joins
<1>5. Chained(h[m], seqs, S, m)
    <2> HIDE DEF h
    <2>1. Chained(g[m - 1], seqs, S, m - 1) /\ (m - 1) + 1 = m
        BY <1>1 DEF AllChained
    <2>2. S[m] \in Nat /\ S[m + 1] \in Nat /\ S[m] <= S[m + 1] /\ Listing(seqs[m], S[m + 1] - S[m])
        BY DEF Pieces
    <2>3. Appended(g[m - 1], S[m], seqs[m], S[m + 1] - S[m])
        BY <2>1, <2>2, Concat DEF Chained
    <2>4. S[m] + (S[m + 1] - S[m]) = S[m + 1]
        BY <2>2
    <2>5. /\ Listing(h[m], S[m + 1])
          /\ \A q \in 1 .. S[m] : h[m][q] = g[m - 1][q]
          /\ \A o \in 1 .. S[m + 1] - S[m] : h[m][S[m] + o] = seqs[m][o]
        BY <1>3, <2>3, <2>4 DEF Appended
    <2>6. ASSUME NEW k \in 1 .. m, NEW o \in 1 .. S[k + 1] - S[k]
          PROVE  h[m][S[k] + o] = seqs[k][o]
        <3>1. CASE k = m
            BY <2>5, <3>1
        <3>2. CASE k # m
            <4>1. k \in 1 .. m - 1 /\ k \in 1 .. n /\ m \in 1 .. n + 1 /\ k < m
                BY <1>1, <3>2
            <4>2. S[k + 1] <= S[m] /\ S[k] \in Nat /\ S[k + 1] \in Nat
                BY <4>1, StartsOrdered DEF Pieces
            <4>3. S[k] + o \in 1 .. S[m]
                BY <2>2, <4>2
            <4> QED
                BY <2>1, <2>5, <4>1, <4>3 DEF Chained
        <3> QED
            BY <3>1, <3>2
    <2> QED
        BY <2>5, <2>6 DEF Chained
<1>6. AllChained(h, seqs, S, m)
    <2> HIDE DEF h
    <2> SUFFICES ASSUME NEW i \in 0 .. m PROVE Chained(h[i], seqs, S, i)
        BY DEF AllChained
    <2>1. CASE i = m
        BY <1>5, <2>1
    <2>2. CASE i # m
        <3>1. i \in 0 .. m - 1
            BY <1>1, <2>2
        <3> QED
            BY <1>2, <3>1 DEF AllChained
    <2> QED
        BY <2>1, <2>2
<1> QED
    BY <1>4, <1>6

(* The recursion that joins the pieces has a solution.                     *)
LEMMA JoinExists ==
    ASSUME NEW seqs, NEW n, NEW S, Pieces(seqs, n, S)
    PROVE  \E g : Joins(g, seqs, n) /\ AllChained(g, seqs, S, n)
<1> DEFINE Made(m) == \E g : Joins(g, seqs, m) /\ AllChained(g, seqs, S, m)
           Missing == {m \in 0 .. n : ~Made(m)}
<1>0. n \in Nat
    BY DEF Pieces
<1> SUFFICES ASSUME Missing # {} PROVE FALSE
    BY <1>0
<1>1. PICK m \in Missing : \A y \in Missing : m <= y
    <2>1. Missing \subseteq Nat
        BY <1>0
    <2> HIDE DEF Missing
    <2> QED
        BY <2>1, LeastExists
<1>2. m \in 0 .. n /\ ~Made(m)
    OBVIOUS
<1>3. CASE m = 0
    <2> DEFINE g == [i \in 0 .. 0 |-> <<>>]
    <2>1. Joins(g, seqs, 0)
        BY DEF Joins
    <2>2. g[0] = <<>> /\ 0 + 1 = 1 /\ \A i \in 0 .. 0 : i = 0
        OBVIOUS
    <2> HIDE DEF g
    <2>3. Listing(g[0], S[0 + 1])
        BY <2>2 DEF Pieces, Listing
    <2>4. Chained(g[0], seqs, S, 0)
        BY <2>3 DEF Chained
    <2>5. AllChained(g, seqs, S, 0)
        BY <2>2, <2>4 DEF AllChained
    <2> QED
        BY <1>2, <1>3, <2>1, <2>5
<1>4. CASE m # 0
    <2>1. m - 1 \in 0 .. n /\ ~(m <= m - 1) /\ m \in 1 .. n
        BY <1>0, <1>2, <1>4
    <2>2. Made(m - 1)
        BY <1>1, <2>1
    <2>3. PICK g : Joins(g, seqs, m - 1) /\ AllChained(g, seqs, S, m - 1)
        BY <2>2
    <2> QED
        BY <1>2, <2>1, <2>3, JoinMore
<1> QED
    BY <1>3, <1>4

(* FlattenSeq by its recursion, and what it makes of the pieces.           *)
Flattens(g, seqs, n) ==
    g = [i \in 1 .. n |-> IF i = 1 THEN seqs[i] ELSE g[i - 1] \o seqs[i]]

(* That recursion has one solution.                                        *)
LEMMA FlattenUnique ==
    ASSUME NEW seqs, NEW n \in Nat, NEW g, Flattens(g, seqs, n), NEW h, Flattens(h, seqs, n)
    PROVE  g = h
<1> DEFINE S == {i \in 1 .. n : g[i] # h[i]}
<1>1. S = {}
    <2> SUFFICES ASSUME S # {} PROVE FALSE
        OBVIOUS
    <2>1. PICK m \in S : \A y \in S : m <= y
        <3>1. S \subseteq Nat
            OBVIOUS
        <3> HIDE DEF S
        <3> QED
            BY <3>1, LeastExists
    <2>2. m \in 1 .. n /\ (m # 1 => m - 1 \in 1 .. n /\ m - 1 \notin S)
        BY <2>1
    <2>3. m # 1 => g[m - 1] = h[m - 1]
        BY <2>2
    <2>4. /\ g[m] = IF m = 1 THEN seqs[m] ELSE g[m - 1] \o seqs[m]
          /\ h[m] = IF m = 1 THEN seqs[m] ELSE h[m - 1] \o seqs[m]
        BY <2>2 DEF Flattens
    <2> QED
        BY <2>1, <2>3, <2>4
<1>2. \A i \in 1 .. n : g[i] = h[i]
    BY <1>1
<1> QED
    BY <1>2 DEF Flattens

(* FlattenSeq joins the pieces.                                            *)
LEMMA FlattenSeqPieces ==
    ASSUME NEW seqs, NEW n, NEW S, Pieces(seqs, n, S)
    PROVE  Chained(FlattenSeq(seqs), seqs, S, n)
<1>0. n \in Nat \ {0}
    BY DEF Pieces
<1>1. Len(seqs) = n
    <2>1. \A i \in 1 .. n : seqs[i] \in {seqs[k] : k \in 1 .. n}
        OBVIOUS
    <2> QED
        BY <2>1, ListingIsSeq DEF Pieces
<1>2. PICK g : Joins(g, seqs, n) /\ AllChained(g, seqs, S, n)
    BY JoinExists
<1> DEFINE f == [i \in 1 .. n |-> g[i]]
<1>3. g[1] = seqs[1]
    <2>1. 0 \in 0 .. n /\ 1 \in 0 .. n /\ 1 # 0 /\ 1 - 1 = 0 /\ 1 \in 1 .. n
        BY <1>0
    <2>2. \A i \in 0 .. n : g[i] = IF i = 0 THEN <<>> ELSE g[i - 1] \o seqs[i]
        BY <1>2 DEF Joins
    <2>3. g[0] = <<>> /\ g[1] = g[0] \o seqs[1]
        BY <2>1, <2>2
    <2>4. Listing(seqs[1], S[1 + 1] - S[1]) /\ Listing(<<>>, 0)
        BY <2>1 DEF Pieces, Listing
    <2>5. PICK m : m = S[1 + 1] - S[1]
        OBVIOUS
    <2>6. Appended(<<>>, 0, seqs[1], m) /\ m \in Nat /\ seqs[1] = [i \in 1 .. m |-> seqs[1][i]]
        BY <2>4, <2>5, Concat DEF Listing
    <2>7. 0 + m = m /\ \A i \in 1 .. m : 0 + i = i
        BY <2>6
    <2>8. <<>> \o seqs[1] = [i \in 1 .. m |-> (<<>> \o seqs[1])[i]]
          /\ \A i \in 1 .. m : (<<>> \o seqs[1])[i] = seqs[1][i]
        BY <2>6, <2>7 DEF Appended, Listing
    <2> QED
        BY <2>3, <2>6, <2>8
<1>4. Flattens(f, seqs, n)
    <2>1. \A i \in 0 .. n : g[i] = IF i = 0 THEN <<>> ELSE g[i - 1] \o seqs[i]
        BY <1>2 DEF Joins
    <2>2. ASSUME NEW i \in 1 .. n PROVE f[i] = IF i = 1 THEN seqs[i] ELSE f[i - 1] \o seqs[i]
        <3>1. i \in 0 .. n /\ i # 0 /\ (i # 1 => i - 1 \in 1 .. n)
            BY <1>0
        <3> QED
            BY <1>3, <2>1, <3>1
    <2> QED
        BY <2>2 DEF Flattens
<1> HIDE DEF f
<1>5. (CHOOSE h : Flattens(h, seqs, n)) = f
    BY <1>0, <1>4, FlattenUnique
<1>6. FlattenSeq(seqs) = (CHOOSE h : Flattens(h, seqs, n))[n]
    BY <1>0, <1>1 DEF FlattenSeq, Flattens
<1>7. n \in 1 .. n /\ n \in 0 .. n
    BY <1>0
<1>8. FlattenSeq(seqs) = g[n]
    BY <1>5, <1>6, <1>7 DEF f
<1> QED
    BY <1>2, <1>7, <1>8 DEF AllChained

(* Of n pieces of the same length, the o-th element of the k-th is where   *)
(* multiplication says it is.                                              *)
Blocks(seqs, n, length) ==
    n \in Nat \ {0} /\ length \in Nat /\ Listing(seqs, n)
    /\ \A k \in 1 .. n : Listing(seqs[k], length)
Flattened(flat, seqs, n, length) ==
    /\ Listing(flat, n * length)
    /\ \A k \in 1 .. n, o \in 1 .. length : flat[(k - 1) * length + o] = seqs[k][o]

(* FlattenSeq lays pieces of one length out by multiplication.             *)
LEMMA FlattenSeqBlocks ==
    ASSUME NEW seqs, NEW n, NEW length, Blocks(seqs, n, length)
    PROVE  Flattened(FlattenSeq(seqs), seqs, n, length)
<1>0. n \in Nat \ {0} /\ length \in Nat
    BY DEF Blocks
<1> DEFINE S == [k \in 1 .. n + 1 |-> (k - 1) * length]
<1>1. \A k \in 1 .. n : S[k] = (k - 1) * length /\ S[k + 1] = k * length
    BY <1>0
<1>2. S[1] = 0 /\ S[n + 1] = n * length
    BY <1>0
<1> HIDE DEF S
<1>3. ASSUME NEW k \in 1 .. n
      PROVE  S[k] \in Nat /\ S[k + 1] \in Nat /\ S[k] <= S[k + 1] /\ S[k + 1] - S[k] = length
    <2>1. PICK q \in Nat : q = k - 1 /\ k = q + 1
        BY <1>0
    <2>2. q * length \in Nat /\ (q + 1) * length = q * length + length
        BY <1>0, ProductNext
    <2> QED
        BY <1>0, <1>1, <2>1, <2>2
<1>4. Pieces(seqs, n, S)
    BY <1>0, <1>2, <1>3 DEF Pieces, Blocks
<1>5. Chained(FlattenSeq(seqs), seqs, S, n)
    BY <1>4, FlattenSeqPieces
<1> QED
    BY <1>1, <1>2, <1>3, <1>5 DEF Chained, Flattened

-----------------------------------------------------------------------------
(* Running sums.                                                           *)
Sums(f, w, m) == f = [k \in 0 .. m |-> IF k = 0 THEN 0 ELSE f[k - 1] + w[k]]
Totals(t, w, m) == t[0] = 0 /\ \A k \in 1 .. m : t[k] = t[k - 1] + w[k]

(* They are what adds up.                                                  *)
LEMMA SumsAre ==
    ASSUME NEW w, NEW m \in Nat, NEW t, Totals(t, w, m), NEW f, Sums(f, w, m)
    PROVE  \A k \in 0 .. m : f[k] = t[k]
<1> DEFINE S == {k \in 0 .. m : f[k] # t[k]}
<1> SUFFICES ASSUME S # {} PROVE FALSE
    OBVIOUS
<1>1. PICK k \in S : \A y \in S : k <= y
    <2>1. S \subseteq Nat
        OBVIOUS
    <2> HIDE DEF S
    <2> QED
        BY <2>1, LeastExists
<1>2. f[k] = IF k = 0 THEN 0 ELSE f[k - 1] + w[k]
    BY DEF Sums
<1>3. k # 0
    BY <1>2 DEF Totals
<1>4. k \in 1 .. m /\ k - 1 \in 0 .. m /\ k - 1 \notin S
    BY <1>1, <1>3
<1> QED
    BY <1>2, <1>3, <1>4 DEF Totals

(* So does the sum a recursive definition chooses.                         *)
LEMMA SumChosen ==
    ASSUME NEW w, NEW m \in Nat, NEW t, Totals(t, w, m)
    PROVE  (CHOOSE f : Sums(f, w, m))[m] = t[m]
<1> DEFINE g == [k \in 0 .. m |-> t[k]]
<1>1. Sums(g, w, m)
    <2>1. ASSUME NEW k \in 0 .. m PROVE g[k] = IF k = 0 THEN 0 ELSE g[k - 1] + w[k]
        <3>1. k # 0 => k \in 1 .. m /\ k - 1 \in 0 .. m
            OBVIOUS
        <3> QED
            BY <3>1 DEF Totals
    <2> QED
        BY <2>1 DEF Sums
<1> HIDE DEF g
<1>2. PICK f : f = CHOOSE h : Sums(h, w, m)
    OBVIOUS
<1>3. Sums(f, w, m)
    BY <1>1, <1>2
<1> QED
    BY <1>2, <1>3, SumsAre

(* There are running sums.                                                 *)
LEMMA SumsExist ==
    ASSUME NEW w, NEW n \in Nat, \A k \in 1 .. n : w[k] \in Nat
    PROVE  \E f : Sums(f, w, n) /\ \A k \in 0 .. n : f[k] \in Nat
<1> DEFINE Made(m) == \E f : Sums(f, w, m) /\ \A k \in 0 .. m : f[k] \in Nat
           S == {m \in 0 .. n : ~Made(m)}
<1> SUFFICES ASSUME S # {} PROVE FALSE
    <2>1. n \in 0 .. n
        OBVIOUS
    <2>2. n \notin S => Made(n)
        BY <2>1
    <2> HIDE DEF S
    <2>3. Made(n)
        BY <2>2
    <2> QED
        BY <2>3
<1>1. PICK m \in S : \A y \in S : m <= y
    <2>1. S \subseteq Nat
        OBVIOUS
    <2> HIDE DEF S
    <2> QED
        BY <2>1, LeastExists
<1>2. m \in 0 .. n /\ ~Made(m)
    OBVIOUS
<1>3. CASE m = 0
    <2> DEFINE g == [i \in 0 .. 0 |-> 0]
    <2>1. Sums(g, w, 0)
        BY DEF Sums
    <2>2. \A k \in 0 .. 0 : g[k] \in Nat
        OBVIOUS
    <2> HIDE DEF g
    <2> QED
        BY <1>2, <1>3, <2>1, <2>2
<1>4. CASE m # 0
    <2>1. m - 1 \in 0 .. n /\ ~(m <= m - 1) /\ m \in 1 .. n
        BY <1>2, <1>4
    <2>2. Made(m - 1)
        BY <1>1, <2>1
    <2>3. PICK g : Sums(g, w, m - 1) /\ \A k \in 0 .. m - 1 : g[k] \in Nat
        BY <2>2
    <2> DEFINE h == [k \in 0 .. m |-> IF k < m THEN g[k] ELSE g[m - 1] + w[m]]
    <2>4. (\A k \in 0 .. m - 1 : h[k] = g[k]) /\ h[m] = g[m - 1] + w[m]
        BY <2>1
    <2>5. \A k \in 0 .. m - 1 : g[k] = IF k = 0 THEN 0 ELSE g[k - 1] + w[k]
        BY <2>3 DEF Sums
    <2>6. h = [k \in 0 .. m |-> h[k]]
        OBVIOUS
    <2> HIDE DEF h
    <2>7. ASSUME NEW k \in 0 .. m
          PROVE  h[k] \in Nat /\ h[k] = IF k = 0 THEN 0 ELSE h[k - 1] + w[k]
        <3>1. CASE k = m
            BY <1>4, <2>1, <2>3, <2>4, <3>1
        <3>2. CASE k # m
            <4>1. k \in 0 .. m - 1 /\ (k # 0 => k - 1 \in 0 .. m - 1)
                BY <2>1, <3>2
            <4> QED
                BY <2>3, <2>4, <2>5, <4>1
        <3> QED
            BY <3>1, <3>2
    <2>8. Sums(h, w, m)
        BY <2>6, <2>7 DEF Sums
    <2> QED
        BY <1>2, <2>7, <2>8
<1> QED
    BY <1>3, <1>4

(* What grows at every step grows.                                         *)
LEMMA Increasing ==
    ASSUME NEW n \in Nat, NEW f, \A k \in 1 .. n : f[k] \in Nat /\ f[k + 1] \in Nat /\ f[k] < f[k + 1],
           NEW i \in 1 .. n + 1
    PROVE  \A k \in 1 .. n + 1 : i < k => f[i] < f[k]
<1> DEFINE S == {k \in 1 .. n + 1 : i < k /\ ~(f[i] < f[k])}
<1> SUFFICES ASSUME S # {} PROVE FALSE
    OBVIOUS
<1>1. PICK k \in S : \A y \in S : k <= y
    <2>1. S \subseteq Nat
        OBVIOUS
    <2> HIDE DEF S
    <2> QED
        BY <2>1, LeastExists
<1>2. k \in 1 .. n + 1 /\ i < k /\ ~(f[i] < f[k])
    OBVIOUS
<1>3. k - 1 \in 1 .. n /\ (k - 1) + 1 = k /\ k - 1 \in 1 .. n + 1 /\ ~(k <= k - 1)
    BY <1>2
<1>4. f[k - 1] \in Nat /\ f[k] \in Nat /\ f[k - 1] < f[k]
    BY <1>3
<1>5. k - 1 # i
    BY <1>2, <1>4
<1>6. i < k - 1 /\ k - 1 \notin S
    BY <1>1, <1>2, <1>3, <1>5
<1>7. f[i] < f[k - 1]
    BY <1>3, <1>6
<1>8. f[i] \in Nat
    BY <1>2
<1> QED
    BY <1>2, <1>4, <1>7, <1>8
===============================================================================
