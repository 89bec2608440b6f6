----------------------------- MODULE SiphashRng ------------------------------
(***************************************************************************)
(* src/siphash_rng.h and .c: the generator of random words, a Siphash      *)
(* state that is mixed again when its four words have been handed out.     *)
(***************************************************************************)
EXTENDS Word64

(* SIPROUND on the four words v0 to v3.                                    *)
SIPROUND(v) ==
    LET a0 == Add64(v[1], v[2])
        a2 == Add64(v[3], v[4])
        a1 == Xor64(Rotl64(v[2], 13), a0)
        a3 == Xor64(Rotl64(v[4], 16), a2)
        b2 == Add64(a2, a1)
        b0 == Add64(Rotl64(a0, 32), a3)
    IN  <<b0, Xor64(Rotl64(a1, 17), b2), Rotl64(b2, 32), Xor64(Rotl64(a3, 21), b0)>>

Siprounds(v, n) ==
    LET after[k \in 0 .. n] == IF k = 0 THEN v ELSE SIPROUND(after[k - 1])
    IN  after[n]

(* A key is the pair <<k0, k1>>, which alternate over the four words.      *)
WithKey(v, key) ==
    <<Xor64(v[1], key[1]), Xor64(v[2], key[2]), Xor64(v[3], key[1]), Xor64(v[4], key[2])>>

(* The four words "uespemos", "modnarod", "arenegyl" and "setybdet".       *)
InitialState ==
    << <<\h75, \h65, \h73, \h70, \h65, \h6d, \h6f, \h73>>,
       <<\h6d, \h6f, \h64, \h6e, \h61, \h72, \h6f, \h64>>,
       <<\h61, \h72, \h65, \h6e, \h65, \h67, \h79, \h6c>>,
       <<\h73, \h65, \h74, \h79, \h62, \h64, \h65, \h74>> >>

hashwx_rng_init(key, salt) ==
    LET salted == [WithKey(InitialState, key) EXCEPT ![4] = Xor64(@, salt)]
        turned == [SIPROUND(salted) EXCEPT ![1] = Xor64(@, salt),
                                           ![3] = Xor64(@, Num64(\hbb))]
    IN  [key |-> key, state |-> Siprounds(turned, 3), count |-> 4]

hashwx_rng_mix(gen) == [gen EXCEPT !.state = Siprounds(WithKey(@, gen.key), 4)]

(* The generator after a draw; the word drawn is the one count points to.  *)
hashwx_rng_next(gen) ==
    IF gen.count = 0 THEN [hashwx_rng_mix(gen) EXCEPT !.count = 3]
    ELSE [gen EXCEPT !.count = @ - 1]
(* Mutant: the order doc/specification.md gives.                           *)
MutDrawn(gen) == gen.state[4 - gen.count]

Drawn(gen) == gen.state[gen.count + 1]
=============================================================================
