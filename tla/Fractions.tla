------------------------------ MODULE Fractions ------------------------------
(***************************************************************************)
(* Exact fractions, for what the code computes in floats: a pair of        *)
(* numerator and denominator in lowest terms, the denominator positive.    *)
(***************************************************************************)
EXTENDS Integers, Sequences

Magnitude(n) == IF n < 0 THEN -n ELSE n

gcd[p \in Nat \X Nat] == IF p[2] = 0 THEN p[1] ELSE gcd[<<p[2], p[1] % p[2]>>]

Fractions == Int \X (Nat \ {0})

Frac(n, d) ==
    LET g == gcd[<<Magnitude(n), Magnitude(d)>>]
        sign == IF d < 0 THEN -1 ELSE 1
    IN  <<sign * (n \div g), sign * (d \div g)>>

Whole(n) == <<n, 1>>
Zero == Whole(0)

Plus(a, b) == Frac(a[1] * b[2] + b[1] * a[2], a[2] * b[2])
Minus(a, b) == Frac(a[1] * b[2] - b[1] * a[2], a[2] * b[2])
Times(a, b) == Frac(a[1] * b[1], a[2] * b[2])
Over(a, b) == Frac(a[1] * b[2], a[2] * b[1])

Leq(a, b) == a[1] * b[2] <= b[1] * a[2]
Less(a, b) == a[1] * b[2] < b[1] * a[2]
Greatest(a, b) == IF Leq(a, b) THEN b ELSE a
Size(a) == <<Magnitude(a[1]), a[2]>>

(* What a loop that starts with seed has made of it at each position behind
   first: step[i] is its body at i. *)
Loop(seed, first, step) ==
    LET state[i \in Nat] == IF i <= first THEN seed ELSE step[i][state[i - 1]]
    IN  state

SumOf(s) ==
    Loop(Zero, 0, [i \in DOMAIN s |-> [total \in Fractions |-> Plus(total, s[i])]])[Len(s)]

Mean(s) == Over(SumOf(s), Whole(Len(s)))
==============================================================================
