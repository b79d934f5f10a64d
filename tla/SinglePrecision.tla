--------------------------- MODULE SinglePrecision ---------------------------
(***************************************************************************)
(* The numbers of the C type float, as far as the geometry of windows      *)
(* computes with them.  A float that is not negative is a pair <<m, u>> of *)
(* natural numbers, the number m / u: u is a power of two, and m has at    *)
(* most the 24 bits of a significand.  What an operation of C returns is   *)
(* the float nearest to the exact result, the even one of two (IEEE 754,   *)
(* rounding to nearest), which Single finds for results below 2^24 by a    *)
(* long division in base two.                                              *)
(***************************************************************************)
EXTENDS Integers

SIGNIFICAND == 8388608  \* 2^23, the least natural number of 24 bits

\* The number s[1] + s[2] / s[3], twice.
Doubled(s) ==
  IF 2 * s[2] >= s[3] THEN <<2 * s[1] + 1, 2 * s[2] - s[3], s[3]>>
  ELSE <<2 * s[1], 2 * s[2], s[3]>>

\* The integer nearest to it.
Rounded(s) ==
  IF 2 * s[2] > s[3] \/ (2 * s[2] = s[3] /\ s[1] % 2 = 1) THEN s[1] + 1 ELSE s[1]

Half(f) == <<f[1], 2 * f[2]>>

\* The float nearest to it: doubled until it is an integer or has 24 bits.
Nearest[s \in Nat \X Nat \X (Nat \ {0})] ==
  IF s[2] = 0 \/ s[1] >= SIGNIFICAND THEN <<Rounded(s), 1>> ELSE Half(Nearest[Doubled(s)])

\* The float nearest to a / b
Single(a, b) == Nearest[<<a \div b, a % b, b>>]

\* The float nearest to the product of a float and an integer
Times(f, n) == Single(f[1] * n, f[2])

\* The conversion to int, of a float that is not negative
Truncated(f) == f[1] \div f[2]

\* The sum of a float and an integer, of any sign, converted to int: toward zero.
PlusTruncated(f, n) ==
  LET sum == f[1] + n * f[2]
  IN  IF sum >= 0 THEN Truncated(Single(sum, f[2])) ELSE -Truncated(Single(-sum, f[2]))
=============================================================================
