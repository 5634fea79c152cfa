------------------------------ MODULE Arithmetic ------------------------------
(***************************************************************************)
(* The functions and value types of emb/math.hpp, and what they are to     *)
(* compute.                                                                *)
(*                                                                         *)
(* A number is an integer count of a unit.  Of floats, what matters is     *)
(* kept: a format of MantissaBits bits does not have every integer, so     *)
(* that a limit that is cast to it is rounded.                             *)
(***************************************************************************)
EXTENDS Integers

CONSTANTS
  MantissaBits, Exponents,  \* the float format: m * 2^e, in quarters
  WideBits,                 \* of Wide, the type that lround returns
  Turn                      \* two_pi, in the unit of an angle; even

Pow2[n \in Nat] == IF n = 0 THEN 1 ELSE 2 * Pow2[n - 1]

Abs(x) == IF x < 0 THEN -x ELSE x
Clamp(x, lo, hi) == IF x < lo THEN lo ELSE IF hi < x THEN hi ELSE x

\* Division and remainder of C++, towards zero.
Trunc(x, y) == IF x < 0 THEN -((-x) \div y) ELSE x \div y

sgn(v) == (IF 0 < v THEN 1 ELSE 0) - (IF v < 0 THEN 1 ELSE 0)
iseven(v) == v - 2 * Trunc(v, 2) = 0
isodd(v) == ~iseven(v)

-----------------------------------------------------------------------------
(* saturate_round, quantize, dequantize.  A float is a count of quarters.  *)

Quarter == 4
Floats == {s * m * Pow2[e] : s \in {-1, 1}, m \in 0 .. Pow2[MantissaBits] - 1, e \in Exponents}

\* static_cast<Float> of an integer that is nearest to one float.
ToFloat(n) == CHOOSE f \in Floats : \A g \in Floats : Abs(f - n * Quarter) <= Abs(g - n * Quarter)

Signed(bits) == [min |-> -Pow2[bits - 1], max |-> Pow2[bits - 1] - 1]
Unsigned(bits) == [min |-> 0, max |-> Pow2[bits] - 1]
Wide == Signed(WideBits)

\* To the nearest integer, halves away from zero.
Nearest(num) == sgn(num) * ((Abs(num) + Quarter \div 2) \div Quarter)

\* What lround may return: beyond Wide, anything.
lround(num) ==
  IF Nearest(num) \in Wide.min .. Wide.max THEN {Nearest(num)} ELSE Wide.min .. Wide.max

\* The results it may have.
saturate_round(type, num) ==
  IF num >= ToFloat(Wide.max) THEN {type.max}
  ELSE IF num <= ToFloat(Wide.min) THEN {type.min}
  ELSE {Clamp(n, type.min, type.max) : n \in lround(num)}

\* A step is 1 / den.
quantize(type, den, num) == saturate_round(type, num * den)
dequantize(den, n) == (n * Quarter) \div den

-----------------------------------------------------------------------------
(* Angles.                                                                 *)

norm2pi(v) ==
  LET r == v - Trunc(v, Turn) * Turn IN
  IF r < 0 THEN r + Turn ELSE r

norm2pi_fast(v) ==
  LET r == v - (Trunc(v, Turn) - (IF v < 0 THEN 1 ELSE 0)) * Turn IN
  IF r >= Turn THEN r - Turn ELSE r

normpi(v) == norm2pi(v + Turn \div 2) - Turn \div 2
normpi_fast(v) == norm2pi_fast(v + Turn \div 2) - Turn \div 2

-----------------------------------------------------------------------------
(* range, and the per unit types: unit is 1, lowest is -1 or 0.            *)

range(v1, v2) == IF v1 < v2 THEN [lower |-> v1, upper |-> v2]
                 ELSE [lower |-> v2, upper |-> v1]
contains(r, v) == r.lower <= v /\ v <= r.upper
set_lower_bound(r, v) == IF v <= r.upper THEN [r EXCEPT !.lower = v] ELSE r
set_upper_bound(r, v) == IF v >= r.lower THEN [r EXCEPT !.upper = v] ELSE r
length(r) == r.upper - r.lower

signed_pu(v) == Clamp(v, -Quarter, Quarter)
unsigned_pu(v) == Clamp(v, 0, Quarter)
pu_times(pu(_), a, factor) == pu(a * factor)
pu_plus(pu(_), a, b) == pu(a + b)
pu_minus(pu(_), a, b) == pu(a - b)

-----------------------------------------------------------------------------
IntTypes == {Signed(WideBits - 2), Unsigned(WideBits - 2), Wide}
DyadicDens == {1, 2, 4}

\* A number is rounded and then limited to the integer type, also where the limit of
\* the wide type is not a float, so that the comparison is with a larger number; and
\* what is quantized comes back within half a step (saturate_round, quantize).
SaturateRoundExact(num) ==
  \A type \in IntTypes :
    /\ saturate_round(type, num) = {Clamp(Nearest(num), type.min, type.max)}
    /\ \A den \in DyadicDens : \A n \in quantize(type, den, num) :
         n \in type.min + 1 .. type.max - 1
           => 2 * Abs(dequantize(den, n) - num) <= Quarter \div den

\* An angle is brought to its turn, also a negative one and a whole number of turns,
\* and the fast functions agree with the others (norm2pi, normpi).
AnglesNormal(v) ==
  /\ norm2pi(v) = v % Turn /\ norm2pi_fast(v) = v % Turn
  /\ \A f \in {normpi(v), normpi_fast(v)} :
       f \in -(Turn \div 2) .. Turn \div 2 - 1 /\ (f - v) % Turn = 0

NearestIn(S, exact, result) == result \in S /\ \A u \in S : Abs(result - exact) <= Abs(u - exact)

\* The bounds of a range never cross, and a per unit value is
\* the one within its limits that is nearest to the exact result.
BoundsKept(v) ==
  /\ \A w \in -Turn .. Turn, x \in -Turn .. Turn :
       LET r == range(v, w) IN
       /\ length(r) = Abs(v - w) /\ contains(r, v) /\ contains(r, w)
       /\ \A s \in {set_lower_bound(r, x), set_upper_bound(r, x)} :
            s = r \/ (length(s) >= 0 /\ contains(s, x))
  /\ sgn(v) * Abs(v) = v /\ (isodd(v) <=> v % 2 = 1)
  /\ \A f \in -2 .. 2 :
       /\ NearestIn(-Quarter .. Quarter, signed_pu(v) * f, pu_times(signed_pu, signed_pu(v), f))
       /\ NearestIn(-Quarter .. Quarter, signed_pu(v) - f, pu_minus(signed_pu, signed_pu(v), f))
       /\ NearestIn(0 .. Quarter, unsigned_pu(v) + f, pu_plus(unsigned_pu, unsigned_pu(v), f))
=============================================================================
