------------------------------ MODULE FpScalar ------------------------------
(***************************************************************************)
(* The software binary floating point of runtime/fp_scalar.c as operators: *)
(* addition and division of bit patterns, the rounding mode and the        *)
(* exception flags.  A pattern is a number with one sign bit, EBits of     *)
(* exponent and FBits of fraction; binary32 has 8 and 23, and every mask   *)
(* and bias of the code is written here in terms of the two widths.        *)
(***************************************************************************)
EXTENDS Integers, Powers

CONSTANTS EBits, FBits

ASSUME FpScalarAssumption == EBits \in Nat \ {0, 1} /\ FBits \in Nat \ {0}

SIGN == Pow2[EBits + FBits]
HIDDEN == Pow2[FBits]
INF == (Pow2[EBits] - 1) * HIDDEN
QUIET == HIDDEN \div 2
Pattern == 0..(2 * SIGN - 1)

Bias == Pow2[EBits - 1] - 1
EMin == 1 - Bias
EMax == Bias

\* nc_fp_rounding.
RN == 0
RP == 1
RM == 2
RZ == 3

\* The cumulative flags, by their bit in FPSR.
IOC == 0
DZC == 1
OFC == 2
UFC == 3
IXC == 4

Abs(p) == p % SIGN
Sign(p) == p - Abs(p)              \* 0 or SIGN
Result(bits, flags) == [bits |-> bits, flags |-> flags]

IsNan(p) == Abs(p) > INF
IsSnan(p) == IsNan(p) /\ (Abs(p) \div QUIET) % 2 = 0

\* Signalling operands first, in operand order, then quiet ones.
NanResult(a, b) ==
  CASE IsSnan(a) -> Result(a + QUIET, {IOC})
    [] ~IsSnan(a) /\ IsSnan(b) -> Result(b + QUIET, {IOC})
    [] OTHER -> Result(IF IsNan(a) THEN a ELSE b, {})

\* Mutant: the bits shifted out are dropped.
ShiftJam_Truncates(value, distance) == value \div Pow2[distance]

\* shift_jam(): what is shifted out stays as the lowest bit, sticky.
ShiftJam(value, distance) ==
  LET kept == value \div Pow2[distance]
  IN IF value % Pow2[distance] # 0 /\ kept % 2 = 0 THEN kept + 1 ELSE kept

\* How far to shift for the leading bit to be at top.
LeftShift(value, top) == CHOOSE k \in 0..top : value * Pow2[k] \in Pow2[top]..(Pow2[top + 1] - 1)

\* unpack(): a subnormal is normalised below the least exponent.
Unpack(p) ==
  LET fraction == Abs(p) % HIDDEN
      encoded == Abs(p) \div HIDDEN
      k == LeftShift(fraction, FBits)
  IN IF encoded # 0
       THEN [sig |-> fraction + HIDDEN, exp |-> encoded - Bias]
       ELSE [sig |-> fraction * Pow2[k], exp |-> EMin - k]

\* The directed mode that rounds a number of this sign away from zero.
Away(mode, sign) == (mode = RP /\ sign = 0) \/ (mode = RM /\ sign # 0)

Overflow(mode, sign) ==
  Result(sign + (IF mode = RN \/ Away(mode, sign) THEN INF ELSE INF - 1), {OFC, IXC})

\* The rounding of pack(): the significand has three rounding bits, and
\* overflow is decided after the carry.
RoundPack(mode, sign, tiny, e, s) ==
  LET tail == s % 8
      whole == s \div 8
      increment == IF mode = RN THEN tail > 4 \/ (tail = 4 /\ whole % 2 = 1)
                                ELSE tail # 0 /\ Away(mode, sign)
      rounded == IF increment THEN whole + 1 ELSE whole
      carry == rounded >= 2 * HIDDEN
      r == IF carry THEN rounded \div 2 ELSE rounded
      re == IF carry THEN e + 1 ELSE e
  IN IF re > EMax
       THEN Overflow(mode, sign)
       ELSE Result(sign + (IF r >= HIDDEN THEN (re + Bias) * HIDDEN ELSE 0) + (r % HIDDEN),
                   IF tail = 0 THEN {} ELSE {IXC} \cup (IF tiny THEN {UFC} ELSE {}))

\* pack(): tiny is decided before the rounding.
Pack(mode, sign, exponent, significand) ==
  LET tiny == exponent < EMin
  IN RoundPack(mode, sign, tiny, IF tiny THEN EMin ELSE exponent,
               IF tiny THEN ShiftJam(significand, EMin - exponent) ELSE significand)

\* The sum is normalised: by a carry to the right, or to the left.
PackSum(mode, sign, exponent, sum) ==
  LET top == FBits + 3
      k == LeftShift(sum, top)
  IN CASE sum = 0 -> Result(IF mode = RM THEN SIGN ELSE 0, {})
       [] sum >= Pow2[top + 1] -> Pack(mode, sign, exponent + 1, ShiftJam(sum, 1))
       [] OTHER -> Pack(mode, sign, exponent - k, sum * Pow2[k])

\* The smaller operand is aligned to the greater one.
AddAligned(mode, sign, same, big, small) ==
  LET shifted == ShiftJam(8 * small.sig, big.exp - small.exp)
  IN PackSum(mode, sign, big.exp, IF same THEN 8 * big.sig + shifted ELSE 8 * big.sig - shifted)

\* The sum of two finite numbers that are not zero, greater magnitude first.
AddFinite(mode, a, b) ==
  LET ua == Unpack(a)
      ub == Unpack(b)
      swap == ua.exp < ub.exp \/ (ua.exp = ub.exp /\ ua.sig < ub.sig)
  IN AddAligned(mode, Sign(IF swap THEN b ELSE a), Sign(a) = Sign(b),
                IF swap THEN ub ELSE ua, IF swap THEN ua ELSE ub)

\* nc_fp32_add().
Add(mode, a, b) ==
  LET infA == Abs(a) = INF
      infB == Abs(b) = INF
      zeroA == Abs(a) = 0
      zeroB == Abs(b) = 0
      same == Sign(a) = Sign(b)
  IN IF IsNan(a) \/ IsNan(b) THEN NanResult(a, b)
     ELSE CASE infA /\ infB /\ ~same -> Result(INF + QUIET, {IOC})
            [] infA /\ (infB => same) -> Result(a, {})
            [] ~infA /\ infB -> Result(b, {})
            [] zeroA /\ zeroB ->
                 Result(IF same THEN Sign(a) ELSE IF mode = RM THEN SIGN ELSE 0, {})
            [] zeroA /\ ~zeroB /\ ~infB -> Result(b, {})
            [] zeroB /\ ~zeroA /\ ~infA -> Result(a, {})
            [] OTHER -> AddFinite(mode, a, b)

\* The quotient of two finite numbers that are not zero.
DivFinite(mode, sign, a, b) ==
  LET ua == Unpack(a)
      ub == Unpack(b)
      less == ua.sig < ub.sig
      numerator == (IF less THEN 2 ELSE 1) * ua.sig * Pow2[FBits + 3]
      quotient == numerator \div ub.sig
      sticky == numerator % ub.sig # 0 /\ quotient % 2 = 0
  IN Pack(mode, sign, ua.exp - ub.exp - (IF less THEN 1 ELSE 0),
          IF sticky THEN quotient + 1 ELSE quotient)

\* nc_fp32_div().
Div(mode, a, b) ==
  LET infA == Abs(a) = INF
      infB == Abs(b) = INF
      zeroA == Abs(a) = 0
      zeroB == Abs(b) = 0
      sign == IF Sign(a) = Sign(b) THEN 0 ELSE SIGN
  IN IF IsNan(a) \/ IsNan(b) THEN NanResult(a, b)
     ELSE CASE (zeroA /\ zeroB) \/ (infA /\ infB) -> Result(INF + QUIET, {IOC})
            [] infA /\ ~infB -> Result(sign + INF, {})
            [] ~infA /\ infB -> Result(sign, {})
            [] zeroB /\ ~zeroA /\ ~infA -> Result(sign + INF, {DZC})
            [] zeroA /\ ~zeroB /\ ~infB -> Result(sign, {})
            [] OTHER -> DivFinite(mode, sign, a, b)
=============================================================================
