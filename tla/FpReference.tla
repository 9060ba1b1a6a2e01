----------------------------- MODULE FpReference -----------------------------
(***************************************************************************)
(* What one addition or division must return, by IEEE 754: the exact       *)
(* result as a fraction of integers, and the one rounding of it to a       *)
(* pattern.  Nothing here shifts or packs: a finite pattern is looked up   *)
(* by its magnitude.                                                       *)
(***************************************************************************)
EXTENDS FpScalar

\* The magnitude of a pattern in units of the least subnormal; for INF, the
\* number that would come after the greatest finite one.
Magnitude(p) == LET e == p \div HIDDEN
                    f == p % HIDDEN
                IN IF e = 0 THEN f ELSE (HIDDEN + f) * Pow2[e - 1]
Magnitudes == [p \in 0..INF |-> Magnitude(p)]

\* The rounding of n/d units, a positive number, to a pattern and its flags.
Rounded(mode, sign, n, d) ==
  LET beyond == n >= Magnitudes[INF] * d
      low == CHOOSE p \in 0..(INF - 1) : /\ Magnitudes[p] * d <= n
                                         /\ p = INF - 1 \/ n < Magnitudes[p + 1] * d
      exact == Magnitudes[low] * d = n
      twiceMiddle == (Magnitudes[low] + Magnitudes[low + 1]) * d
      up == IF mode = RN THEN 2 * n > twiceMiddle \/ (2 * n = twiceMiddle /\ low % 2 = 1)
                         ELSE Away(mode, sign)
      chosen == CASE beyond -> IF mode = RN \/ Away(mode, sign) THEN INF ELSE INF - 1
                  [] ~beyond /\ ~exact /\ up -> low + 1
                  [] OTHER -> low
      flags == CASE beyond \/ chosen = INF -> {OFC, IXC}
                 [] ~beyond /\ chosen # INF /\ exact -> {}
                 [] OTHER -> {IXC} \cup (IF n < Magnitudes[HIDDEN] * d THEN {UFC} ELSE {})
  IN Result(sign + chosen, flags)

Signed(p) == IF Sign(p) = 0 THEN Magnitudes[p] ELSE -Magnitudes[Abs(p)]
Finite(p) == Abs(p) < INF

\* An operation on numbers that is not defined returns the default NaN.
Undefined(op, a, b) ==
  \/ op = "FADD" /\ Abs(a) = INF /\ Abs(b) = INF /\ Sign(a) # Sign(b)
  \/ op = "FDIV" /\ Abs(a) = Abs(b) /\ Abs(a) \in {0, INF}

RefNan(a, b) ==
  LET order == IF IsSnan(a) \/ (IsNan(a) /\ ~IsSnan(b)) THEN a ELSE b
  IN Result(IF IsSnan(order) THEN order + QUIET ELSE order,
            IF IsSnan(a) \/ IsSnan(b) THEN {IOC} ELSE {})

RefAdd(mode, a, b) ==
  LET sum == Signed(a) + Signed(b)
  IN CASE ~Finite(a) -> Result(a, {})
       [] Finite(a) /\ ~Finite(b) -> Result(b, {})
       [] Finite(a) /\ Finite(b) /\ sum = 0 ->
            Result(IF Abs(a) = 0 /\ Sign(a) = Sign(b) THEN Sign(a)
                   ELSE IF mode = RM THEN SIGN ELSE 0, {})
       [] OTHER -> IF sum > 0 THEN Rounded(mode, 0, sum, 1)
                              ELSE Rounded(mode, SIGN, -sum, 1)

RefDiv(mode, a, b) ==
  LET sign == IF Sign(a) = Sign(b) THEN 0 ELSE SIGN
  IN CASE ~Finite(a) -> Result(sign + INF, {})
       [] Finite(a) /\ (~Finite(b) \/ Abs(a) = 0) -> Result(sign, {})
       [] Finite(a) /\ Abs(a) # 0 /\ Abs(b) = 0 -> Result(sign + INF, {DZC})
       [] OTHER -> Rounded(mode, sign, Magnitudes[Abs(a)] * Pow2[FBits - EMin],
                           Magnitudes[Abs(b)])

\* The correctly rounded result of op and the exceptions it raises.
Correct(op, mode, a, b) ==
  CASE IsNan(a) \/ IsNan(b) -> RefNan(a, b)
    [] ~IsNan(a) /\ ~IsNan(b) /\ Undefined(op, a, b) -> Result(INF + QUIET, {IOC})
    [] OTHER -> IF op = "FADD" THEN RefAdd(mode, a, b) ELSE RefDiv(mode, a, b)
=============================================================================
