------------------------------ MODULE FpProofs ------------------------------
(***************************************************************************)
(* Floating point and the register bank, for every width of exponent and   *)
(* fraction, every memory view and every scenario.                         *)
(***************************************************************************)
EXTENDS FpUnit, FiniteSetTheorems, SequenceTheorems, WellFoundedInduction, TLAPS

-----------------------------------------------------------------------------
(* Powers of two. *)

LEMMA Induction ==
  ASSUME NEW S, 0 \in S, \A n \in Nat : n \in S => n + 1 \in S
  PROVE  \A n \in Nat : n \in S
<1> SUFFICES ASSUME Nat \ S # {} PROVE FALSE
  OBVIOUS
<1>1. PICK m \in Nat \ S : \A k \in Nat \ S : ~(<<k, m>> \in OpToRel(<, Nat))
  BY WFMin, NatLessThanWellFounded, Zenon
<1>2. \A k \in Nat \ S : ~(k < m)
  BY <1>1 DEF OpToRel
<1>3. m \in Nat /\ m \notin S /\ m # 0
  OBVIOUS
<1>4. PICK p \in Nat : p + 1 = m
  BY <1>3
<1>5. p \in S
  BY <1>2, <1>3, <1>4
<1> QED
  BY <1>3, <1>4, <1>5

\* g is the powers of two up to the n-th.
Doubles(g, n) ==
  /\ g \in [0..n -> Nat \ {0}]
  /\ g[0] = 1
  /\ \A i \in 1..n : g[i] = 2 * g[i - 1]

LEMMA DoublesExist == \A n \in Nat : \E g : Doubles(g, n)
<1> DEFINE S == {n \in Nat : \E g : Doubles(g, n)}
<1>1. 0 \in S
  <2>1. PICK g : g = [i \in 0..0 |-> 1]
    OBVIOUS
  <2>2. Doubles(g, 0)
    BY <2>1 DEF Doubles
  <2> QED
    BY <2>2
<1>2. ASSUME NEW n \in Nat, n \in S PROVE n + 1 \in S
  <2>1. PICK g : Doubles(g, n)
    BY <1>2
  <2>2. PICK h : h = [i \in 0..(n + 1) |-> IF i = n + 1 THEN 2 * g[n] ELSE g[i]]
    OBVIOUS
  <2>3. g[n] \in Nat \ {0}
    BY <2>1 DEF Doubles
  <2>4. h \in [0..(n + 1) -> Nat \ {0}]
    BY <2>1, <2>2, <2>3 DEF Doubles
  <2>5. h[0] = 1
    BY <2>1, <2>2 DEF Doubles
  <2>6. ASSUME NEW i \in 1..(n + 1) PROVE h[i] = 2 * h[i - 1]
    <3>1. h[i - 1] = g[i - 1]
      BY <2>2
    <3>2. CASE i = n + 1
      BY <2>2, <3>1, <3>2
    <3>3. CASE i # n + 1
      BY <2>1, <2>2, <3>1, <3>3 DEF Doubles
    <3> QED
      BY <3>2, <3>3
  <2>7. Doubles(h, n + 1)
    BY <2>4, <2>5, <2>6 DEF Doubles
  <2> QED
    BY <2>7
<1> HIDE DEF S
<1>3. \A n \in Nat : n \in S
  BY <1>1, <1>2, Induction
<1> QED
  BY <1>3 DEF S

LEMMA DoublesUnique ==
  ASSUME NEW n \in Nat, NEW g, Doubles(g, n), NEW k \in Nat, NEW h, Doubles(h, k), k <= n
  PROVE  \A i \in 0..k : g[i] = h[i]
<1> DEFINE S == {i \in Nat : i <= k => g[i] = h[i]}
<1>1. 0 \in S
  BY DEF Doubles
<1>2. ASSUME NEW i \in Nat, i \in S PROVE i + 1 \in S
  <2> SUFFICES ASSUME i + 1 <= k PROVE g[i + 1] = h[i + 1]
    OBVIOUS
  <2>1. i + 1 \in 1..n /\ i + 1 \in 1..k /\ (i + 1) - 1 = i
    OBVIOUS
  <2>2. g[i + 1] = 2 * g[i] /\ h[i + 1] = 2 * h[i]
    BY <2>1 DEF Doubles
  <2> QED
    BY <1>2, <2>2
<1> HIDE DEF S
<1>3. \A i \in Nat : i \in S
  BY <1>1, <1>2, Induction
<1> QED
  BY <1>3 DEF S

IsPow2(f) == f = [n \in Nat |-> IF n = 0 THEN 1 ELSE 2 * f[n - 1]]

LEMMA Pow2Defined == IsPow2(Pow2)
<1>1. PICK G : G = [n \in Nat |-> CHOOSE g : Doubles(g, n)]
  OBVIOUS
<1>2. ASSUME NEW n \in Nat PROVE Doubles(G[n], n)
  BY <1>1, DoublesExist
<1>3. PICK f : f = [n \in Nat |-> G[n][n]]
  OBVIOUS
<1>4. ASSUME NEW n \in Nat PROVE f[n] = IF n = 0 THEN 1 ELSE 2 * f[n - 1]
  <2>1. f[n] = G[n][n] /\ Doubles(G[n], n)
    BY <1>2, <1>3
  <2>2. CASE n = 0
    BY <2>1, <2>2 DEF Doubles
  <2>3. CASE n # 0
    <3>1. n - 1 \in Nat /\ n - 1 <= n /\ n \in 1..n /\ n - 1 \in 0..(n - 1)
      BY <2>3
    <3>2. Doubles(G[n - 1], n - 1) /\ f[n - 1] = G[n - 1][n - 1]
      BY <1>2, <1>3, <3>1
    <3>3. G[n][n - 1] = G[n - 1][n - 1]
      BY <2>1, <3>1, <3>2, DoublesUnique
    <3>4. G[n][n] = 2 * G[n][n - 1]
      BY <2>1, <3>1 DEF Doubles
    <3> QED
      BY <2>1, <2>3, <3>2, <3>3, <3>4
  <2> QED
    BY <2>2, <2>3
<1>5. IsPow2(f)
  <2>1. f = [n \in Nat |-> f[n]]
    BY <1>3
  <2>2. f = [n \in Nat |-> IF n = 0 THEN 1 ELSE 2 * f[n - 1]]
    BY <1>4, <2>1
  <2> QED
    BY <2>2 DEF IsPow2
<1>6. Pow2 = CHOOSE g : IsPow2(g)
  BY DEF Pow2, IsPow2
<1> QED
  BY <1>5, <1>6

LEMMA Pow2Unfolds ==
  /\ Pow2[0] = 1
  /\ \A n \in Nat : Pow2[n + 1] = 2 * Pow2[n]
<1>1. PICK f : f = Pow2
  OBVIOUS
<1>2. f = [n \in Nat |-> IF n = 0 THEN 1 ELSE 2 * f[n - 1]]
  BY <1>1, Pow2Defined DEF IsPow2
<1>3. f[0] = 1
  BY <1>2
<1>4. ASSUME NEW n \in Nat PROVE f[n + 1] = 2 * f[n]
  <2>1. n + 1 \in Nat /\ n + 1 # 0 /\ (n + 1) - 1 = n
    OBVIOUS
  <2> QED
    BY <1>2, <2>1
<1> QED
  BY <1>1, <1>3, <1>4

LEMMA Pow2Typed == \A n \in Nat : Pow2[n] \in Nat \ {0}
<1> DEFINE S == {n \in Nat : Pow2[n] \in Nat \ {0}}
<1>1. 0 \in S
  BY Pow2Unfolds
<1>2. ASSUME NEW n \in Nat, n \in S PROVE n + 1 \in S
  BY <1>2, Pow2Unfolds
<1> HIDE DEF S
<1>3. \A n \in Nat : n \in S
  BY <1>1, <1>2, Induction
<1> QED
  BY <1>3 DEF S

LEMMA Pow2Sum ==
  ASSUME NEW a \in Nat
  PROVE  \A b \in Nat : Pow2[a + b] = Pow2[a] * Pow2[b]
<1> DEFINE S == {b \in Nat : Pow2[a + b] = Pow2[a] * Pow2[b]}
<1>1. 0 \in S
  BY Pow2Unfolds, Pow2Typed
<1>2. ASSUME NEW b \in Nat, b \in S PROVE b + 1 \in S
  <2>1. a + b \in Nat /\ a + (b + 1) = (a + b) + 1
    OBVIOUS
  <2>2. Pow2[a + (b + 1)] = 2 * Pow2[a + b] /\ Pow2[b + 1] = 2 * Pow2[b]
    BY <2>1, Pow2Unfolds
  <2>3. PICK p \in Nat, q \in Nat : p = Pow2[a] /\ q = Pow2[b]
    BY Pow2Typed
  <2>4. Pow2[a + (b + 1)] = 2 * (p * q) /\ Pow2[b + 1] = 2 * q
    BY <1>2, <2>2, <2>3
  <2>5. 2 * (p * q) = p * (2 * q)
    OBVIOUS
  <2>6. Pow2[a + (b + 1)] = Pow2[a] * Pow2[b + 1]
    BY <2>3, <2>4, <2>5
  <2> QED
    BY <2>6
<1> HIDE DEF S
<1>3. \A b \in Nat : b \in S
  BY <1>1, <1>2, Induction
<1> QED
  BY <1>3 DEF S

-----------------------------------------------------------------------------
(* Quotients and remainders. *)

LEMMA Divided ==
  ASSUME NEW z \in Nat, NEW d \in Nat \ {0}
  PROVE  /\ (z \div d) \in Nat /\ (z % d) \in Nat /\ (z % d) < d
         /\ z = d * (z \div d) + (z % d)
OBVIOUS

LEMMA DividesOnce ==
  ASSUME NEW z \in Nat, NEW d \in Nat \ {0}, NEW k \in Nat, NEW r \in Nat, r < d,
         z = d * k + r
  PROVE  (z \div d) = k /\ (z % d) = r
OBVIOUS

LEMMA Pow2Monotone ==
  ASSUME NEW a \in Nat, NEW b \in Nat, a <= b
  PROVE  Pow2[a] <= Pow2[b]
<1>1. PICK c \in Nat : a + c = b
  <2>1. b - a \in Nat /\ a + (b - a) = b
    OBVIOUS
  <2> QED
    BY <2>1
<1>2. Pow2[b] = Pow2[a] * Pow2[c]
  BY <1>1, Pow2Sum
<1>3. PICK p \in Nat \ {0}, q \in Nat \ {0} : p = Pow2[a] /\ q = Pow2[c]
  BY Pow2Typed
<1>4. p <= p * q
  <2>1. p * 1 <= p * q
    OBVIOUS
  <2> QED
    BY <2>1
<1> QED
  BY <1>2, <1>3, <1>4

-----------------------------------------------------------------------------
(* Comparisons that survive rounding. *)

\* s lies to c as n lies to z.
Like(s, c, n, z) == (s < c <=> n < z) /\ (s = c <=> n = z)

LEMMA LikeScaled ==
  ASSUME NEW a \in Nat, NEW b \in Nat, NEW d \in Nat \ {0}
  PROVE  Like(a, b, a * d, b * d)
<1>1. ASSUME a < b PROVE a * d < b * d
  <2>1. (a + 1) * d <= b * d
    BY <1>1
  <2>2. (a + 1) * d = a * d + d /\ a * d \in Nat /\ b * d \in Nat
    OBVIOUS
  <2> QED
    BY <2>1, <2>2
<1>2. ASSUME b < a PROVE b * d < a * d
  <2>1. (b + 1) * d <= a * d
    BY <1>2
  <2>2. (b + 1) * d = b * d + d /\ a * d \in Nat /\ b * d \in Nat
    OBVIOUS
  <2> QED
    BY <2>1, <2>2
<1>3. PICK z \in Nat, y \in Nat : z = a * d /\ y = b * d
  OBVIOUS
<1> QED
  BY <1>1, <1>2, <1>3 DEF Like

\* The quotient with everything below it kept as the lowest bit.
Jam(n, d) == IF (n % d) # 0 /\ (n \div d) % 2 = 0 THEN (n \div d) + 1 ELSE (n \div d)

\* s lies to every multiple of m as n / d does.
Ranks(s, n, d, m) == \A c \in Nat : Like(s, m * c, n, (m * c) * d)

LEMMA JamRanks ==
  ASSUME NEW n \in Nat, NEW d \in Nat \ {0}
  PROVE  Jam(n, d) \in Nat /\ Ranks(Jam(n, d), n, d, 2)
<1>1. PICK q \in Nat, r \in Nat : q = (n \div d) /\ r = (n % d) /\ r < d /\ n = d * q + r
  BY Divided
<1>2. PICK j \in Nat : /\ j = Jam(n, d)
                       /\ j = IF r # 0 /\ q % 2 = 0 THEN q + 1 ELSE q
  BY <1>1 DEF Jam
<1>3. ASSUME NEW c \in Nat PROVE Like(j, 2 * c, n, (2 * c) * d)
  <2>1. PICK e \in Nat : e = 2 * c /\ e % 2 = 0
    OBVIOUS
  <2>2. PICK z \in Nat, y \in Nat : z = e * d /\ y = q * d /\ n = y + r
    BY <1>1
  <2>3. CASE q < e
    <3>1. (q + 1) * d <= e * d
      BY <2>3
    <3>2. (q + 1) * d = q * d + d
      OBVIOUS
    <3>3. n < z
      BY <1>1, <2>2, <3>1, <3>2
    <3>4. j < e
      BY <1>2, <2>1, <2>3
    <3> QED
      BY <2>1, <2>2, <3>3, <3>4 DEF Like
  <2>4. CASE q = e
    <3>1. z = y
      BY <2>2, <2>4
    <3> QED
      BY <1>2, <2>1, <2>2, <2>4, <3>1 DEF Like
  <2>5. CASE q > e
    <3>1. (e + 1) * d <= q * d
      BY <2>5
    <3>2. (e + 1) * d = e * d + d
      OBVIOUS
    <3>3. n > z
      BY <1>1, <2>2, <3>1, <3>2
    <3>4. j > e
      BY <1>2, <2>1, <2>5
    <3> QED
      BY <2>1, <2>2, <3>3, <3>4 DEF Like
  <2> QED
    BY <2>1, <2>3, <2>4, <2>5
<1> QED
  BY <1>2, <1>3 DEF Ranks

LEMMA RanksCoarser ==
  ASSUME NEW s, NEW n, NEW d, Ranks(s, n, d, 2)
  PROVE  Ranks(s, n, d, 4)
<1> SUFFICES ASSUME NEW c \in Nat PROVE Like(s, 4 * c, n, (4 * c) * d)
  BY DEF Ranks
<1>1. 2 * c \in Nat /\ 2 * (2 * c) = 4 * c
  OBVIOUS
<1>2. Like(s, 2 * (2 * c), n, (2 * (2 * c)) * d)
  BY <1>1 DEF Ranks
<1> QED
  BY <1>1, <1>2

LEMMA RanksScaled ==
  ASSUME NEW s, NEW n \in Nat, NEW d \in Nat, NEW k \in Nat \ {0}, NEW m \in Nat
  PROVE  Ranks(s, n * k, d * k, m) <=> Ranks(s, n, d, m)
<1>1. ASSUME NEW c \in Nat
      PROVE  Like(s, m * c, n * k, (m * c) * (d * k)) <=> Like(s, m * c, n, (m * c) * d)
  <2>1. PICK e \in Nat, z \in Nat : e = m * c /\ z = e * d
    OBVIOUS
  <2>2. (m * c) * (d * k) = z * k
    BY <2>1
  <2>3. Like(n, z, n * k, z * k)
    BY <2>1, LikeScaled
  <2> QED
    BY <2>1, <2>2, <2>3 DEF Like
<1> QED
  BY <1>1 DEF Ranks

LEMMA RanksShifted ==
  ASSUME NEW s \in Nat, NEW n \in Nat, NEW d \in Nat, NEW k \in Nat, Ranks(s, n, d, 4)
  PROVE  /\ ShiftJam(s, k) \in Nat
         /\ Ranks(ShiftJam(s, k), n, d * Pow2[k], 4)
<1>1. PICK p \in Nat \ {0} : p = Pow2[k]
  BY Pow2Typed
<1>2. PICK j \in Nat : j = ShiftJam(s, k) /\ Ranks(j, s, p, 2)
  BY <1>1, JamRanks DEF ShiftJam, Jam
<1>3. ASSUME NEW c \in Nat PROVE Like(j, 4 * c, n, (4 * c) * (d * p))
  <2>1. 2 * c \in Nat /\ 2 * (2 * c) = 4 * c /\ c * p \in Nat
    OBVIOUS
  <2>2. Like(j, 4 * c, s, (4 * c) * p)
    BY <1>2, <2>1 DEF Ranks
  <2>3. Like(s, 4 * (c * p), n, (4 * (c * p)) * d)
    BY <2>1 DEF Ranks
  <2>4. 4 * (c * p) = (4 * c) * p
    OBVIOUS
  <2>5. (4 * (c * p)) * d = (4 * c) * (d * p)
    OBVIOUS
  <2> QED
    BY <2>2, <2>3, <2>4, <2>5 DEF Like
<1> QED
  BY <1>1, <1>2, <1>3 DEF Ranks

-----------------------------------------------------------------------------
(* The format. *)

LEMMA Format ==
  /\ EBits \in Nat /\ FBits \in Nat /\ FBits > 0
  /\ HIDDEN \in Nat \ {0} /\ QUIET \in Nat \ {0} /\ HIDDEN = 2 * QUIET
  /\ Bias \in Nat \ {0} /\ EMin = 1 - Bias /\ EMax = Bias
  /\ INF = (2 * Bias + 1) * HIDDEN /\ INF \in Nat \ {0}
  /\ SIGN = INF + HIDDEN /\ SIGN \in Nat \ {0}
<1>1. EBits \in Nat /\ EBits > 1 /\ FBits \in Nat /\ FBits > 0
  BY FpScalarAssumption
<1>2. PICK f \in Nat, e \in Nat : f + 1 = FBits /\ e + 2 = EBits
  <2>1. FBits - 1 \in Nat /\ (FBits - 1) + 1 = FBits /\ EBits - 2 \in Nat /\ (EBits - 2) + 2 = EBits
    BY <1>1
  <2> QED
    BY <2>1
<1>3. PICK q \in Nat \ {0}, c \in Nat \ {0} : q = Pow2[f] /\ c = Pow2[e]
  BY Pow2Typed
<1>4. Pow2[FBits] = 2 * q
  BY <1>2, <1>3, Pow2Unfolds
<1>5. Pow2[EBits - 1] = 2 * c
  <2>1. EBits - 1 = e + 1
    BY <1>1, <1>2
  <2> QED
    BY <1>3, <2>1, Pow2Unfolds
<1>6. Pow2[EBits] = 4 * c
  <2>1. EBits = (e + 1) + 1 /\ e + 1 \in Nat
    BY <1>1, <1>2
  <2>2. Pow2[e + 1] = 2 * c
    BY <1>3, Pow2Unfolds
  <2>3. Pow2[(e + 1) + 1] = 2 * Pow2[e + 1]
    BY <2>1, Pow2Unfolds
  <2> QED
    BY <2>1, <2>2, <2>3
<1>7. HIDDEN = 2 * q /\ QUIET = q
  BY <1>4 DEF HIDDEN, QUIET
<1>8. Bias = 2 * c - 1 /\ Bias \in Nat \ {0}
  BY <1>5 DEF Bias
<1>9. 2 * Bias + 1 = 4 * c - 1 /\ 2 * Bias + 2 = 4 * c
  BY <1>8
<1>10. INF = (2 * Bias + 1) * HIDDEN
  BY <1>6, <1>9 DEF INF
<1>11. SIGN = (4 * c) * (2 * q)
  BY <1>1, <1>4, <1>6, Pow2Sum DEF SIGN
<1>12. PICK h \in Nat \ {0}, k \in Nat \ {0} : h = HIDDEN /\ k = 2 * Bias + 1 /\ INF = k * h /\ SIGN = (k + 1) * h
  <2>1. 2 * Bias + 1 \in Nat \ {0} /\ 4 * c = (2 * Bias + 1) + 1
    BY <1>8, <1>9
  <2> QED
    BY <1>7, <1>10, <1>11, <2>1
<1>13. (k + 1) * h = k * h + h /\ k * h \in Nat \ {0}
  OBVIOUS
<1> QED
  BY <1>1, <1>7, <1>8, <1>10, <1>12, <1>13 DEF EMin, EMax

\* The pattern and the magnitude of w units of the exponent e.
LEMMA MagnitudeOf ==
  ASSUME NEW e \in Nat, NEW w \in Nat, w <= 2 * HIDDEN, e = 0 \/ w >= HIDDEN
  PROVE  e * HIDDEN + w \in Nat /\ Magnitude(e * HIDDEN + w) = w * Pow2[e]
<1>1. PICK h \in Nat \ {0} : h = HIDDEN
  BY Format
<1>2. PICK p \in Nat : p = e * h + w
  OBVIOUS
<1>3. Magnitude(p) = IF (p \div h) = 0 THEN (p % h) ELSE (h + (p % h)) * Pow2[(p \div h) - 1]
  BY <1>1 DEF Magnitude
<1>4. CASE w < h
  <2>1. e = 0 /\ p = h * 0 + w
    BY <1>1, <1>2, <1>4
  <2>2. (p \div h) = 0 /\ (p % h) = w
    BY <1>4, <2>1, DividesOnce
  <2> QED
    BY <1>1, <1>2, <1>3, <2>1, <2>2, Pow2Unfolds
<1>5. CASE h <= w /\ w < 2 * h
  <2>1. PICK r \in Nat : r + h = w /\ r < h
    <3>1. w - h \in Nat /\ (w - h) + h = w /\ w - h < h
      BY <1>5
    <3> QED
      BY <3>1
  <2>2. p = h * (e + 1) + r
    BY <1>2, <2>1
  <2>3. (p \div h) = e + 1 /\ (p % h) = r
    <3>1. e + 1 \in Nat
      OBVIOUS
    <3> QED
      BY <2>1, <2>2, <3>1, DividesOnce
  <2>4. (e + 1) - 1 = e /\ e + 1 # 0 /\ h + r = w
    BY <2>1
  <2> QED
    BY <1>1, <1>2, <1>3, <2>3, <2>4
<1>6. CASE w = 2 * h
  <2>1. p = h * (e + 2) + 0
    BY <1>2, <1>6
  <2>2. (p \div h) = e + 2 /\ (p % h) = 0
    <3>1. e + 2 \in Nat /\ 0 \in Nat /\ 0 < h
      OBVIOUS
    <3> QED
      BY <2>1, <3>1, DividesOnce
  <2>3. (e + 2) - 1 = e + 1 /\ e + 2 # 0
    OBVIOUS
  <2>4. Magnitude(p) = (h + 0) * Pow2[e + 1]
    BY <1>3, <2>2, <2>3
  <2>5. PICK q \in Nat : q = Pow2[e] /\ Pow2[e + 1] = 2 * q
    BY Pow2Typed, Pow2Unfolds
  <2>6. (h + 0) * (2 * q) = (2 * h) * q
    OBVIOUS
  <2> QED
    BY <1>1, <1>2, <1>6, <2>4, <2>5, <2>6
<1> QED
  BY <1>1, <1>4, <1>5, <1>6

LEMMA PatternSplits ==
  ASSUME NEW p \in Nat
  PROVE  \E e \in Nat, w \in Nat : p = e * HIDDEN + w /\ w < 2 * HIDDEN /\ (e = 0 \/ w >= HIDDEN)
<1>1. PICK h \in Nat \ {0} : h = HIDDEN
  BY Format
<1>2. PICK q \in Nat, r \in Nat : q = (p \div h) /\ r = (p % h) /\ r < h /\ p = h * q + r
  BY Divided
<1>3. CASE q = 0
  <2>1. p = 0 * h + r /\ r < 2 * h
    BY <1>2, <1>3
  <2> QED
    BY <1>1, <2>1
<1>4. CASE q # 0
  <2>1. PICK e \in Nat : e + 1 = q
    <3>1. q - 1 \in Nat /\ (q - 1) + 1 = q
      BY <1>4
    <3> QED
      BY <3>1
  <2>2. p = e * h + (h + r) /\ h + r \in Nat /\ h + r < 2 * h /\ h + r >= h
    BY <1>2, <2>1
  <2> QED
    BY <1>1, <2>2
<1> QED
  BY <1>3, <1>4

LEMMA MagnitudeGrows ==
  ASSUME NEW p \in Nat
  PROVE  Magnitude(p) \in Nat /\ Magnitude(p + 1) \in Nat /\ Magnitude(p) < Magnitude(p + 1)
<1>1. PICK e \in Nat, w \in Nat : p = e * HIDDEN + w /\ w < 2 * HIDDEN /\ (e = 0 \/ w >= HIDDEN)
  BY PatternSplits
<1>2. PICK h \in Nat \ {0}, q \in Nat \ {0} : h = HIDDEN /\ q = Pow2[e]
  BY Format, Pow2Typed
<1>3. Magnitude(p) = w * q
  BY <1>1, <1>2, MagnitudeOf
<1>4. p + 1 = e * h + (w + 1) /\ w + 1 \in Nat /\ w + 1 <= 2 * h /\ (e = 0 \/ w + 1 >= h)
  BY <1>1, <1>2
<1>5. Magnitude(p + 1) = (w + 1) * q
  BY <1>2, <1>4, MagnitudeOf
<1>6. (w + 1) * q = w * q + q /\ w * q \in Nat
  OBVIOUS
<1> QED
  BY <1>3, <1>5, <1>6

LEMMA MagnitudeOrders ==
  ASSUME NEW p \in Nat, NEW q \in Nat, p <= q
  PROVE  /\ Magnitude(p) \in Nat /\ Magnitude(q) \in Nat
         /\ Magnitude(p) <= Magnitude(q)
         /\ p < q => Magnitude(p) < Magnitude(q)
<1> DEFINE S == {k \in Nat : Magnitude(p) + k <= Magnitude(p + k)}
<1>0. \A k \in Nat : Magnitude(k) \in Nat
  BY MagnitudeGrows
<1>1. 0 \in S
  BY <1>0
<1>2. ASSUME NEW k \in Nat, k \in S PROVE k + 1 \in S
  <2>1. p + k \in Nat /\ (p + k) + 1 = p + (k + 1)
    OBVIOUS
  <2>2. Magnitude(p + k) < Magnitude(p + (k + 1))
    BY <2>1, MagnitudeGrows
  <2>3. p + k \in Nat /\ p + (k + 1) \in Nat
    OBVIOUS
  <2>4. PICK a \in Nat, b \in Nat, c \in Nat :
          a = Magnitude(p) /\ b = Magnitude(p + k) /\ c = Magnitude(p + (k + 1))
    BY <1>0, <2>3
  <2>5. a + (k + 1) <= c
    BY <1>2, <2>2, <2>4
  <2> QED
    BY <2>4, <2>5
<1> HIDE DEF S
<1>3. \A k \in Nat : k \in S
  BY <1>1, <1>2, Induction
<1>4. q - p \in Nat /\ p + (q - p) = q
  OBVIOUS
<1>5. Magnitude(p) + (q - p) <= Magnitude(q)
  BY <1>3, <1>4 DEF S
<1> QED
  BY <1>0, <1>4, <1>5

-----------------------------------------------------------------------------
(* What FpReference rounds to. *)

\* p is the greatest pattern not above n / d.
IsLow(p, n, d) == /\ Magnitudes[p] * d <= n
                  /\ p = INF - 1 \/ n < Magnitudes[p + 1] * d

LEMMA MagnitudeLooked ==
  \A p \in 0..INF : Magnitudes[p] = Magnitude(p) /\ Magnitude(p) \in Nat
<1>1. INF \in Nat
  BY Format
<1> QED
  BY <1>1, MagnitudeGrows DEF Magnitudes

LEMMA LowIs ==
  ASSUME NEW p \in 0..(INF - 1), NEW n \in Nat, NEW d \in Nat \ {0},
         Magnitude(p) * d <= n, n < Magnitude(p + 1) * d
  PROVE  (CHOOSE q \in 0..(INF - 1) : IsLow(q, n, d)) = p
<1>0. INF \in Nat \ {0} /\ p \in Nat /\ p + 1 \in Nat /\ p \in 0..INF /\ p + 1 \in 0..INF
  BY Format
<1>1. IsLow(p, n, d)
  BY <1>0, MagnitudeLooked DEF IsLow
<1>2. ASSUME NEW q \in 0..(INF - 1), IsLow(q, n, d) PROVE q = p
  <2>0. q \in Nat /\ q + 1 \in Nat /\ q \in 0..INF /\ q + 1 \in 0..INF
    BY <1>0
  <2>1. PICK a \in Nat, b \in Nat, u \in Nat, v \in Nat :
          /\ a = Magnitude(p) /\ b = Magnitude(p + 1)
          /\ u = Magnitude(q) /\ v = Magnitude(q + 1)
    BY <1>0, <2>0, MagnitudeLooked
  <2>2. a * d <= n /\ n < b * d /\ u * d <= n /\ (q = INF - 1 \/ n < v * d)
    BY <1>0, <1>2, <2>0, <2>1, MagnitudeLooked DEF IsLow
  <2>3. ASSUME q < p PROVE FALSE
    <3>1. q + 1 <= p /\ q # INF - 1
      BY <1>0, <2>0, <2>3
    <3>2. v <= a
      BY <1>0, <2>0, <2>1, <3>1, MagnitudeOrders
    <3>3. v * d <= a * d /\ v * d \in Nat /\ a * d \in Nat
      BY <3>2
    <3> QED
      BY <2>2, <3>1, <3>3
  <2>4. ASSUME p < q PROVE FALSE
    <3>1. p + 1 <= q
      BY <1>0, <2>0, <2>4
    <3>2. b <= u
      BY <1>0, <2>0, <2>1, <3>1, MagnitudeOrders
    <3>3. b * d <= u * d /\ b * d \in Nat /\ u * d \in Nat
      BY <3>2
    <3> QED
      BY <2>2, <3>3
  <2> QED
    BY <1>0, <2>0, <2>3, <2>4
<1> QED
  BY <1>1, <1>2

\* The pattern above p is nearer than p, or as near and even.
Up(mode, sign, n, d, p) ==
  LET middle == (Magnitude(p) + Magnitude(p + 1)) * d
  IN IF mode = RN THEN 2 * n > middle \/ (2 * n = middle /\ p % 2 = 1) ELSE Away(mode, sign)

\* What follows from the pattern that was chosen.
Chosen(sign, c, exact, tiny) ==
  Result(sign + c, IF c = INF THEN {OFC, IXC}
                   ELSE IF exact THEN {} ELSE {IXC} \cup (IF tiny THEN {UFC} ELSE {}))

LEMMA RoundedBelow ==
  ASSUME NEW mode, NEW sign, NEW n \in Nat, NEW d \in Nat \ {0}, NEW p \in 0..(INF - 1),
         Magnitude(p) * d <= n, n < Magnitude(p + 1) * d
  PROVE  Rounded(mode, sign, n, d)
           = Chosen(sign, IF Magnitude(p) * d # n /\ Up(mode, sign, n, d, p) THEN p + 1 ELSE p,
                    Magnitude(p) * d = n, n < HIDDEN * d)
<1>0. INF \in Nat \ {0} /\ p \in Nat /\ p \in 0..INF /\ p + 1 \in 0..INF /\ p # INF
      /\ INF \in 0..INF
  BY Format
<1>1. (CHOOSE q \in 0..(INF - 1) : /\ Magnitudes[q] * d <= n
                                   /\ q = INF - 1 \/ n < Magnitudes[q + 1] * d) = p
  BY LowIs DEF IsLow
<1>2. Magnitudes[p] = Magnitude(p) /\ Magnitudes[p + 1] = Magnitude(p + 1)
  BY <1>0, MagnitudeLooked
<1>3. ~(n >= Magnitudes[INF] * d)
  <2>1. p + 1 \in Nat /\ p + 1 <= INF
    BY <1>0
  <2>2. PICK b \in Nat, t \in Nat : b = Magnitude(p + 1) /\ t = Magnitude(INF) /\ b <= t
    BY <1>0, <2>1, MagnitudeOrders
  <2>3. b * d <= t * d /\ b * d \in Nat /\ t * d \in Nat
    BY <2>2
  <2>4. Magnitudes[INF] = t
    BY <1>0, <2>2, MagnitudeLooked
  <2> QED
    BY <2>2, <2>3, <2>4
<1>4. Magnitudes[HIDDEN] = HIDDEN
  <2>1. PICK h \in Nat \ {0}, b \in Nat \ {0} : h = HIDDEN /\ b = Bias /\ INF = (2 * b + 1) * h
    BY Format
  <2>2. (2 * b + 1) * h = (2 * b) * h + h /\ (2 * b) * h \in Nat
    OBVIOUS
  <2>3. HIDDEN \in 0..INF
    BY <2>1, <2>2
  <2>4. 0 \in Nat /\ 0 * HIDDEN + HIDDEN = HIDDEN /\ HIDDEN * 1 = HIDDEN /\ HIDDEN \in Nat
        /\ HIDDEN <= 2 * HIDDEN
    BY <2>1
  <2>5. Magnitude(0 * HIDDEN + HIDDEN) = HIDDEN * Pow2[0]
    BY <2>4, MagnitudeOf
  <2> QED
    BY <2>3, <2>4, <2>5, MagnitudeLooked, Pow2Unfolds
<1>5. PICK exact \in BOOLEAN, up \in BOOLEAN :
        exact = (Magnitude(p) * d = n) /\ up = Up(mode, sign, n, d, p)
  BY DEF Up, Away
<1>6. PICK chosen : chosen = IF ~exact /\ up THEN p + 1 ELSE p
  OBVIOUS
<1>7. Rounded(mode, sign, n, d)
        = Result(sign + chosen,
                 CASE chosen = INF -> {OFC, IXC}
                   [] chosen # INF /\ exact -> {}
                   [] OTHER -> {IXC} \cup (IF n < HIDDEN * d THEN {UFC} ELSE {}))
  BY <1>1, <1>2, <1>3, <1>4, <1>5, <1>6 DEF Rounded, Up
<1> QED
  BY <1>5, <1>6, <1>7 DEF Chosen, Result

LEMMA RoundedBeyond ==
  ASSUME NEW mode, NEW sign, NEW n \in Nat, NEW d \in Nat \ {0}, Magnitude(INF) * d <= n
  PROVE  Rounded(mode, sign, n, d) = Overflow(mode, sign)
<1>1. INF \in Nat /\ INF \in 0..INF
  BY Format
<1>2. PICK t \in Nat : t = Magnitudes[INF] /\ t = Magnitude(INF)
  BY <1>1, MagnitudeLooked
<1>3. n >= t * d
  <2>1. t * d \in Nat
    OBVIOUS
  <2> QED
    BY <1>2, <2>1
<1>4. Rounded(mode, sign, n, d)
        = Result(sign + (IF mode = RN \/ Away(mode, sign) THEN INF ELSE INF - 1), {OFC, IXC})
  BY <1>2, <1>3 DEF Rounded
<1> QED
  BY <1>4 DEF Overflow

-----------------------------------------------------------------------------
(* What pack() makes of a significand with three rounding bits. *)

Increment(mode, sign, s) ==
  IF mode = RN THEN (s % 8) > 4 \/ ((s % 8) = 4 /\ (s \div 8) % 2 = 1)
               ELSE (s % 8) # 0 /\ Away(mode, sign)

\* The pattern for s / 8 units of the exponent e, rounded.
Encoding(mode, sign, s, e) ==
  e * HIDDEN + (IF Increment(mode, sign, s) THEN (s \div 8) + 1 ELSE (s \div 8))

Encoded(mode, sign, s, e, tiny) ==
  LET c == Encoding(mode, sign, s, e)
  IN IF c >= INF THEN Overflow(mode, sign)
     ELSE Result(sign + c,
                 IF (s % 8) = 0 THEN {} ELSE {IXC} \cup (IF tiny THEN {UFC} ELSE {}))

LEMMA Eighths ==
  ASSUME NEW s \in Nat
  PROVE  /\ (s \div 8) \in Nat /\ (s % 8) \in 0..7 /\ s = 8 * (s \div 8) + (s % 8)
OBVIOUS

\* s and e are what pack() goes on with: units at or above the least exponent.
Scaled(exponent, significand, s, e) ==
  /\ s = IF exponent < EMin THEN ShiftJam(significand, EMin - exponent) ELSE significand
  /\ e = IF exponent < EMin THEN 0 ELSE exponent - EMin

\* A significand in its place: below the next power, and normal if it can be.
Placed(s, e) == s < 16 * HIDDEN /\ (e = 0 \/ s >= 8 * HIDDEN)

LEMMA PlainCode ==
  ASSUME NEW h \in Nat \ {0}, NEW b \in Nat \ {0}, NEW e \in Nat, NEW r \in Nat,
         r < 2 * h, e = 0 \/ r >= h
  PROVE  /\ (e + (1 - b) > b) <=> (e * h + r >= (2 * b + 1) * h)
         /\ (IF r >= h THEN (e + 1) * h ELSE 0) + (r % h) = e * h + r
<1>1. PICK u \in Nat, w \in Nat : u = e * h /\ w = (2 * b) * h
  OBVIOUS
<1>2. (2 * b + 1) * h = w + h /\ (e + 1) * h = u + h
  BY <1>1
<1>3. (e + (1 - b) > b) <=> (e >= 2 * b)
  OBVIOUS
<1>4. (e >= 2 * b) <=> (u + r >= w + h)
  <2>1. CASE e >= 2 * b
    <3>1. r >= h
      BY <2>1
    <3>2. u >= w
      BY <1>1, <2>1
    <3> QED
      BY <2>1, <3>1, <3>2
  <2>2. CASE e < 2 * b
    <3>1. e + 1 <= 2 * b
      BY <2>2
    <3>2. (e + 1) * h <= (2 * b) * h
      BY <3>1
    <3>3. u + h <= w
      BY <1>1, <1>2, <3>2
    <3> QED
      BY <2>2, <3>3
  <2> QED
    BY <2>1, <2>2
<1>5. CASE r >= h
  <2>1. PICK f \in Nat : f + h = r /\ f < h
    <3>1. r - h \in Nat /\ (r - h) + h = r /\ r - h < h
      BY <1>5
    <3> QED
      BY <3>1
  <2>2. r = h * 1 + f
    BY <2>1
  <2>3. (r % h) = f
    BY <2>1, <2>2, DividesOnce
  <2> QED
    BY <1>1, <1>2, <1>3, <1>4, <1>5, <2>1, <2>3
<1>6. CASE r < h
  <2>1. e = 0 /\ r = h * 0 + r
    BY <1>6
  <2>2. (r % h) = r
    BY <1>6, <2>1, DividesOnce
  <2>3. u = 0
    BY <1>1, <2>1
  <2> QED
    BY <1>1, <1>2, <1>3, <1>4, <1>6, <2>2, <2>3
<1> QED
  BY <1>5, <1>6

LEMMA CarryCode ==
  ASSUME NEW h \in Nat \ {0}, NEW b \in Nat \ {0}, NEW e \in Nat, NEW r, r = 2 * h
  PROVE  /\ ((e + (1 - b)) + 1 > b) <=> (e * h + r >= (2 * b + 1) * h)
         /\ (IF h >= h THEN (e + 2) * h ELSE 0) + (h % h) = e * h + r
         /\ (r \div 2) = h
<1>1. PICK u \in Nat, w \in Nat : u = e * h /\ w = (2 * b) * h
  OBVIOUS
<1>2. (2 * b + 1) * h = w + h /\ (e + 1) * h = u + h /\ (e + 2) * h = u + 2 * h
  BY <1>1
<1>3. ((e + (1 - b)) + 1 > b) <=> (e + 1 >= 2 * b)
  OBVIOUS
<1>4. (e + 1 >= 2 * b) <=> (u + r >= w + h)
  <2>1. CASE e + 1 >= 2 * b
    <3>1. (e + 1) * h >= (2 * b) * h
      BY <2>1
    <3>2. u + h >= w
      BY <1>1, <1>2, <3>1
    <3> QED
      BY <2>1, <3>2
  <2>2. CASE e + 1 < 2 * b
    <3>1. e + 2 <= 2 * b
      BY <2>2
    <3>2. (e + 2) * h <= (2 * b) * h
      BY <3>1
    <3>3. u + 2 * h <= w
      BY <1>1, <1>2, <3>2
    <3> QED
      BY <2>2, <3>3
  <2> QED
    BY <2>1, <2>2
<1>5. (h % h) = 0
  <2>1. h = h * 1 + 0 /\ 0 \in Nat /\ 0 < h /\ 1 \in Nat
    OBVIOUS
  <2> QED
    BY <2>1, DividesOnce
<1>6. (r \div 2) = h
  OBVIOUS
<1> QED
  BY <1>1, <1>2, <1>3, <1>4, <1>5, <1>6

LEMMA PackEncodes ==
  ASSUME NEW mode, NEW sign \in Int, NEW exponent \in Int, NEW significand \in Nat,
         NEW s \in Nat, NEW e \in Nat, Scaled(exponent, significand, s, e), Placed(s, e)
  PROVE  Pack(mode, sign, exponent, significand)
           = Encoded(mode, sign, s, e, exponent < EMin)
<1>1. PICK h \in Nat \ {0}, b \in Nat \ {0}, m \in Int, inf \in Nat :
        /\ h = HIDDEN /\ b = Bias /\ m = EMin /\ m = 1 - b /\ EMax = b /\ inf = INF
  BY Format
<1>2. inf = (2 * b + 1) * h
  BY <1>1, Format
<1>3. PICK whole \in Nat, tail \in 0..7 :
        whole = (s \div 8) /\ tail = (s % 8) /\ s = 8 * whole + tail
  BY Eighths
<1>4. whole < 2 * h /\ (e = 0 \/ whole >= h)
  BY <1>1, <1>3 DEF Placed
<1>5. PICK inc \in BOOLEAN : inc = Increment(mode, sign, s)
  BY DEF Increment, Away
<1>6. PICK r \in Nat : r = (IF inc THEN whole + 1 ELSE whole)
  OBVIOUS
<1>7. r <= 2 * h /\ (e = 0 \/ r >= h)
  BY <1>4, <1>6
<1>8. PICK y \in Int : y = (IF exponent < EMin THEN EMin ELSE exponent) /\ y = e + (1 - b)
  BY <1>1 DEF Scaled
<1>9. Encoding(mode, sign, s, e) = e * h + r
  BY <1>1, <1>3, <1>5, <1>6 DEF Encoding
<1>10. PICK k \in Nat : k = e * h + r
  OBVIOUS
<1>11. PICK flags : flags = IF tail = 0 THEN {} ELSE {IXC} \cup (IF exponent < EMin THEN {UFC} ELSE {})
  OBVIOUS
<1> DEFINE packed(q, j) == IF j > b THEN Overflow(mode, sign)
                           ELSE Result(sign + (IF q >= h THEN (j + b) * h ELSE 0) + (q % h), flags)
<1>12. Pack(mode, sign, exponent, significand)
        = packed(IF r >= 2 * h THEN r \div 2 ELSE r, IF r >= 2 * h THEN y + 1 ELSE y)
  BY <1>1, <1>3, <1>5, <1>6, <1>8, <1>11 DEF Pack, RoundPack, Increment, Scaled
<1>13. Encoded(mode, sign, s, e, exponent < EMin)
         = IF k >= inf THEN Overflow(mode, sign) ELSE Result(sign + k, flags)
  BY <1>1, <1>3, <1>9, <1>10, <1>11 DEF Encoded
<1>14. CASE r < 2 * h
  <2>1. packed(r, y) = packed(IF r >= 2 * h THEN r \div 2 ELSE r, IF r >= 2 * h THEN y + 1 ELSE y)
    BY <1>14
  <2>2. y > b <=> k >= inf
    BY <1>2, <1>7, <1>8, <1>10, <1>14, PlainCode
  <2>3. y + b = e + 1
    BY <1>8
  <2>4. (IF r >= h THEN (e + 1) * h ELSE 0) + (r % h) = k
    BY <1>7, <1>10, <1>14, PlainCode
  <2>5. PICK u \in Int, v \in Int : u = (IF r >= h THEN (e + 1) * h ELSE 0) /\ v = (r % h)
    OBVIOUS
  <2>6. sign + u + v = sign + k
    BY <2>4, <2>5
  <2>7. sign + (IF r >= h THEN (y + b) * h ELSE 0) + (r % h) = sign + k
    BY <2>3, <2>5, <2>6
  <2> QED
    BY <1>12, <1>13, <2>1, <2>2, <2>7
<1>15. CASE r = 2 * h
  <2>1. (r \div 2) = h
    BY <1>15, CarryCode
  <2>2. packed(h, y + 1) = packed(IF r >= 2 * h THEN r \div 2 ELSE r, IF r >= 2 * h THEN y + 1 ELSE y)
    BY <1>15, <2>1
  <2>3. y + 1 > b <=> k >= inf
    BY <1>2, <1>8, <1>10, <1>15, CarryCode
  <2>4. (y + 1) + b = e + 2
    BY <1>8
  <2>5. (IF h >= h THEN (e + 2) * h ELSE 0) + (h % h) = k
    BY <1>10, <1>15, CarryCode
  <2>6. PICK u \in Int, v \in Int : u = (IF h >= h THEN (e + 2) * h ELSE 0) /\ v = (h % h)
    OBVIOUS
  <2>7. sign + u + v = sign + k
    BY <2>5, <2>6
  <2>8. sign + (IF h >= h THEN ((y + 1) + b) * h ELSE 0) + (h % h) = sign + k
    BY <2>4, <2>6, <2>7
  <2> QED
    BY <1>12, <1>13, <2>2, <2>3, <2>8
<1> QED
  BY <1>7, <1>14, <1>15

\* Where n / d lies between w and w + 1, as the three rounding bits say.
LEMMA TailTells ==
  ASSUME NEW s \in Nat, NEW n \in Nat, NEW d \in Nat \ {0}, Ranks(s, 8 * n, d, 4),
         NEW w \in Nat, NEW tail \in 0..7, s = 8 * w + tail
  PROVE  /\ w * d <= n /\ n < (w + 1) * d
         /\ tail = 0 <=> w * d = n
         /\ tail > 4 <=> 2 * n > (w + (w + 1)) * d
         /\ tail = 4 <=> 2 * n = (w + (w + 1)) * d
<1>1. PICK u \in Nat : u = w * d
  OBVIOUS
<1>2. /\ Like(s, 4 * (2 * w), 8 * n, (4 * (2 * w)) * d)
      /\ Like(s, 4 * (2 * w + 1), 8 * n, (4 * (2 * w + 1)) * d)
      /\ Like(s, 4 * (2 * w + 2), 8 * n, (4 * (2 * w + 2)) * d)
  <2>1. \A c \in Nat : Like(s, 4 * c, 8 * n, (4 * c) * d)
    BY DEF Ranks
  <2>2. 2 * w \in Nat /\ 2 * w + 1 \in Nat /\ 2 * w + 2 \in Nat
    OBVIOUS
  <2> QED
    BY <2>1, <2>2
<1>3. /\ (4 * (2 * w)) * d = 8 * u
      /\ (4 * (2 * w + 1)) * d = 8 * u + 4 * d
      /\ (4 * (2 * w + 2)) * d = 8 * u + 8 * d
      /\ (w + 1) * d = u + d /\ (w + (w + 1)) * d = 2 * u + d
  BY <1>1
<1>4. /\ (s < 8 * w <=> 8 * n < 8 * u) /\ (s = 8 * w <=> 8 * n = 8 * u)
      /\ (s < 8 * w + 4 <=> 8 * n < 8 * u + 4 * d) /\ (s = 8 * w + 4 <=> 8 * n = 8 * u + 4 * d)
      /\ (s < 8 * w + 8 <=> 8 * n < 8 * u + 8 * d)
  <2>1. 4 * (2 * w) = 8 * w /\ 4 * (2 * w + 1) = 8 * w + 4 /\ 4 * (2 * w + 2) = 8 * w + 8
    OBVIOUS
  <2> QED
    BY <1>2, <1>3, <2>1 DEF Like
<1>5. /\ u <= n /\ n < u + d /\ (tail = 0 <=> u = n)
      /\ (tail > 4 <=> 2 * n > 2 * u + d) /\ (tail = 4 <=> 2 * n = 2 * u + d)
  BY <1>4
<1> QED
  BY <1>1, <1>3, <1>5

\* n / d units are s / 8 units of the exponent e, as far as rounding can tell.
Fits(s, e, n, d) == Ranks(s, 8 * n, d * Pow2[e], 4)

\* n / d units are less than the least normal number.
Tiny(n, d) == n < HIDDEN * d

LEMMA EncodedRounds ==
  ASSUME NEW mode, NEW sign \in Int, NEW s \in Nat, NEW e \in Nat, Placed(s, e),
         NEW n \in Nat, NEW d \in Nat \ {0}, Fits(s, e, n, d)
  PROVE  Encoded(mode, sign, s, e, Tiny(n, d)) = Rounded(mode, sign, n, d)
<1>0. PICK tiny \in BOOLEAN : tiny = Tiny(n, d)
  <2>1. PICK k \in Nat : k = HIDDEN * d
    BY Format
  <2>2. (n < k) \in BOOLEAN
    OBVIOUS
  <2> QED
    BY <2>1, <2>2 DEF Tiny
<1>1. PICK h \in Nat \ {0}, inf \in Nat \ {0}, q \in Nat \ {0}, half \in Nat \ {0} :
        h = HIDDEN /\ inf = INF /\ q = Pow2[e] /\ half = QUIET /\ h = 2 * half
  BY Format, Pow2Typed
<1>2. PICK w \in Nat, tail \in 0..7 : w = (s \div 8) /\ tail = (s % 8) /\ s = 8 * w + tail
  BY Eighths
<1>3. w < 2 * h /\ (e = 0 \/ w >= h)
  BY <1>1, <1>2 DEF Placed
<1>4. PICK p \in Nat : p = e * h + w
  OBVIOUS
<1>5. Magnitude(p) = w * q
  BY <1>1, <1>3, <1>4, MagnitudeOf
<1>6. Magnitude(p + 1) = (w + 1) * q
  <2>1. w + 1 \in Nat /\ w + 1 <= 2 * h /\ (e = 0 \/ w + 1 >= h) /\ e * h + (w + 1) = p + 1
    BY <1>3, <1>4
  <2> QED
    BY <1>1, <2>1, MagnitudeOf
<1>7. PICK v \in Nat \ {0} : v = d * q
  OBVIOUS
<1>8. /\ w * v <= n /\ n < (w + 1) * v
      /\ tail = 0 <=> w * v = n
      /\ tail > 4 <=> 2 * n > (w + (w + 1)) * v
      /\ tail = 4 <=> 2 * n = (w + (w + 1)) * v
  BY <1>1, <1>2, <1>7, TailTells DEF Fits
<1>9. /\ Magnitude(p) * d = w * v /\ Magnitude(p + 1) * d = (w + 1) * v
      /\ (Magnitude(p) + Magnitude(p + 1)) * d = (w + (w + 1)) * v
  BY <1>5, <1>6, <1>7
<1>10. (p % 2) = (w % 2)
  <2>1. p = 2 * (e * half) + w /\ e * half \in Nat
    BY <1>1, <1>4
  <2> QED
    BY <2>1
<1>11. Increment(mode, sign, s) <=> tail # 0 /\ Up(mode, sign, n, d, p)
  <2>1. CASE mode = RN
    <3>1. Up(mode, sign, n, d, p) <=> tail > 4 \/ (tail = 4 /\ (w % 2) = 1)
      BY <1>8, <1>9, <1>10, <2>1 DEF Up
    <3> QED
      BY <1>2, <2>1, <3>1 DEF Increment
  <2>2. CASE mode # RN
    BY <1>2, <2>2 DEF Increment, Up
  <2> QED
    BY <2>1, <2>2
<1>12. PICK inc \in BOOLEAN : inc = Increment(mode, sign, s)
  BY DEF Increment, Away
<1>13. PICK c \in Nat : c = (IF inc THEN p + 1 ELSE p) /\ c = Encoding(mode, sign, s, e)
  <2>1. e * h + (w + 1) = p + 1
    BY <1>4
  <2> QED
    BY <1>1, <1>2, <1>4, <1>12, <2>1 DEF Encoding
<1>14. PICK flags : flags = IF tail = 0 THEN {} ELSE {IXC} \cup (IF tiny THEN {UFC} ELSE {})
  OBVIOUS
<1>15. Encoded(mode, sign, s, e, Tiny(n, d))
         = IF c >= inf THEN Overflow(mode, sign) ELSE Result(sign + c, flags)
  BY <1>0, <1>1, <1>2, <1>13, <1>14 DEF Encoded
<1>16. CASE p >= inf
  <2>1. Magnitude(inf) \in Nat /\ Magnitude(p) \in Nat /\ Magnitude(inf) <= Magnitude(p)
    BY <1>16, MagnitudeOrders
  <2>2. PICK a \in Nat, b \in Nat : a = Magnitude(inf) /\ b = Magnitude(p) /\ a <= b
    BY <2>1
  <2>3. a * d <= b * d /\ a * d \in Nat /\ b * d \in Nat
    BY <2>2
  <2>4. b * d <= n
    BY <1>8, <1>9, <2>2
  <2>5. Magnitude(INF) * d <= n
    BY <1>1, <2>2, <2>3, <2>4
  <2>6. Rounded(mode, sign, n, d) = Overflow(mode, sign)
    BY <2>5, RoundedBeyond
  <2> QED
    BY <1>13, <1>15, <1>16, <2>6
<1>17. CASE p < inf
  <2>1. p \in 0..(INF - 1)
    BY <1>1, <1>17
  <2>2. Rounded(mode, sign, n, d)
          = Chosen(sign, IF Magnitude(p) * d # n /\ Up(mode, sign, n, d, p) THEN p + 1 ELSE p,
                   Magnitude(p) * d = n, n < HIDDEN * d)
    BY <1>8, <1>9, <2>1, RoundedBelow
  <2>3. Rounded(mode, sign, n, d) = Chosen(sign, c, tail = 0, tiny)
    <3>1. (tail = 0) = (Magnitude(p) * d = n) /\ tiny = (n < HIDDEN * d)
      BY <1>0, <1>8, <1>9 DEF Tiny
    <3>2. c = IF Magnitude(p) * d # n /\ Up(mode, sign, n, d, p) THEN p + 1 ELSE p
      BY <1>11, <1>12, <1>13, <3>1
    <3> QED
      BY <2>2, <3>1, <3>2
  <2>4. CASE c < inf
    BY <1>1, <1>14, <1>15, <2>3, <2>4 DEF Chosen
  <2>5. CASE c >= inf
    <3>1. inc /\ c = inf
      BY <1>13, <1>17, <2>5
    <3>2. mode = RN \/ Away(mode, sign)
      BY <1>12, <3>1 DEF Increment
    <3>3. Overflow(mode, sign) = Result(sign + inf, {OFC, IXC})
      BY <1>1, <3>2 DEF Overflow
    <3> QED
      BY <1>1, <1>15, <2>3, <3>1, <3>3 DEF Chosen
  <2> QED
    BY <2>4, <2>5
<1> QED
  BY <1>16, <1>17

\* From exponent a to c by way of b.
Gap(a, b, c) ==
  /\ b - a \in Nat /\ c - b \in Nat /\ c - a \in Nat
  /\ Pow2[c - a] = Pow2[b - a] * Pow2[c - b]
  /\ Pow2[b - a] \in Nat \ {0} /\ Pow2[c - b] \in Nat \ {0} /\ Pow2[c - a] \in Nat \ {0}

LEMMA Pow2Gap ==
  ASSUME NEW a \in Int, NEW b \in Int, a <= b, NEW c \in Int, b <= c
  PROVE  Gap(a, b, c)
<1>1. PICK i \in Nat, j \in Nat : i = b - a /\ j = c - b /\ c - a = i + j
  <2>1. b - a \in Nat /\ c - b \in Nat /\ c - a = (b - a) + (c - b)
    OBVIOUS
  <2> QED
    BY <2>1
<1>2. Pow2[i + j] = Pow2[i] * Pow2[j]
  BY Pow2Sum
<1> QED
  BY <1>1, <1>2, Pow2Typed DEF Gap

\* The same for an exponent that may be below the least one of the format;
\* low is below all that occur.
Means(s, e, n, d, low) ==
  Ranks(s, (8 * n) * Pow2[EMin - low], d * Pow2[e - low], 4)

LEMMA PackRounds ==
  ASSUME NEW mode, NEW sign \in Int, NEW exponent \in Int, NEW significand \in Nat,
         8 * HIDDEN <= significand, significand < 16 * HIDDEN,
         NEW n \in Nat, NEW d \in Nat \ {0}, NEW low \in Int, low <= exponent, low <= EMin,
         Means(significand, exponent, n, d, low)
  PROVE  Pack(mode, sign, exponent, significand) = Rounded(mode, sign, n, d)
<1>1. PICK h \in Nat \ {0}, m \in Int : h = HIDDEN /\ m = EMin
  BY Format
<1>2. PICK v \in Nat : v = 8 * n
  OBVIOUS
<1>3. CASE exponent >= m
  <2>1. PICK e \in Nat, p \in Nat \ {0}, q \in Nat \ {0} :
          /\ e = exponent - m /\ p = Pow2[m - low] /\ q = Pow2[e]
          /\ Pow2[exponent - low] = p * q
    <3>1. Gap(low, m, exponent)
      BY <1>1, <1>3, Pow2Gap
    <3> QED
      BY <3>1 DEF Gap
  <2>2. d * (p * q) = (d * q) * p /\ d * q \in Nat
    OBVIOUS
  <2>3. Ranks(significand, v * p, (d * q) * p, 4)
    BY <1>1, <1>2, <2>1, <2>2 DEF Means
  <2>4. Ranks(significand, v, d * q, 4)
    <3>1. PICK k \in Nat : k = d * q
      BY <2>2
    <3>2. Ranks(significand, v * p, k * p, 4) <=> Ranks(significand, v, k, 4)
      BY RanksScaled
    <3> QED
      BY <2>3, <3>1, <3>2
  <2>5. Placed(significand, e)
    BY DEF Placed
  <2>6. Scaled(exponent, significand, significand, e)
    BY <1>1, <1>3, <2>1 DEF Scaled
  <2>7. Tiny(n, d) = FALSE
    <3>1. 2 * h \in Nat
      OBVIOUS
    <3>2. Like(significand, 4 * (2 * h), v, (4 * (2 * h)) * (d * q))
      BY <2>4, <3>1 DEF Ranks
    <3>3. PICK u \in Nat : u = h * d
      OBVIOUS
    <3>4. (4 * (2 * h)) * (d * q) = 8 * (u * q)
      BY <3>3
    <3>5. PICK y \in Nat : y = u * q /\ u <= y
      <4>1. u * 1 <= u * q /\ u * 1 = u /\ u * q \in Nat
        OBVIOUS
      <4> QED
        BY <4>1
    <3>6. ~(v < 8 * y)
      BY <1>1, <3>2, <3>4, <3>5 DEF Like
    <3> QED
      BY <1>1, <1>2, <3>3, <3>5, <3>6 DEF Tiny
  <2>8. Encoded(mode, sign, significand, e, Tiny(n, d)) = Rounded(mode, sign, n, d)
    <3>1. Fits(significand, e, n, d)
      BY <1>2, <2>1, <2>4 DEF Fits
    <3> QED
      BY <2>5, <3>1, EncodedRounds
  <2>9. Pack(mode, sign, exponent, significand)
          = Encoded(mode, sign, significand, e, exponent < EMin)
    BY <2>5, <2>6, PackEncodes
  <2>10. (exponent < EMin) = FALSE
    BY <1>1, <1>3
  <2> QED
    BY <2>7, <2>8, <2>9, <2>10
<1>4. CASE exponent < m
  <2>1. PICK g \in Nat, p \in Nat \ {0}, q \in Nat \ {0}, r \in Nat \ {0} :
          /\ g = m - exponent /\ p = Pow2[exponent - low] /\ q = Pow2[g]
          /\ r = Pow2[m - low] /\ r = p * q
    <3>1. Gap(low, exponent, m)
      BY <1>1, <1>4, Pow2Gap
    <3> QED
      BY <3>1 DEF Gap
  <2>2. PICK s \in Nat : /\ s = ShiftJam(significand, g)
                         /\ Ranks(s, v * r, (d * p) * q, 4)
    <3>1. d * p \in Nat /\ v * r \in Nat
      OBVIOUS
    <3>2. Ranks(significand, v * r, d * p, 4)
      BY <1>1, <1>2, <2>1 DEF Means
    <3> QED
      BY <2>1, <3>1, <3>2, RanksShifted
  <2>3. (d * p) * q = d * r
    BY <2>1
  <2>4. Ranks(s, v, d, 4)
    <3>1. Ranks(s, v * r, d * r, 4) <=> Ranks(s, v, d, 4)
      BY RanksScaled
    <3> QED
      BY <2>2, <2>3, <3>1
  <2>5. Tiny(n, d) = TRUE
    <3>1. 4 * h \in Nat
      OBVIOUS
    <3>2. Like(significand, 4 * (4 * h), v * r, (4 * (4 * h)) * (d * p))
      BY <1>1, <1>2, <2>1, <3>1 DEF Means, Ranks
    <3>3. v * r < (4 * (4 * h)) * (d * p)
      BY <1>1, <3>2 DEF Like
    <3>4. PICK y \in Nat : y = (h * d) * p
      OBVIOUS
    <3>5. q >= 2
      <4>1. PICK f \in Nat : f + 1 = g
        <5>1. g - 1 \in Nat /\ (g - 1) + 1 = g
          BY <2>1, <1>4
        <5> QED
          BY <5>1
      <4>2. Pow2[g] = 2 * Pow2[f] /\ Pow2[f] \in Nat \ {0}
        BY <4>1, Pow2Unfolds, Pow2Typed
      <4> QED
        BY <2>1, <4>2
    <3>6. y * 2 <= y * q
      BY <3>5
    <3>7. (4 * (4 * h)) * (d * p) = 16 * y
      BY <3>4
    <3>8. y * q = (h * d) * r
      BY <2>1, <3>4
    <3>9. PICK u \in Nat : u = h * d
      OBVIOUS
    <3>10. v * r < (8 * u) * r
      <4>1. (8 * u) * r = 8 * (y * q)
        BY <3>8, <3>9
      <4>2. PICK i \in Nat, j \in Nat : i = v * r /\ j = y * q
        OBVIOUS
      <4>3. i < 16 * y /\ y * 2 <= j
        BY <3>3, <3>6, <3>7, <4>2
      <4>4. i < 8 * j
        BY <4>3
      <4> QED
        BY <4>1, <4>2, <4>4
    <3>11. v < 8 * u
      <4>1. PICK k \in Nat : k = 8 * u
        OBVIOUS
      <4>2. Like(v, k, v * r, k * r)
        BY LikeScaled
      <4> QED
        BY <3>10, <4>1, <4>2 DEF Like
    <3> QED
      BY <1>1, <1>2, <3>9, <3>11 DEF Tiny
  <2>6. s < 16 * h
    <3>1. Ranks(ShiftJam(significand, g), significand, q, 2)
      BY <2>1, JamRanks DEF ShiftJam, Jam
    <3>2. Like(s, 2 * (8 * h), significand, (2 * (8 * h)) * q)
      <4>1. 8 * h \in Nat
        OBVIOUS
      <4> QED
        BY <2>2, <3>1, <4>1 DEF Ranks
    <3>3. PICK y \in Nat : y = (2 * (8 * h)) * q /\ 16 * h <= y
      <4>1. (2 * (8 * h)) * 1 <= (2 * (8 * h)) * q
        OBVIOUS
      <4> QED
        BY <4>1
    <3> QED
      BY <1>1, <3>2, <3>3 DEF Like
  <2>7. Placed(s, 0)
    BY <1>1, <2>6 DEF Placed
  <2>8. Scaled(exponent, significand, s, 0)
    BY <1>1, <1>4, <2>1, <2>2 DEF Scaled
  <2>9. Fits(s, 0, n, d)
    <3>1. d * Pow2[0] = d
      BY Pow2Unfolds
    <3> QED
      BY <1>2, <2>4, <3>1 DEF Fits
  <2>10. Encoded(mode, sign, s, 0, Tiny(n, d)) = Rounded(mode, sign, n, d)
    BY <2>7, <2>9, EncodedRounds
  <2>11. Pack(mode, sign, exponent, significand) = Encoded(mode, sign, s, 0, exponent < EMin)
    BY <2>7, <2>8, PackEncodes
  <2>12. (exponent < EMin) = TRUE
    BY <1>1, <1>4
  <2> QED
    BY <2>5, <2>10, <2>11, <2>12
<1> QED
  BY <1>3, <1>4

-----------------------------------------------------------------------------
(* Unpacked numbers. *)

\* Shifted left by k, v has its leading bit at t.
Leads(v, t, k) == Pow2[t] <= v * Pow2[k] /\ v * Pow2[k] <= Pow2[t + 1] - 1

LEMMA ShiftExists ==
  \A t \in Nat : \A v \in Nat \ {0} : v < Pow2[t + 1] => \E k \in 0..t : Leads(v, t, k)
<1> DEFINE S == {t \in Nat : \A v \in Nat \ {0} : v < Pow2[t + 1] => \E k \in 0..t : Leads(v, t, k)}
<1>1. 0 \in S
  <2>1. Pow2[0] = 1 /\ Pow2[0 + 1] = 2
    BY Pow2Unfolds
  <2>2. ASSUME NEW v \in Nat \ {0}, v < Pow2[0 + 1] PROVE Leads(v, 0, 0)
    BY <2>1, <2>2 DEF Leads
  <2> QED
    BY <2>2
<1>2. ASSUME NEW t \in Nat, t \in S PROVE t + 1 \in S
  <2>1. PICK p \in Nat \ {0} : p = Pow2[t]
    BY Pow2Typed
  <2>2. Pow2[t + 1] = 2 * p /\ Pow2[(t + 1) + 1] = 4 * p
    <3>1. t + 1 \in Nat
      OBVIOUS
    <3>2. Pow2[(t + 1) + 1] = 2 * Pow2[t + 1] /\ Pow2[t + 1] = 2 * Pow2[t]
      BY <3>1, Pow2Unfolds
    <3> QED
      BY <2>1, <3>2
  <2>3. ASSUME NEW v \in Nat \ {0}, v < Pow2[(t + 1) + 1]
        PROVE  \E k \in 0..(t + 1) : Leads(v, t + 1, k)
    <3>1. CASE v >= 2 * p
      <4>1. v * Pow2[0] = v
        BY Pow2Unfolds
      <4>2. Leads(v, t + 1, 0)
        BY <2>2, <2>3, <3>1, <4>1 DEF Leads
      <4> QED
        BY <4>2
    <3>2. CASE v < 2 * p
      <4>1. PICK k \in 0..t : Leads(v, t, k)
        BY <1>2, <2>2, <3>2
      <4>2. PICK q \in Nat : q = Pow2[k] /\ Pow2[k + 1] = 2 * q
        BY Pow2Typed, Pow2Unfolds
      <4>3. PICK y \in Nat : y = v * q
        OBVIOUS
      <4>4. v * (2 * q) = 2 * y
        BY <4>3
      <4>5. p <= y /\ y <= 2 * p - 1
        BY <2>1, <2>2, <4>1, <4>2, <4>3 DEF Leads
      <4>6. Leads(v, t + 1, k + 1)
        BY <2>2, <4>2, <4>4, <4>5 DEF Leads
      <4>7. k + 1 \in 0..(t + 1)
        OBVIOUS
      <4> QED
        BY <4>6, <4>7
    <3> QED
      BY <3>1, <3>2
  <2> QED
    BY <2>3
<1> HIDE DEF S
<1>3. \A t \in Nat : t \in S
  BY <1>1, <1>2, Induction
<1> QED
  BY <1>3 DEF S

LEMMA LeftShiftLeads ==
  ASSUME NEW t \in Nat, NEW v \in Nat \ {0}, v < Pow2[t + 1]
  PROVE  LeftShift(v, t) \in 0..t /\ Leads(v, t, LeftShift(v, t))
<1>1. PICK k \in 0..t : Leads(v, t, k)
  BY ShiftExists
<1>2. \A j \in 0..t : Leads(v, t, j) <=> v * Pow2[j] \in Pow2[t]..(Pow2[t + 1] - 1)
  <2>1. PICK p \in Nat, q \in Nat : p = Pow2[t] /\ q = Pow2[t + 1]
    BY Pow2Typed
  <2>2. ASSUME NEW j \in 0..t PROVE Leads(v, t, j) <=> v * Pow2[j] \in Pow2[t]..(Pow2[t + 1] - 1)
    <3>1. PICK y \in Nat : y = Pow2[j]
      BY Pow2Typed
    <3>2. PICK z \in Nat : z = v * y
      OBVIOUS
    <3> QED
      BY <2>1, <3>1, <3>2 DEF Leads
  <2> QED
    BY <2>2
<1>3. \E j \in 0..t : v * Pow2[j] \in Pow2[t]..(Pow2[t + 1] - 1)
  BY <1>1, <1>2
<1>4. PICK j : j = LeftShift(v, t)
  OBVIOUS
<1>5. j \in 0..t /\ v * Pow2[j] \in Pow2[t]..(Pow2[t + 1] - 1)
  BY <1>3, <1>4 DEF LeftShift
<1> QED
  BY <1>2, <1>4, <1>5

\* u stands for n units: normalized, and not far below the least exponent.
Stands(u, n, low) ==
  /\ u.sig \in Nat /\ HIDDEN <= u.sig /\ u.sig < 2 * HIDDEN
  /\ u.exp \in Int /\ EMin - FBits <= u.exp
  /\ n * Pow2[EMin - low] = u.sig * Pow2[u.exp - low]

LEMMA UnpackStands ==
  ASSUME NEW p, NEW a \in Nat, a = Abs(p), a # 0, NEW low \in Int, low <= EMin - FBits
  PROVE  Stands(Unpack(p), Magnitude(a), low)
<1>1. PICK h \in Nat \ {0}, b \in Nat \ {0}, m \in Int, f \in Nat :
        h = HIDDEN /\ b = Bias /\ m = EMin /\ m = 1 - b /\ f = FBits
  BY Format
<1>2. h = Pow2[f] /\ 2 * h = Pow2[f + 1]
  BY <1>1, Pow2Unfolds DEF HIDDEN
<1>3. PICK q \in Nat, r \in Nat : q = (a \div h) /\ r = (a % h) /\ r < h /\ a = h * q + r
  BY Divided
<1>4. Magnitude(a) = IF q = 0 THEN r ELSE (h + r) * Pow2[q - 1]
  BY <1>1, <1>3 DEF Magnitude
<1>5. Unpack(p) = IF q # 0 THEN [sig |-> r + h, exp |-> q - b]
                  ELSE [sig |-> r * Pow2[LeftShift(r, f)], exp |-> m - LeftShift(r, f)]
  BY <1>1, <1>3 DEF Unpack
<1>6. CASE q # 0
  <2>1. PICK e \in Int : e = q - b /\ e >= m /\ e - m = q - 1
    BY <1>1, <1>6
  <2>2. low <= m /\ low <= e
    BY <1>1, <2>1
  <2>3. Gap(low, m, e)
    BY <2>1, <2>2, Pow2Gap
  <2>4. PICK k \in Nat, i \in Nat, j \in Nat :
          k = Pow2[e - low] /\ i = Pow2[m - low] /\ j = Pow2[e - m] /\ k = i * j
    BY <2>3 DEF Gap
  <2>5. Magnitude(a) = (h + r) * j
    BY <1>4, <1>6, <2>1, <2>4
  <2>6. ((h + r) * j) * i = (r + h) * k
    BY <2>4
  <2>7. Unpack(p).sig = r + h /\ Unpack(p).exp = e
    BY <1>5, <1>6, <2>1
  <2>8. Magnitude(a) * Pow2[EMin - low] = Unpack(p).sig * Pow2[Unpack(p).exp - low]
    BY <1>1, <2>4, <2>5, <2>6, <2>7
  <2>9. /\ Unpack(p).sig \in Nat /\ HIDDEN <= Unpack(p).sig /\ Unpack(p).sig < 2 * HIDDEN
        /\ Unpack(p).exp \in Int /\ EMin - FBits <= Unpack(p).exp
    <3>0. r < h
      BY <1>3
    <3>1. h <= r + h /\ r + h < 2 * h
      BY <3>0
    <3>2. m - f <= e
      BY <2>1
    <3> QED
      BY <1>1, <2>7, <3>1, <3>2
  <2> QED
    BY <2>8, <2>9 DEF Stands
<1>7. CASE q = 0
  <2>1. r # 0 /\ r \in Nat \ {0}
    BY <1>3, <1>7
  <2>2. r < Pow2[f + 1]
    BY <1>2, <1>3
  <2>3. PICK k \in 0..f : k = LeftShift(r, f) /\ Leads(r, f, k)
    BY <2>1, <2>2, LeftShiftLeads
  <2>4. PICK e \in Int : e = m - k /\ e <= m /\ m - e = k /\ low <= e /\ m - f <= e
    BY <1>1
  <2>5. Gap(low, e, m)
    BY <2>4, Pow2Gap
  <2>6. PICK c \in Nat, i \in Nat, j \in Nat :
          c = Pow2[m - low] /\ i = Pow2[e - low] /\ j = Pow2[k] /\ c = i * j
    BY <2>4, <2>5 DEF Gap
  <2>7. PICK y \in Nat : y = r * j
    OBVIOUS
  <2>8. h <= y /\ y < 2 * h
    BY <1>2, <2>3, <2>6, <2>7 DEF Leads
  <2>9. r * c = y * i
    BY <2>6, <2>7
  <2>10. Unpack(p).sig = y /\ Unpack(p).exp = e /\ Magnitude(a) = r
    BY <1>4, <1>5, <1>7, <2>3, <2>4, <2>6, <2>7
  <2> QED
    BY <1>1, <2>4, <2>6, <2>8, <2>9, <2>10 DEF Stands
<1> QED
  BY <1>6, <1>7

-----------------------------------------------------------------------------
(* Sums. *)

\* The aligned sum or difference of 8 * B and 8 * S / P.
Aligned(same, B, j) == IF same THEN 8 * B + j ELSE 8 * B - j
Exactly(same, n, k) == IF same THEN n + k ELSE n - k

\* The greater of the two is not the one that is shifted.
Greater(B, S, P) == S <= B * P

LEMMA AlignedRanks ==
  ASSUME NEW B \in Nat, NEW S \in Nat, NEW P \in Nat \ {0}, Greater(B, S, P),
         NEW j \in Nat, Ranks(j, 8 * S, P, 2), NEW same \in BOOLEAN
  PROVE  /\ Aligned(same, B, j) \in Nat /\ Exactly(same, B * P, S) \in Nat
         /\ Ranks(Aligned(same, B, j), 8 * Exactly(same, B * P, S), P, 2)
<1>1. PICK y \in Nat : y = B * P /\ S <= y
  BY DEF Greater
<1>2. ASSUME NEW c \in Nat PROVE Like(j, 2 * c, 8 * S, (2 * c) * P)
  BY <1>2 DEF Ranks
<1>3. j <= 8 * B
  <2>1. 4 * B \in Nat
    OBVIOUS
  <2>2. Like(j, 2 * (4 * B), 8 * S, (2 * (4 * B)) * P)
    BY <1>2, <2>1
  <2>3. (2 * (4 * B)) * P = 8 * y
    BY <1>1
  <2> QED
    BY <1>1, <2>2, <2>3 DEF Like
<1>4. ASSUME NEW c \in Nat, same PROVE Like(8 * B + j, 2 * c, 8 * (y + S), (2 * c) * P)
  <2>1. PICK z \in Nat : z = c * P /\ (2 * c) * P = 2 * z
    OBVIOUS
  <2>2. CASE c >= 4 * B
    <3>1. PICK k \in Nat : c = k + 4 * B
      <4>1. c - 4 * B \in Nat /\ c = (c - 4 * B) + 4 * B
        BY <2>2
      <4> QED
        BY <4>1
    <3>2. Like(j, 2 * k, 8 * S, (2 * k) * P)
      BY <1>2
    <3>3. (2 * k) * P = 2 * z - 8 * y
      <4>1. c * P = k * P + 4 * (B * P)
        BY <3>1
      <4>2. PICK i \in Nat : i = k * P
        OBVIOUS
      <4>3. (2 * k) * P = 2 * i
        BY <4>2
      <4> QED
        BY <1>1, <2>1, <4>1, <4>2, <4>3
    <3> QED
      BY <2>1, <3>1, <3>2, <3>3 DEF Like
  <2>3. CASE c < 4 * B
    <3>0. PICK q \in Nat : q = 4 * B
      OBVIOUS
    <3>1. Like(c, q, c * P, q * P)
      BY LikeScaled
    <3>2. q * P = 4 * y
      BY <1>1, <3>0
    <3>3. z < 4 * y
      BY <2>1, <2>3, <3>0, <3>1, <3>2 DEF Like
    <3> QED
      BY <2>1, <2>3, <3>3 DEF Like
  <2> QED
    BY <2>2, <2>3
<1>5. ASSUME NEW c \in Nat, ~same PROVE Like(8 * B - j, 2 * c, 8 * (y - S), (2 * c) * P)
  <2>1. PICK z \in Nat : z = c * P /\ (2 * c) * P = 2 * z
    OBVIOUS
  <2>2. CASE c <= 4 * B
    <3>1. PICK k \in Nat : 4 * B = k + c
      <4>1. 4 * B - c \in Nat /\ 4 * B = (4 * B - c) + c
        BY <2>2
      <4> QED
        BY <4>1
    <3>2. Like(j, 2 * k, 8 * S, (2 * k) * P)
      BY <1>2
    <3>3. (2 * k) * P = 8 * y - 2 * z
      <4>1. (4 * B) * P = k * P + c * P
        BY <3>1
      <4>2. PICK i \in Nat : i = k * P
        OBVIOUS
      <4>3. (2 * k) * P = 2 * i /\ (4 * B) * P = 4 * y
        BY <1>1, <4>2
      <4> QED
        BY <1>1, <2>1, <4>1, <4>2, <4>3
    <3> QED
      BY <1>1, <1>3, <2>1, <3>1, <3>2, <3>3 DEF Like
  <2>3. CASE c > 4 * B
    <3>0. PICK q \in Nat : q = 4 * B
      OBVIOUS
    <3>1. Like(q, c, q * P, c * P)
      BY LikeScaled
    <3>2. q * P = 4 * y
      BY <1>1, <3>0
    <3>3. z > 4 * y
      BY <2>1, <2>3, <3>0, <3>1, <3>2 DEF Like
    <3> QED
      BY <1>1, <1>3, <2>1, <2>3, <3>3 DEF Like
  <2> QED
    BY <2>2, <2>3
<1>6. Aligned(same, B, j) \in Nat /\ Exactly(same, B * P, S) \in Nat
  BY <1>1, <1>3 DEF Aligned, Exactly
<1>8. CASE same
  BY <1>1, <1>4, <1>6, <1>8 DEF Ranks, Aligned, Exactly
<1>9. CASE ~same
  BY <1>1, <1>5, <1>6, <1>9 DEF Ranks, Aligned, Exactly
<1> QED
  BY <1>8, <1>9

\* n at the scale R is y at the scale Q.
Matches(n, R, y, Q) == n * R = y * Q

LEMMA ExactlyScales ==
  ASSUME NEW y \in Nat, NEW S \in Nat, S <= y, NEW same \in BOOLEAN,
         NEW Q \in Nat, NEW R \in Nat \ {0}, NEW nb \in Nat, NEW ns \in Nat,
         Matches(nb, R, y, Q), Matches(ns, R, S, Q)
  PROVE  /\ Exactly(same, nb, ns) \in Nat
         /\ Matches(Exactly(same, nb, ns), R, Exactly(same, y, S), Q)
<1>1. nb * R = y * Q /\ ns * R = S * Q
  BY DEF Matches
<1>2. ns <= nb
  <2>1. SUFFICES ASSUME nb < ns PROVE FALSE
    OBVIOUS
  <2>2. nb * R < ns * R
    BY <2>1, LikeScaled DEF Like
  <2>3. S * Q <= y * Q
    OBVIOUS
  <2>4. PICK u \in Nat, v \in Nat : u = S * Q /\ v = y * Q
    OBVIOUS
  <2> QED
    BY <1>1, <2>2, <2>3, <2>4
<1>3. (nb + ns) * R = (y + S) * Q /\ (nb - ns) * R = (y - S) * Q
  BY <1>1
<1> QED
  BY <1>2, <1>3 DEF Exactly, Matches

LEMMA RanksZero ==
  ASSUME NEW s, NEW n, NEW d \in Nat, Ranks(s, n, d, 2)
  PROVE  s = 0 <=> n = 0
<1>1. 2 * 0 = 0 /\ (2 * 0) * d = 0
  OBVIOUS
<1> QED
  BY <1>1 DEF Ranks, Like

\* A carry is shifted back into the significand.
LEMMA CarryRanks ==
  ASSUME NEW s \in Nat, NEW h \in Nat, 16 * h <= s, s < 32 * h,
         NEW n \in Nat, NEW d \in Nat, Ranks(s, n, d, 2)
  PROVE  /\ ShiftJam(s, 1) \in Nat /\ 8 * h <= ShiftJam(s, 1) /\ ShiftJam(s, 1) < 16 * h
         /\ Ranks(ShiftJam(s, 1), n, d * 2, 4)
<1>1. Pow2[1] = 2
  <2>1. Pow2[0 + 1] = 2 * Pow2[0] /\ Pow2[0] = 1
    BY Pow2Unfolds
  <2> QED
    BY <2>1
<1>2. PICK q \in Nat, r \in Nat : q = (s \div 2) /\ r = (s % 2) /\ r < 2 /\ s = 2 * q + r
  BY Divided
<1>3. PICK j \in Nat : j = ShiftJam(s, 1) /\ j = IF r # 0 /\ q % 2 = 0 THEN q + 1 ELSE q
  BY <1>1, <1>2 DEF ShiftJam
<1>4. 8 * h <= j /\ j < 16 * h
  <2>1. 8 * h <= q /\ q < 16 * h
    BY <1>2
  <2>2. CASE q % 2 = 0
    BY <1>3, <2>1, <2>2
  <2>3. CASE q % 2 # 0
    BY <1>3, <2>1, <2>3
  <2> QED
    BY <2>2, <2>3
<1>5. Ranks(ShiftJam(s, 1), n, d * Pow2[1], 4)
  BY RanksCoarser, RanksShifted
<1> QED
  BY <1>1, <1>3, <1>4, <1>5

\* One place to the left.
LEMMA LeftRanks ==
  ASSUME NEW s \in Nat, NEW n \in Nat, NEW d \in Nat, Ranks(s, n, 2 * d, 2)
  PROVE  Ranks(s * 2, n, d, 4)
<1> SUFFICES ASSUME NEW c \in Nat PROVE Like(s * 2, 4 * c, n, (4 * c) * d)
  BY DEF Ranks
<1>1. Like(s, 2 * c, n, (2 * c) * (2 * d))
  BY DEF Ranks
<1>2. (2 * c) * (2 * d) = (4 * c) * d
  OBVIOUS
<1>3. (s * 2 < 4 * c <=> s < 2 * c) /\ (s * 2 = 4 * c <=> s = 2 * c)
  OBVIOUS
<1> QED
  BY <1>1, <1>2, <1>3 DEF Like

\* A value that is exact ranks as itself.
LEMMA ExactRanks ==
  ASSUME NEW s \in Nat, NEW n \in Nat, NEW d \in Nat \ {0}, s * d = n
  PROVE  Ranks(s, n, d, 4)
<1> SUFFICES ASSUME NEW c \in Nat PROVE Like(s, 4 * c, n, (4 * c) * d)
  BY DEF Ranks
<1>1. PICK k \in Nat : k = 4 * c
  OBVIOUS
<1>2. Like(s, k, s * d, k * d)
  BY LikeScaled
<1> QED
  BY <1>1, <1>2

\* The bounds on the operand that was shifted.
LEMMA JamBelow ==
  ASSUME NEW j \in Nat, NEW S \in Nat, NEW h \in Nat \ {0}, S < 2 * h, NEW P \in Nat \ {0},
         Ranks(j, 8 * S, P, 2)
  PROVE  j < 16 * h /\ (P >= 4 => j < 4 * h)
<1>1. 8 * h \in Nat /\ 2 * h \in Nat
  OBVIOUS
<1>2. Like(j, 2 * (8 * h), 8 * S, (2 * (8 * h)) * P) /\ Like(j, 2 * (2 * h), 8 * S, (2 * (2 * h)) * P)
  BY <1>1 DEF Ranks
<1>3. PICK y \in Nat : y = h * P /\ (2 * (8 * h)) * P = 16 * y /\ (2 * (2 * h)) * P = 4 * y
  OBVIOUS
<1>4. y >= h
  BY <1>3
<1>5. P >= 4 => y >= 4 * h
  BY <1>3
<1> QED
  BY <1>2, <1>3, <1>4, <1>5 DEF Like

\* Shifted by one place at most, nothing is lost.
LEMMA AlignedExactly ==
  ASSUME NEW B \in Nat, NEW S \in Nat, NEW P \in {1, 2}, NEW same \in BOOLEAN,
         NEW j, j = Jam(8 * S, P), NEW y, y = B * P
  PROVE  Matches(Aligned(same, B, j), P, Exactly(same, y, S), 8)
<1>1. PICK k \in Nat : k = 4 * S /\ 8 * S = 2 * k
  OBVIOUS
<1>2. CASE P = 1
  <2>1. (2 * k) \div 1 = 2 * k /\ (2 * k) % 1 = 0
    OBVIOUS
  <2>2. Jam(8 * S, P) = 8 * S
    BY <1>1, <1>2, <2>1 DEF Jam
  <2> QED
    BY <1>2, <2>2 DEF Aligned, Exactly, Matches
<1>3. CASE P = 2
  <2>1. (2 * k) \div 2 = k /\ (2 * k) % 2 = 0
    OBVIOUS
  <2>2. Jam(8 * S, P) = 4 * S
    BY <1>1, <1>3, <2>1 DEF Jam
  <2> QED
    BY <1>3, <2>2 DEF Aligned, Exactly, Matches
<1> QED
  BY <1>2, <1>3

\* The order in which nc_fp32_add() takes its operands.
Precedes(big, small) == big.exp > small.exp \/ (big.exp = small.exp /\ big.sig >= small.sig)

Summed(same, big, small) == Aligned(same, big.sig, ShiftJam(8 * small.sig, big.exp - small.exp))

\* s is the sum or n units, at the exponent e: exact, or with more than half
\* of its places in use.
Sums(s, e, n, low) ==
  /\ s \in Nat /\ s < 32 * HIDDEN
  /\ Ranks(s, (8 * n) * Pow2[EMin - low], Pow2[e - low], 2)
  /\ s > 4 * HIDDEN \/ s * Pow2[e - low] = (8 * n) * Pow2[EMin - low]

LEMMA SummedSums ==
  ASSUME NEW big, NEW small, NEW nb \in Nat, NEW ns \in Nat, NEW low \in Int,
         low <= EMin - FBits, Stands(big, nb, low), Stands(small, ns, low),
         Precedes(big, small), NEW same \in BOOLEAN
  PROVE  /\ Exactly(same, nb, ns) \in Nat
         /\ Sums(Summed(same, big, small), big.exp, Exactly(same, nb, ns), low)
<1>1. PICK h \in Nat \ {0}, B \in Nat, S \in Nat, eb \in Int, es \in Int :
        /\ h = HIDDEN /\ B = big.sig /\ S = small.sig /\ eb = big.exp /\ es = small.exp
        /\ h <= B /\ B < 2 * h /\ h <= S /\ S < 2 * h
        /\ eb > es \/ (eb = es /\ B >= S)
        /\ low <= es /\ es <= eb
  <2>1. /\ big.sig \in Nat /\ HIDDEN <= big.sig /\ big.sig < 2 * HIDDEN
        /\ small.sig \in Nat /\ HIDDEN <= small.sig /\ small.sig < 2 * HIDDEN
        /\ big.exp \in Int /\ small.exp \in Int /\ EMin - FBits <= small.exp
    BY DEF Stands
  <2>2. HIDDEN \in Nat \ {0} /\ EMin - FBits \in Int
    BY Format
  <2>3. big.exp > small.exp \/ (big.exp = small.exp /\ big.sig >= small.sig)
    BY DEF Precedes
  <2>4. low <= small.exp /\ small.exp <= big.exp
    BY <2>1, <2>2, <2>3
  <2> QED
    BY <2>1, <2>2, <2>3, <2>4
<1>2. PICK P \in Nat \ {0}, Q \in Nat \ {0}, D \in Nat \ {0} :
        P = Pow2[eb - es] /\ Q = Pow2[es - low] /\ D = Pow2[eb - low] /\ D = P * Q
  <2>1. Gap(low, es, eb)
    BY <1>1, Pow2Gap
  <2> QED
    BY <2>1 DEF Gap
<1>3. EMin \in Int /\ low <= EMin
  BY Format
<1>4. PICK R \in Nat \ {0} : R = Pow2[EMin - low]
  <2>1. EMin - low \in Nat
    BY <1>3
  <2> QED
    BY <2>1, Pow2Typed
<1>5. nb * R = B * D /\ ns * R = S * Q
  BY <1>1, <1>2, <1>4 DEF Stands
<1>6. (P = 1 /\ B >= S) \/ P = 2 \/ P >= 4
  <2>1. CASE eb - es = 0
    <3>1. B >= S
      BY <1>1, <2>1
    <3> QED
      BY <1>2, <2>1, <3>1, Pow2Unfolds
  <2>2. CASE eb - es = 1
    <3>1. Pow2[0 + 1] = 2 * Pow2[0] /\ Pow2[0] = 1 /\ 0 + 1 = 1
      BY Pow2Unfolds
    <3> QED
      BY <1>2, <2>2, <3>1
  <2>3. CASE eb - es >= 2
    <3>1. PICK i \in Nat : i = eb - es /\ 2 <= i
      BY <1>1, <2>3
    <3>2. Pow2[2] <= Pow2[i]
      BY <3>1, Pow2Monotone
    <3>3. Pow2[0 + 1] = 2 * Pow2[0] /\ Pow2[0] = 1 /\ Pow2[1 + 1] = 2 * Pow2[1]
      BY Pow2Unfolds
    <3>4. Pow2[2] = 4
      BY <3>3
    <3> QED
      BY <1>2, <3>1, <3>2, <3>4
  <2> QED
    BY <1>1, <2>1, <2>2, <2>3
<1>7. Greater(B, S, P)
  <2>1. P = 1 /\ B >= S => S <= B * P
    OBVIOUS
  <2>2. P >= 2 => 2 * B <= B * P
    OBVIOUS
  <2>3. PICK y \in Nat : y = B * P
    OBVIOUS
  <2> QED
    BY <1>1, <1>6, <2>1, <2>2, <2>3 DEF Greater
<1>8. PICK j \in Nat : /\ j = ShiftJam(8 * S, eb - es) /\ j = Jam(8 * S, P)
                       /\ Ranks(j, 8 * S, P, 2)
  <2>1. 8 * S \in Nat
    OBVIOUS
  <2>2. ShiftJam(8 * S, eb - es) = Jam(8 * S, P)
    BY <1>2 DEF ShiftJam, Jam
  <2> QED
    BY <2>1, <2>2, JamRanks
<1>9. PICK s \in Nat, w \in Nat :
        /\ s = Aligned(same, B, j) /\ w = Exactly(same, B * P, S) /\ Ranks(s, 8 * w, P, 2)
  BY <1>7, <1>8, AlignedRanks
<1>10. PICK n \in Nat : n = Exactly(same, nb, ns) /\ n * R = w * Q
  <2>1. PICK y \in Nat : y = B * P /\ S <= y
    BY <1>7 DEF Greater
  <2>2. y * Q = B * D
    BY <1>2, <2>1
  <2>3. Matches(nb, R, y, Q) /\ Matches(ns, R, S, Q)
    BY <1>5, <2>2 DEF Matches
  <2>4. /\ Exactly(same, nb, ns) \in Nat
        /\ Matches(Exactly(same, nb, ns), R, Exactly(same, y, S), Q)
    BY <2>1, <2>3, ExactlyScales
  <2> QED
    BY <1>9, <2>1, <2>4 DEF Matches
<1>11. (8 * n) * R = (8 * w) * Q
  BY <1>10
<1>12. Ranks(s, (8 * n) * R, D, 2)
  <2>1. PICK k \in Nat : k = 8 * w
    OBVIOUS
  <2>2. Ranks(s, k * Q, P * Q, 2) <=> Ranks(s, k, P, 2)
    BY RanksScaled
  <2> QED
    BY <1>2, <1>9, <1>11, <2>1, <2>2
<1>13. j < 16 * h /\ (P >= 4 => j < 4 * h)
  BY <1>1, <1>8, JamBelow
<1>14. s < 32 * h /\ (P >= 4 => s > 4 * h)
  <2>1. s = IF same THEN 8 * B + j ELSE 8 * B - j
    BY <1>9 DEF Aligned
  <2> QED
    BY <1>1, <1>13, <2>1
<1>15. P < 4 => s * D = (8 * n) * R
  <2>1. SUFFICES ASSUME P \in {1, 2} PROVE s * D = (8 * n) * R
    BY <1>6
  <2>2. s * P = 8 * w
    <3>1. PICK y : y = B * P
      OBVIOUS
    <3>2. Matches(Aligned(same, B, j), P, Exactly(same, y, S), 8)
      BY <1>8, <2>1, <3>1, AlignedExactly
    <3>3. Matches(s, P, w, 8)
      BY <1>9, <3>1, <3>2
    <3> QED
      BY <3>3 DEF Matches
  <2>3. s * (P * Q) = (s * P) * Q
    OBVIOUS
  <2> QED
    BY <1>2, <1>11, <2>2, <2>3
<1>16. s = Summed(same, big, small)
  BY <1>1, <1>8, <1>9 DEF Summed
<1>17. s > 4 * h \/ s * D = (8 * n) * R
  BY <1>6, <1>14, <1>15
<1>18. Sums(s, eb, n, low)
  BY <1>1, <1>2, <1>4, <1>12, <1>14, <1>17 DEF Sums
<1> QED
  BY <1>1, <1>10, <1>16, <1>18

\* The end of nc_fp32_add(): the sum is normalized and packed.
Normalized(mode, sign, e, s) ==
  LET top == FBits + 3
      k == LeftShift(s, top)
  IN IF s >= Pow2[top + 1] THEN Pack(mode, sign, e + 1, ShiftJam(s, 1))
                           ELSE Pack(mode, sign, e - k, s * Pow2[k])

LEMMA Tops ==
  Pow2[FBits + 3] = 8 * HIDDEN /\ Pow2[(FBits + 3) + 1] = 16 * HIDDEN
<1>1. PICK f \in Nat, h \in Nat : f = FBits /\ h = HIDDEN /\ h = Pow2[f]
  BY Format DEF HIDDEN
<1>2. Pow2[f + 1] = 2 * Pow2[f] /\ Pow2[(f + 1) + 1] = 2 * Pow2[f + 1]
  BY Pow2Unfolds
<1>3. Pow2[(f + 2) + 1] = 2 * Pow2[f + 2] /\ Pow2[(f + 3) + 1] = 2 * Pow2[f + 3]
  BY Pow2Unfolds
<1>4. (f + 1) + 1 = f + 2 /\ (f + 2) + 1 = f + 3
  OBVIOUS
<1> QED
  BY <1>1, <1>2, <1>3, <1>4

LEMMA SumZero ==
  ASSUME NEW s, NEW e \in Int, NEW n \in Nat, NEW low \in Int, low <= EMin, low <= e,
         Sums(s, e, n, low)
  PROVE  s = 0 <=> n = 0
<1>1. PICK R \in Nat \ {0}, D \in Nat : R = Pow2[EMin - low] /\ D = Pow2[e - low]
  <2>1. EMin - low \in Nat /\ e - low \in Nat
    BY Format
  <2> QED
    BY <2>1, Pow2Typed
<1>2. PICK v \in Nat : v = (8 * n) * R
  OBVIOUS
<1>3. Ranks(s, v, D, 2)
  BY <1>1, <1>2 DEF Sums
<1>4. s = 0 <=> v = 0
  BY <1>3, RanksZero
<1>5. v = 0 <=> n = 0
  BY <1>2
<1> QED
  BY <1>4, <1>5

LEMMA SumRounds ==
  ASSUME NEW mode, NEW sign \in Int, NEW s, s # 0, NEW e \in Int, NEW n \in Nat,
         NEW low \in Int, low <= EMin, low <= e - (FBits + 3), Sums(s, e, n, low)
  PROVE  Normalized(mode, sign, e, s) = Rounded(mode, sign, n, 1)
<1>1. PICK h \in Nat \ {0}, f \in Nat, m \in Int : h = HIDDEN /\ f = FBits /\ m = EMin
  BY Format
<1>2. PICK t \in Nat : t = FBits + 3 /\ Pow2[t] = 8 * h /\ Pow2[t + 1] = 16 * h
  BY <1>1, Tops
<1>3. low <= m /\ low <= e /\ low <= e - t
  BY <1>1, <1>2
<1>4. PICK R \in Nat \ {0}, D \in Nat \ {0} : R = Pow2[EMin - low] /\ D = Pow2[e - low]
  <2>1. EMin - low \in Nat /\ e - low \in Nat
    BY <1>1, <1>3
  <2> QED
    BY <2>1, Pow2Typed
<1>5. PICK v \in Nat : v = (8 * n) * R
  OBVIOUS
<1>6. /\ s \in Nat /\ s < 32 * h /\ Ranks(s, v, D, 2)
      /\ s > 4 * h \/ s * D = v
  BY <1>1, <1>4, <1>5 DEF Sums
<1>7. CASE s >= 16 * h
  <2>1. PICK y \in Nat : /\ y = ShiftJam(s, 1) /\ 8 * h <= y /\ y < 16 * h
                         /\ Ranks(y, v, D * 2, 4)
    BY <1>6, <1>7, CarryRanks
  <2>2. Pow2[(e + 1) - low] = D * 2
    <3>1. PICK i \in Nat : i = e - low /\ (e + 1) - low = i + 1
      BY <1>3
    <3> QED
      BY <1>4, <3>1, Pow2Unfolds
  <2>3. 1 * Pow2[(e + 1) - low] = D * 2
    BY <2>2
  <2>4. Means(y, e + 1, n, 1, low)
    BY <1>4, <1>5, <2>1, <2>3 DEF Means
  <2>5. e + 1 \in Int /\ low <= e + 1 /\ 1 \in Nat \ {0}
    BY <1>3
  <2>6. Pack(mode, sign, e + 1, y) = Rounded(mode, sign, n, 1)
    BY <1>1, <2>1, <2>4, <2>5, PackRounds
  <2> QED
    BY <1>2, <1>7, <2>1, <2>6 DEF Normalized
<1>8. CASE s < 16 * h
  <2>1. PICK k \in 0..t : k = LeftShift(s, t) /\ Leads(s, t, k)
    <3>1. s \in Nat \ {0} /\ s < Pow2[t + 1]
      BY <1>2, <1>6, <1>8
    <3> QED
      BY <3>1, LeftShiftLeads
  <2>2. PICK K \in Nat \ {0}, E \in Nat \ {0} :
          K = Pow2[k] /\ E = Pow2[(e - k) - low] /\ D = E * K
    <3>1. PICK z \in Int : z = e - k /\ low <= z /\ z <= e /\ e - z = k
      BY <1>3
    <3>2. Gap(low, z, e)
      BY <3>1, Pow2Gap
    <3> QED
      BY <1>4, <3>1, <3>2 DEF Gap
  <2>3. PICK y \in Nat : y = s * K /\ 8 * h <= y /\ y < 16 * h
    <3>1. PICK y \in Nat : y = s * K
      BY <1>6
    <3>2. 8 * h <= y /\ y <= 16 * h - 1
      BY <1>2, <2>1, <2>2, <3>1 DEF Leads
    <3> QED
      BY <3>1, <3>2
  <2>4. Ranks(y, v, E, 4)
    <3>1. CASE k = 0
      <4>1. K = 1
        BY <2>2, <3>1, Pow2Unfolds
      <4>2. y = s /\ E = D
        BY <1>6, <2>2, <2>3, <4>1
      <4> QED
        BY <1>6, <4>2, RanksCoarser
    <3>2. CASE k = 1
      <4>1. K = 2
        <5>1. Pow2[0 + 1] = 2 * Pow2[0] /\ Pow2[0] = 1 /\ 0 + 1 = 1
          BY Pow2Unfolds
        <5> QED
          BY <2>2, <3>2, <5>1
      <4>2. D = 2 * E /\ y = s * 2
        BY <2>2, <2>3, <4>1
      <4> QED
        BY <1>6, <4>2, LeftRanks
    <3>3. CASE k >= 2
      <4>1. K >= 4
        <5>1. Pow2[2] <= Pow2[k]
          BY <3>3, Pow2Monotone
        <5>2. Pow2[0 + 1] = 2 * Pow2[0] /\ Pow2[0] = 1 /\ Pow2[1 + 1] = 2 * Pow2[1]
          BY Pow2Unfolds
        <5>3. Pow2[2] = 4
          BY <5>2
        <5> QED
          BY <2>2, <5>1, <5>3
      <4>2. 4 * s <= s * K
        BY <1>6, <4>1
      <4>3. s < 4 * h
        BY <1>6, <2>3, <4>2
      <4>4. s * D = v
        BY <1>6, <4>3
      <4>5. y * E = v
        <5>1. (s * K) * E = s * (E * K)
          BY <1>6
        <5> QED
          BY <2>2, <2>3, <4>4, <5>1
      <4> QED
        BY <4>5, ExactRanks
    <3> QED
      BY <3>1, <3>2, <3>3
  <2>5. 1 * Pow2[(e - k) - low] = E
    BY <2>2
  <2>6. Means(y, e - k, n, 1, low)
    BY <1>4, <1>5, <2>4, <2>5 DEF Means
  <2>7. e - k \in Int /\ low <= e - k /\ 1 \in Nat \ {0}
    BY <1>3
  <2>8. Pack(mode, sign, e - k, y) = Rounded(mode, sign, n, 1)
    BY <1>1, <2>3, <2>6, <2>7, PackRounds
  <2> QED
    BY <1>2, <1>6, <1>8, <2>1, <2>2, <2>3, <2>8 DEF Normalized
<1> QED
  BY <1>6, <1>7, <1>8

-----------------------------------------------------------------------------
(* Quotients. *)

\* The quotient of the significands, shifted up, has its leading bit in place.
LEMMA QuotientPlaced ==
  ASSUME NEW h \in Nat \ {0}, NEW A \in Nat, NEW B \in Nat, NEW c \in {1, 2},
         h <= A, A < 2 * h, h <= B, B < 2 * h, c = IF A < B THEN 2 ELSE 1,
         NEW N \in Nat, N = (c * A) * (8 * h), NEW s \in Nat, Ranks(s, N, B, 2)
  PROVE  8 * h <= s /\ s < 16 * h
<1>1. PICK g \in Nat \ {0} : g = 8 * h
  OBVIOUS
<1>2. PICK y \in Nat : y = c * A /\ B <= y /\ y < 2 * B
  OBVIOUS
<1>3. N = y * g
  BY <1>1, <1>2
<1>4. B * g <= y * g
  BY <1>2
<1>5. Like(y, 2 * B, y * g, (2 * B) * g)
  <2>1. PICK k \in Nat : k = 2 * B
    OBVIOUS
  <2>2. Like(y, k, y * g, k * g)
    BY LikeScaled
  <2> QED
    BY <2>1, <2>2
<1>6. PICK z \in Nat : z = B * g /\ (2 * B) * g = 2 * z
  OBVIOUS
<1>7. z <= N /\ N < 2 * z
  BY <1>2, <1>3, <1>4, <1>5, <1>6 DEF Like
<1>8. Like(s, 2 * (4 * h), N, (2 * (4 * h)) * B) /\ Like(s, 2 * (8 * h), N, (2 * (8 * h)) * B)
  <2>1. 4 * h \in Nat /\ 8 * h \in Nat
    OBVIOUS
  <2> QED
    BY <2>1 DEF Ranks
<1>9. (2 * (4 * h)) * B = z /\ (2 * (8 * h)) * B = 2 * z
  BY <1>1, <1>6
<1> QED
  BY <1>7, <1>8, <1>9 DEF Like

\* Two ways to write one product.
Balanced(a, b, c, d, i, j, k) == ((a * b) * c) * d = (i * j) * k

LEMMA Pow2Balance ==
  ASSUME NEW a \in Nat, NEW b \in Nat, NEW c \in Nat, NEW d \in Nat,
         NEW i \in Nat, NEW j \in Nat, NEW k \in Nat, ((a + b) + c) + d = (i + j) + k
  PROVE  Balanced(Pow2[a], Pow2[b], Pow2[c], Pow2[d], Pow2[i], Pow2[j], Pow2[k])
<1>1. a + b \in Nat /\ (a + b) + c \in Nat /\ i + j \in Nat
  OBVIOUS
<1>2. Pow2[a + b] = Pow2[a] * Pow2[b] /\ Pow2[i + j] = Pow2[i] * Pow2[j]
  BY Pow2Sum
<1>3. Pow2[(a + b) + c] = Pow2[a + b] * Pow2[c] /\ Pow2[(i + j) + k] = Pow2[i + j] * Pow2[k]
  BY <1>1, Pow2Sum
<1>4. Pow2[((a + b) + c) + d] = Pow2[(a + b) + c] * Pow2[d]
  BY <1>1, Pow2Sum
<1> QED
  BY <1>2, <1>3, <1>4 DEF Balanced

\* Equal fractions are ranked alike.
LEMMA RanksEqual ==
  ASSUME NEW s, NEW n \in Nat, NEW d \in Nat, NEW p \in Nat, NEW q \in Nat,
         NEW x1 \in Nat \ {0}, NEW y1 \in Nat \ {0},
         Matches(n, x1, p, y1), Matches(d, x1, q, y1), Ranks(s, n, d, 2)
  PROVE  Ranks(s, p, q, 4)
<1>1. Ranks(s, n * x1, d * x1, 2) <=> Ranks(s, n, d, 2)
  BY RanksScaled
<1>2. Ranks(s, p * y1, q * y1, 2) <=> Ranks(s, p, q, 2)
  BY RanksScaled
<1>3. Ranks(s, p * y1, q * y1, 2)
  BY <1>1 DEF Matches
<1> QED
  BY <1>2, <1>3, RanksCoarser

\* Both sides of the fraction, with everything multiplied out.
Fraction(N, z, p, q, A, c, h, V, E, F, G, na, nb) ==
  /\ N = (c * A) * (8 * h) /\ p = (8 * (na * F)) * G
  /\ q = nb * E /\ z = V * E

LEMMA QuotientMatches ==
  ASSUME NEW A \in Nat, NEW B \in Nat, NEW c \in Nat, NEW h \in Nat, NEW U \in Nat, NEW V \in Nat,
         NEW R \in Nat, NEW E \in Nat, NEW F \in Nat, NEW G \in Nat, NEW na \in Nat, NEW nb \in Nat,
         Matches(na, R, A, U), Matches(nb, R, B, V), Balanced(c, h, V, E, U, F, G),
         NEW N, NEW p, NEW q, NEW z, Fraction(N, z, p, q, A, c, h, V, E, F, G, na, nb)
  PROVE  Matches(N, z, p, R) /\ Matches(B, z, q, R)
<1>0. na * R = A * U /\ nb * R = B * V /\ ((c * h) * V) * E = (U * F) * G
  BY DEF Matches, Balanced
<1>1. ((c * A) * (8 * h)) * (V * E) = (8 * A) * (((c * h) * V) * E)
  OBVIOUS
<1>2. ((8 * (na * F)) * G) * R = (8 * (na * R)) * (F * G)
  OBVIOUS
<1>3. (8 * (A * U)) * (F * G) = (8 * A) * ((U * F) * G)
  OBVIOUS
<1>4. B * (V * E) = (B * V) * E /\ (nb * E) * R = (nb * R) * E
  OBVIOUS
<1> QED
  BY <1>0, <1>1, <1>2, <1>3, <1>4 DEF Matches, Fraction

\* DivFinite, of the unpacked operands.
Quotient(mode, sign, ua, ub, c, l) ==
  Pack(mode, sign, ua.exp - ub.exp - l, Jam((c * ua.sig) * Pow2[FBits + 3], ub.sig))

\* The extra place of a quotient below one; n ones, in units.
Places(ua, ub, c, l) == /\ c = IF ua.sig < ub.sig THEN 2 ELSE 1
                        /\ l = IF ua.sig < ub.sig THEN 1 ELSE 0
Units(r, n) == r = n * Pow2[FBits - EMin]

LEMMA QuotientRounds ==
  ASSUME NEW mode, NEW sign \in Int, NEW ua, NEW ub, NEW na \in Nat, NEW nb \in Nat \ {0},
         NEW low \in Int, low = EMin - FBits, Stands(ua, na, low), Stands(ub, nb, low),
         NEW c, NEW l, Places(ua, ub, c, l), NEW r, Units(r, na)
  PROVE  Quotient(mode, sign, ua, ub, c, l) = Rounded(mode, sign, r, nb)
<1>1. PICK h \in Nat \ {0}, A \in Nat, B \in Nat \ {0}, ea \in Int, eb \in Int :
        /\ h = HIDDEN /\ A = ua.sig /\ B = ub.sig /\ ea = ua.exp /\ eb = ub.exp
        /\ h <= A /\ A < 2 * h /\ h <= B /\ B < 2 * h
        /\ low <= ea /\ low <= eb
  <2>1. /\ ua.sig \in Nat /\ HIDDEN <= ua.sig /\ ua.sig < 2 * HIDDEN
        /\ ub.sig \in Nat /\ HIDDEN <= ub.sig /\ ub.sig < 2 * HIDDEN
        /\ ua.exp \in Int /\ ub.exp \in Int /\ EMin - FBits <= ua.exp /\ EMin - FBits <= ub.exp
    BY DEF Stands
  <2>2. HIDDEN \in Nat \ {0} /\ EMin - FBits \in Int
    BY Format
  <2>3. low <= ua.exp /\ low <= ub.exp /\ ub.sig # 0
    BY <2>1, <2>2
  <2> QED
    BY <2>1, <2>2, <2>3
<1>2. PICK m \in Int, f \in Nat : m = EMin /\ f = FBits /\ f - m \in Nat /\ low <= m /\ h = Pow2[f]
  BY <1>1, Format DEF HIDDEN
<1>3. c \in {1, 2} /\ c = (IF A < B THEN 2 ELSE 1) /\ l \in {0, 1} /\ c = Pow2[l]
  <2>1. Pow2[0 + 1] = 2 * Pow2[0] /\ Pow2[0] = 1 /\ 0 + 1 = 1
    BY Pow2Unfolds
  <2> QED
    BY <1>1, <2>1 DEF Places
<1>4. PICK e \in Int : e = ea - eb - l
  <2>1. l \in Int
    BY <1>3
  <2>2. ea - eb - l \in Int
    BY <2>1
  <2> QED
    BY <2>2
<1>5. PICK lo \in Int : lo <= e /\ lo <= m
  <2>1. e <= m \/ m <= e
    OBVIOUS
  <2> QED
    BY <2>1
<1>6. PICK U \in Nat, V \in Nat \ {0}, R \in Nat \ {0} :
        /\ U = Pow2[ea - low] /\ V = Pow2[eb - low] /\ R = Pow2[m - low]
  <2>1. ea - low \in Nat /\ eb - low \in Nat /\ m - low \in Nat
    BY <1>1, <1>2
  <2> QED
    BY <2>1, Pow2Typed
<1>7. PICK E \in Nat \ {0}, F \in Nat, G \in Nat :
        /\ E = Pow2[e - lo] /\ F = Pow2[f - m] /\ G = Pow2[m - lo]
  <2>1. e - lo \in Nat /\ m - lo \in Nat
    BY <1>5
  <2> QED
    BY <1>2, <2>1, Pow2Typed
<1>8. Balanced(c, h, V, E, U, F, G)
  <2>1. PICK x2 \in Nat, x3 \in Nat, y1 \in Nat, y2 \in Nat, y3 \in Nat :
          /\ x2 = eb - low /\ x3 = e - lo /\ y1 = ea - low /\ y2 = f - m /\ y3 = m - lo
    <3>1. eb - low \in Nat /\ e - lo \in Nat /\ ea - low \in Nat /\ m - lo \in Nat
      BY <1>1, <1>5
    <3> QED
      BY <1>2, <3>1
  <2>2. ((l + f) + x2) + x3 = (y1 + y2) + y3
    BY <1>3, <1>4, <2>1
  <2>3. l \in Nat
    BY <1>3
  <2>4. Balanced(Pow2[l], Pow2[f], Pow2[x2], Pow2[x3], Pow2[y1], Pow2[y2], Pow2[y3])
    BY <2>2, <2>3, Pow2Balance
  <2> QED
    BY <1>2, <1>3, <1>6, <1>7, <2>1, <2>4
<1>9. Matches(na, R, A, U) /\ Matches(nb, R, B, V)
  BY <1>1, <1>2, <1>6 DEF Stands, Matches
<1>10. PICK N \in Nat : N = (c * A) * (8 * h)
  <2>1. c * A \in Nat /\ 8 * h \in Nat
    BY <1>3
  <2> QED
    BY <2>1
<1>11. PICK s \in Nat : s = Jam(N, B) /\ Ranks(s, N, B, 2)
  BY JamRanks
<1>12. 8 * h <= s /\ s < 16 * h
  BY <1>1, <1>3, <1>10, <1>11, QuotientPlaced
<1>13. PICK n \in Nat, p \in Nat, q \in Nat, z \in Nat \ {0} :
         n = na * F /\ p = (8 * n) * G /\ q = nb * E /\ z = V * E
  OBVIOUS
<1>14. Matches(N, z, p, R) /\ Matches(B, z, q, R)
  <2>1. c \in Nat
    BY <1>3
  <2>2. Fraction(N, z, p, q, A, c, h, V, E, F, G, na, nb)
    BY <1>10, <1>13 DEF Fraction
  <2> QED
    BY <1>8, <1>9, <2>1, <2>2, QuotientMatches, ZenonT(60)
<1>15. Ranks(s, p, q, 4)
  BY <1>11, <1>14, RanksEqual
<1>16. Means(s, e, n, nb, lo)
  BY <1>2, <1>7, <1>13, <1>15 DEF Means
<1>17. Pack(mode, sign, e, s) = Rounded(mode, sign, n, nb)
  BY <1>1, <1>2, <1>5, <1>12, <1>16, PackRounds
<1>18. Jam((c * ua.sig) * Pow2[FBits + 3], ub.sig) = s
  BY <1>1, <1>10, <1>11, Tops
<1> QED
  BY <1>1, <1>2, <1>4, <1>7, <1>13, <1>17, <1>18 DEF Quotient, Units

-----------------------------------------------------------------------------
(* The operations on two finite numbers that are not zero. *)

LEMMA PatternParts ==
  ASSUME NEW p \in Pattern
  PROVE  /\ p \in Nat /\ Abs(p) \in Nat /\ Abs(p) < SIGN
         /\ Sign(p) \in {0, SIGN} /\ p = Sign(p) + Abs(p)
<1>1. PICK g \in Nat \ {0} : g = SIGN
  BY Format
<1>2. p \in Nat /\ p < 2 * g
  BY <1>1 DEF Pattern
<1>3. PICK q \in Nat, r \in Nat : q = (p \div g) /\ r = (p % g) /\ r < g /\ p = g * q + r
  BY <1>2, Divided
<1>4. q = 0 \/ q = 1
  <2>1. SUFFICES ASSUME q >= 2 PROVE FALSE
    BY <1>3
  <2>2. g * 2 <= g * q
    BY <2>1
  <2>3. PICK y \in Nat : y = g * q
    OBVIOUS
  <2> QED
    BY <1>2, <1>3, <2>2, <2>3
<1>5. g * q = 0 \/ g * q = g
  BY <1>4
<1>6. Abs(p) = r /\ Sign(p) = p - r
  BY <1>1, <1>3 DEF Abs, Sign
<1> QED
  BY <1>1, <1>2, <1>3, <1>5, <1>6

LEMMA MagnitudePositive ==
  ASSUME NEW a \in Nat, a # 0
  PROVE  Magnitude(a) \in Nat \ {0}
<1>1. 0 \in Nat /\ 0 <= a /\ 0 < a
  OBVIOUS
<1>2. Magnitude(0) \in Nat /\ Magnitude(a) \in Nat /\ Magnitude(0) < Magnitude(a)
  BY <1>1, MagnitudeOrders
<1> QED
  BY <1>2

LEMMA DivFiniteRounds ==
  ASSUME NEW mode, NEW sign \in Int, NEW a \in Pattern, NEW b \in Pattern, Abs(a) # 0, Abs(b) # 0
  PROVE  DivFinite(mode, sign, a, b)
           = Rounded(mode, sign, Magnitude(Abs(a)) * Pow2[FBits - EMin], Magnitude(Abs(b)))
<1>1. PICK p \in Nat \ {0}, q \in Nat \ {0} : p = Abs(a) /\ q = Abs(b)
  BY PatternParts
<1>2. PICK na \in Nat, nb \in Nat \ {0} : na = Magnitude(p) /\ nb = Magnitude(q)
  BY <1>1, MagnitudePositive
<1>3. PICK low \in Int : low = EMin - FBits /\ low <= EMin - FBits
  BY Format
<1>4. PICK ua, ub : ua = Unpack(a) /\ ub = Unpack(b)
  OBVIOUS
<1>5. Stands(ua, na, low) /\ Stands(ub, nb, low)
  <2>1. Stands(Unpack(a), Magnitude(p), low)
    BY <1>1, <1>3, UnpackStands
  <2>2. Stands(Unpack(b), Magnitude(q), low)
    BY <1>1, <1>3, UnpackStands
  <2> QED
    BY <1>2, <1>4, <2>1, <2>2
<1>6. PICK c, l : Places(ua, ub, c, l)
  BY DEF Places
<1>7. PICK n : Units(n, na)
  BY DEF Units
<1>8. Quotient(mode, sign, ua, ub, c, l) = Rounded(mode, sign, n, nb)
  BY <1>3, <1>5, <1>6, <1>7, QuotientRounds
<1>9. DivFinite(mode, sign, a, b) = Quotient(mode, sign, ua, ub, c, l)
  BY <1>4, <1>6, Zenon DEF DivFinite, Jam, Quotient, Places
<1> QED
  BY <1>1, <1>2, <1>7, <1>8, <1>9 DEF Units

\* AddFinite, once it is known which operand is the greater.
ExactZero(mode) == Result(IF mode = RM THEN SIGN ELSE 0, {})
Combined(mode, sign, same, big, small) ==
  IF Summed(same, big, small) = 0 THEN ExactZero(mode)
  ELSE Normalized(mode, sign, big.exp, Summed(same, big, small))

\* A result in sign and magnitude.
Signifies(z, sign, n) == z = IF sign = 0 THEN n ELSE -n
Delivered(mode, sign, n) == IF n = 0 THEN ExactZero(mode) ELSE Rounded(mode, sign, n, 1)

LEMMA CombinedRounds ==
  ASSUME NEW mode, NEW sign \in Int, NEW same \in BOOLEAN, NEW p, NEW q, NEW a \in Nat, NEW b \in Nat,
         a = Abs(p), a # 0, b = Abs(q), b # 0, Precedes(Unpack(p), Unpack(q))
  PROVE  /\ Exactly(same, Magnitude(a), Magnitude(b)) \in Nat
         /\ Combined(mode, sign, same, Unpack(p), Unpack(q))
              = Delivered(mode, sign, Exactly(same, Magnitude(a), Magnitude(b)))
<1>1. PICK nb \in Nat, ns \in Nat : nb = Magnitude(a) /\ ns = Magnitude(b)
  BY MagnitudePositive
<1>2. PICK big, small : big = Unpack(p) /\ small = Unpack(q)
  OBVIOUS
<1>3. PICK low \in Int : /\ low = EMin - FBits - (FBits + 3) /\ low <= EMin - FBits /\ low <= EMin
  BY Format
<1>4. Stands(big, nb, low) /\ Stands(small, ns, low)
  BY <1>1, <1>2, <1>3, UnpackStands
<1>5. PICK e \in Int : e = big.exp /\ low <= e - (FBits + 3) /\ low <= e
  <2>1. big.exp \in Int /\ EMin - FBits <= big.exp
    BY <1>4 DEF Stands
  <2>2. PICK e \in Int, f \in Nat, m \in Int : e = big.exp /\ f = FBits /\ m = EMin /\ m - f <= e
    BY <2>1, Format
  <2>3. low = m - f - (f + 3)
    BY <1>3, <2>2
  <2>4. low <= e - (f + 3) /\ low <= e
    BY <2>2, <2>3
  <2> QED
    BY <2>2, <2>4
<1>6. PICK s : s = Summed(same, big, small)
  OBVIOUS
<1>7. PICK n \in Nat : n = Exactly(same, nb, ns) /\ Sums(s, e, n, low)
  BY <1>2, <1>3, <1>4, <1>5, <1>6, SummedSums
<1>8. s = 0 <=> n = 0
  BY <1>3, <1>5, <1>7, SumZero
<1>9. s # 0 => Normalized(mode, sign, e, s) = Rounded(mode, sign, n, 1)
  BY <1>3, <1>5, <1>7, SumRounds
<1>10. Combined(mode, sign, same, big, small) = Delivered(mode, sign, n)
  BY <1>5, <1>6, <1>8, <1>9 DEF Combined, Delivered
<1> QED
  BY <1>1, <1>2, <1>7, <1>10

Swapped(ua, ub) == ua.exp < ub.exp \/ (ua.exp = ub.exp /\ ua.sig < ub.sig)
SignsAgree(same, a, b) == same = (Sign(a) = Sign(b))

LEMMA AddFiniteCombines ==
  ASSUME NEW mode, NEW a, NEW b, NEW same \in BOOLEAN, SignsAgree(same, a, b),
         NEW ua, NEW ub, ua = Unpack(a), ub = Unpack(b)
  PROVE  /\ Swapped(ua, ub) => AddFinite(mode, a, b) = Combined(mode, Sign(b), same, ub, ua)
         /\ ~Swapped(ua, ub) => AddFinite(mode, a, b) = Combined(mode, Sign(a), same, ua, ub)
<1>0. PICK swap \in BOOLEAN : /\ swap <=> (ua.exp < ub.exp \/ (ua.exp = ub.exp /\ ua.sig < ub.sig))
                              /\ swap <=> Swapped(ua, ub)
  BY DEF Swapped
<1>1. ASSUME NEW big, NEW small, NEW sign, NEW s,
             big = IF swap THEN ub ELSE ua, small = IF swap THEN ua ELSE ub,
             sign = Sign(IF swap THEN b ELSE a), s = Summed(same, big, small)
      PROVE  AddFinite(mode, a, b) = CASE s = 0 -> Result(IF mode = RM THEN SIGN ELSE 0, {})
                                       [] s >= Pow2[(FBits + 3) + 1] ->
                                            Pack(mode, sign, big.exp + 1, ShiftJam(s, 1))
                                       [] OTHER -> Pack(mode, sign, big.exp - LeftShift(s, FBits + 3),
                                                        s * Pow2[LeftShift(s, FBits + 3)])
  <2>1. s = IF Sign(a) = Sign(b) THEN 8 * big.sig + ShiftJam(8 * small.sig, big.exp - small.exp)
                                 ELSE 8 * big.sig - ShiftJam(8 * small.sig, big.exp - small.exp)
    BY <1>1 DEF Summed, Aligned, SignsAgree
  <2> QED
    BY <1>0, <1>1, <2>1 DEF AddFinite, AddAligned, PackSum
<1>2. ASSUME NEW big, NEW small, NEW sign, NEW s, s = Summed(same, big, small)
      PROVE  Combined(mode, sign, same, big, small)
               = CASE s = 0 -> Result(IF mode = RM THEN SIGN ELSE 0, {})
                   [] s >= Pow2[(FBits + 3) + 1] ->
                        Pack(mode, sign, big.exp + 1, ShiftJam(s, 1))
                   [] OTHER -> Pack(mode, sign, big.exp - LeftShift(s, FBits + 3),
                                    s * Pow2[LeftShift(s, FBits + 3)])
  <2>1. s = 0 => ~(s >= Pow2[(FBits + 3) + 1])
    BY Tops, Format
  <2> QED
    BY <1>2, <2>1 DEF Combined, Normalized, ExactZero
<1>3. ASSUME swap PROVE AddFinite(mode, a, b) = Combined(mode, Sign(b), same, ub, ua)
  BY <1>1, <1>2, <1>3
<1>4. ASSUME ~swap PROVE AddFinite(mode, a, b) = Combined(mode, Sign(a), same, ua, ub)
  BY <1>1, <1>2, <1>4
<1> QED
  BY <1>0, <1>3, <1>4

LEMMA SignedIs ==
  ASSUME NEW p \in Pattern, Abs(p) <= INF
  PROVE  /\ Magnitude(Abs(p)) \in Nat /\ Magnitudes[Abs(p)] = Magnitude(Abs(p))
         /\ Signifies(Signed(p), Sign(p), Magnitude(Abs(p)))
<1>1. /\ p \in Nat /\ Abs(p) \in 0..INF /\ p = Sign(p) + Abs(p)
  <2>1. INF \in Nat /\ p \in Nat /\ Abs(p) \in Nat /\ p = Sign(p) + Abs(p)
    BY PatternParts, Format
  <2> QED
    BY <2>1
<1>2. Magnitudes[Abs(p)] = Magnitude(Abs(p)) /\ Magnitude(Abs(p)) \in Nat
  BY <1>1, MagnitudeLooked
<1>3. Sign(p) = 0 => p = Abs(p)
  BY <1>1
<1> QED
  BY <1>2, <1>3 DEF Signifies, Signed

LEMMA SumSignifies ==
  ASSUME NEW g \in Nat \ {0}, NEW sa \in {0, g}, NEW sb \in {0, g}, NEW na \in Nat, NEW nb \in Nat,
         NEW za, NEW zb, Signifies(za, sa, na), Signifies(zb, sb, nb),
         NEW same \in BOOLEAN, same <=> sa = sb
  PROVE  /\ Signifies(za + zb, sa, Exactly(same, na, nb))
         /\ Signifies(za + zb, sb, Exactly(same, nb, na))
BY DEF Signifies, Exactly

\* The exact sum and what nc_fp32_add() returns for it.
LEMMA AddFiniteRounds ==
  ASSUME NEW mode, NEW a \in Pattern, NEW b \in Pattern,
         Abs(a) # 0, Abs(b) # 0, Abs(a) <= INF, Abs(b) <= INF
  PROVE  \E n \in Nat, sign \in {0, SIGN} :
           /\ Signifies(Signed(a) + Signed(b), sign, n)
           /\ AddFinite(mode, a, b) = Delivered(mode, sign, n)
<1>1. PICK p \in Nat, q \in Nat, g \in Nat \ {0} :
        p = Abs(a) /\ q = Abs(b) /\ g = SIGN /\ p # 0 /\ q # 0
  BY PatternParts, Format
<1>2. Sign(a) \in {0, g} /\ Sign(b) \in {0, g} /\ Sign(a) \in Int /\ Sign(b) \in Int
  BY <1>1, PatternParts
<1>3. PICK na \in Nat, nb \in Nat :
        /\ na = Magnitude(p) /\ nb = Magnitude(q)
        /\ Signifies(Signed(a), Sign(a), na) /\ Signifies(Signed(b), Sign(b), nb)
  BY <1>1, SignedIs
<1>4. PICK same \in BOOLEAN : SignsAgree(same, a, b)
  BY DEF SignsAgree
<1>5. /\ Signifies(Signed(a) + Signed(b), Sign(a), Exactly(same, na, nb))
      /\ Signifies(Signed(a) + Signed(b), Sign(b), Exactly(same, nb, na))
  <2>1. PICK sa \in {0, g}, sb \in {0, g} : sa = Sign(a) /\ sb = Sign(b) /\ (same <=> sa = sb)
    BY <1>2, <1>4 DEF SignsAgree
  <2>2. PICK za, zb : za = Signed(a) /\ zb = Signed(b)
    OBVIOUS
  <2>3. Signifies(za, sa, na) /\ Signifies(zb, sb, nb)
    BY <1>3, <2>1, <2>2
  <2>4. /\ Signifies(za + zb, sa, Exactly(same, na, nb))
        /\ Signifies(za + zb, sb, Exactly(same, nb, na))
    BY <2>1, <2>3, SumSignifies
  <2> QED
    BY <2>1, <2>2, <2>4
<1>6. PICK ua, ub : ua = Unpack(a) /\ ub = Unpack(b)
  OBVIOUS
<1>7. ua.exp \in Int /\ ub.exp \in Int /\ ua.sig \in Nat /\ ub.sig \in Nat
  <2>1. PICK low \in Int : low = EMin - FBits /\ low <= EMin - FBits
    BY Format
  <2>2. Stands(Unpack(a), Magnitude(p), low) /\ Stands(Unpack(b), Magnitude(q), low)
    BY <1>1, <2>1, UnpackStands
  <2> QED
    BY <1>6, <2>2 DEF Stands
<1>8. CASE Swapped(ua, ub)
  <2>1. Precedes(Unpack(b), Unpack(a))
    BY <1>6, <1>7, <1>8 DEF Precedes, Swapped
  <2>2. AddFinite(mode, a, b) = Combined(mode, Sign(b), same, ub, ua)
    BY <1>4, <1>6, <1>8, AddFiniteCombines
  <2>3. /\ Exactly(same, Magnitude(q), Magnitude(p)) \in Nat
        /\ Combined(mode, Sign(b), same, Unpack(b), Unpack(a))
             = Delivered(mode, Sign(b), Exactly(same, Magnitude(q), Magnitude(p)))
    BY <1>1, <1>2, <2>1, CombinedRounds
  <2> QED
    BY <1>1, <1>2, <1>3, <1>5, <1>6, <2>2, <2>3
<1>9. CASE ~Swapped(ua, ub)
  <2>1. Precedes(Unpack(a), Unpack(b))
    BY <1>6, <1>7, <1>9 DEF Precedes, Swapped
  <2>2. AddFinite(mode, a, b) = Combined(mode, Sign(a), same, ua, ub)
    BY <1>4, <1>6, <1>9, AddFiniteCombines
  <2>3. /\ Exactly(same, Magnitude(p), Magnitude(q)) \in Nat
        /\ Combined(mode, Sign(a), same, Unpack(a), Unpack(b))
             = Delivered(mode, Sign(a), Exactly(same, Magnitude(p), Magnitude(q)))
    BY <1>1, <1>2, <2>1, CombinedRounds
  <2> QED
    BY <1>1, <1>2, <1>3, <1>5, <1>6, <2>2, <2>3
<1> QED
  BY <1>8, <1>9

\* A number that the format has is its own rounding.
LEMMA RoundedExact ==
  ASSUME NEW mode, NEW sign, NEW p \in Nat, p < INF
  PROVE  Rounded(mode, sign, Magnitude(p), 1) = Result(sign + p, {})
<1>1. p \in 0..(INF - 1) /\ p # INF
  BY Format
<1>2. PICK n \in Nat, k \in Nat : n = Magnitude(p) /\ k = Magnitude(p + 1) /\ n < k
  BY MagnitudeGrows
<1>3. PICK d \in Nat \ {0} : d = 1 /\ n * d = n /\ k * d = k
  OBVIOUS
<1>4. Magnitude(p) * d <= n /\ n < Magnitude(p + 1) * d
  BY <1>2, <1>3
<1>5. Rounded(mode, sign, n, d)
        = Chosen(sign, IF Magnitude(p) * d # n /\ Up(mode, sign, n, d, p) THEN p + 1 ELSE p,
                 Magnitude(p) * d = n, n < HIDDEN * d)
  BY <1>1, <1>4, RoundedBelow
<1>6. Magnitude(p) * d = n
  BY <1>2, <1>3
<1> QED
  BY <1>1, <1>2, <1>3, <1>5, <1>6 DEF Chosen

-----------------------------------------------------------------------------
(* The results are patterns with flags. *)

IsResult(r) == r.bits \in Pattern /\ r.flags \subseteq Flags

LEMMA LowExists ==
  ASSUME NEW n \in Nat, NEW d \in Nat \ {0}
  PROVE  \A p \in Nat : n < Magnitude(p) * d =>
           \E q \in Nat : q < p /\ Magnitude(q) * d <= n /\ n < Magnitude(q + 1) * d
<1> DEFINE S == {p \in Nat : n < Magnitude(p) * d =>
                   \E q \in Nat : q < p /\ Magnitude(q) * d <= n /\ n < Magnitude(q + 1) * d}
<1>1. 0 \in S
  <2>1. Magnitude(0) = 0
    <3>1. PICK h \in Nat \ {0} : h = HIDDEN
      BY Format
    <3>2. (0 \div h) = 0 /\ (0 % h) = 0
      BY DividesOnce
    <3> QED
      BY <3>1, <3>2 DEF Magnitude
  <2>2. ~(n < Magnitude(0) * d)
    BY <2>1
  <2> QED
    BY <2>2
<1>2. ASSUME NEW p \in Nat, p \in S PROVE p + 1 \in S
  <2>1. PICK a \in Nat, b \in Nat : a = Magnitude(p) /\ b = Magnitude(p + 1)
    BY MagnitudeGrows
  <2>2. PICK y \in Nat, z \in Nat : y = a * d /\ z = b * d
    OBVIOUS
  <2>3. ASSUME n < Magnitude(p + 1) * d
        PROVE  \E q \in Nat : q < p + 1 /\ Magnitude(q) * d <= n /\ n < Magnitude(q + 1) * d
    <3>1. CASE n < y
      <4>1. n < Magnitude(p) * d
        BY <2>1, <2>2, <3>1
      <4>2. PICK q \in Nat : q < p /\ Magnitude(q) * d <= n /\ n < Magnitude(q + 1) * d
        BY <1>2, <4>1
      <4>3. q < p + 1
        BY <4>2
      <4> QED
        BY <4>2, <4>3
    <3>2. CASE y <= n
      <4>1. p < p + 1 /\ Magnitude(p) * d <= n
        BY <2>1, <2>2, <3>2
      <4> QED
        BY <2>3, <4>1
    <3> QED
      BY <3>1, <3>2
  <2>4. p + 1 \in Nat
    OBVIOUS
  <2> QED
    BY <2>3, <2>4
<1> HIDE DEF S
<1>3. \A p \in Nat : p \in S
  BY <1>1, <1>2, Induction
<1> QED
  BY <1>3 DEF S

LEMMA PatternOf ==
  ASSUME NEW sign \in {0, SIGN}, NEW p \in Nat, p < SIGN
  PROVE  sign + p \in Pattern
<1>1. SIGN \in Nat
  BY Format
<1> QED
  BY <1>1 DEF Pattern

LEMMA RoundedTyped ==
  ASSUME NEW mode, NEW sign \in {0, SIGN}, NEW n \in Nat, NEW d \in Nat \ {0}
  PROVE  IsResult(Rounded(mode, sign, n, d))
<1>1. INF \in Nat \ {0} /\ INF < SIGN /\ INF - 1 \in Nat /\ INF - 1 < SIGN /\ SIGN \in Nat
  BY Format
<1>2. PICK y \in Nat : y = Magnitude(INF) * d
  BY <1>1, MagnitudeGrows
<1>3. CASE y <= n
  <2>1. Rounded(mode, sign, n, d) = Overflow(mode, sign)
    BY <1>2, <1>3, RoundedBeyond
  <2>2. sign + INF \in Pattern /\ sign + (INF - 1) \in Pattern
    BY <1>1, PatternOf
  <2>3. Overflow(mode, sign).bits \in Pattern
    BY <2>2 DEF Overflow, Result
  <2>4. Overflow(mode, sign).flags \subseteq Flags
    BY DEF Overflow, Result, Flags
  <2> QED
    BY <2>1, <2>3, <2>4 DEF IsResult
<1>4. CASE n < y
  <2>1. PICK p \in Nat : p < INF /\ Magnitude(p) * d <= n /\ n < Magnitude(p + 1) * d
    BY <1>1, <1>2, <1>4, LowExists
  <2>2. p \in 0..(INF - 1)
    BY <1>1, <2>1
  <2>3. PICK c \in {p, p + 1}, exact \in BOOLEAN, tiny \in BOOLEAN :
          Rounded(mode, sign, n, d) = Chosen(sign, c, exact, tiny)
    <3>1. Rounded(mode, sign, n, d)
            = Chosen(sign, IF Magnitude(p) * d # n /\ Up(mode, sign, n, d, p) THEN p + 1 ELSE p,
                     Magnitude(p) * d = n, n < HIDDEN * d)
      BY <2>1, <2>2, RoundedBelow
    <3>2. PICK exact \in BOOLEAN, tiny \in BOOLEAN :
            exact = (Magnitude(p) * d = n) /\ tiny = (n < HIDDEN * d)
      <4>1. (Magnitude(p) * d = n) \in BOOLEAN
        OBVIOUS
      <4>2. (n < HIDDEN * d) \in BOOLEAN
        BY Format
      <4> QED
        BY <4>1, <4>2, Zenon
    <3>3. PICK c : c = IF Magnitude(p) * d # n /\ Up(mode, sign, n, d, p) THEN p + 1 ELSE p
      OBVIOUS
    <3>4. c \in {p, p + 1}
      BY <3>3
    <3> QED
      BY <3>1, <3>2, <3>3, <3>4, Zenon
  <2>4. c \in Nat /\ c < SIGN
    BY <1>1, <2>1
  <2>5. sign + c \in Pattern
    BY <2>4, PatternOf
  <2>6. Chosen(sign, c, exact, tiny).flags \subseteq Flags
    BY DEF Chosen, Result, Flags
  <2>7. Chosen(sign, c, exact, tiny).bits = sign + c
    BY DEF Chosen, Result
  <2> QED
    BY <2>3, <2>5, <2>6, <2>7 DEF IsResult
<1> QED
  BY <1>3, <1>4

\* A signalling NaN can be made quiet.
LEMMA QuietTyped ==
  ASSUME NEW p \in Pattern, IsSnan(p)
  PROVE  p + QUIET \in Pattern
<1>1. PICK k \in Nat \ {0}, b \in Nat, g \in Nat, inf \in Nat :
        /\ k = QUIET /\ b = Bias /\ g = SIGN /\ inf = INF /\ HIDDEN = 2 * k
        /\ inf = (2 * b + 1) * (2 * k) /\ g = inf + 2 * k
  BY Format
<1>2. PICK a \in Nat : a = Abs(p) /\ a < g /\ inf < a
  BY <1>1, PatternParts DEF IsSnan, IsNan
<1>3. PICK r \in Nat : r = a - inf /\ a = inf + r /\ r < 2 * k
  BY <1>1, <1>2
<1>4. r < k
  <2>1. SUFFICES ASSUME r >= k PROVE FALSE
    OBVIOUS
  <2>2. PICK i \in Nat : i = r - k /\ i < k /\ r = k + i
    BY <1>3, <2>1
  <2>3. PICK y \in Nat : y = 2 * (2 * b + 1) + 1
    OBVIOUS
  <2>4. k * y = (2 * b + 1) * (2 * k) + k
    BY <2>3
  <2>5. a = k * y + i
    BY <1>1, <1>3, <2>2, <2>4
  <2>6. (a \div k) = y
    BY <2>2, <2>5, DividesOnce
  <2>7. y % 2 = 1
    BY <2>3
  <2>8. (Abs(p) \div QUIET) % 2 = 0
    BY DEF IsSnan
  <2> QED
    BY <1>1, <1>2, <2>6, <2>7, <2>8
<1>5. a + k \in Nat /\ a + k < SIGN
  BY <1>1, <1>3, <1>4
<1>6. Sign(p) \in {0, SIGN} /\ p = Sign(p) + a /\ Sign(p) + (a + k) \in Pattern
  BY <1>2, <1>5, PatternParts, PatternOf
<1>7. SIGN \in Int
  BY Format
<1>8. p + k = Sign(p) + (a + k)
  BY <1>6, <1>7
<1> QED
  BY <1>1, <1>6, <1>8

-----------------------------------------------------------------------------
(* nc_fp32_add() and nc_fp32_div() return what IEEE 754 asks for. *)

LEMMA NanCorrect ==
  ASSUME NEW a, NEW b, IsNan(a) \/ IsNan(b)
  PROVE  NanResult(a, b) = RefNan(a, b)
<1>1. (IsSnan(a) => IsNan(a)) /\ (IsSnan(b) => IsNan(b))
  BY DEF IsSnan
<1>2. CASE IsSnan(a)
  BY <1>2 DEF NanResult, RefNan
<1>3. CASE ~IsSnan(a) /\ IsSnan(b)
  BY <1>3 DEF NanResult, RefNan
<1>4. CASE ~IsSnan(a) /\ ~IsSnan(b)
  BY <1>4 DEF NanResult, RefNan
<1> QED
  BY <1>2, <1>3, <1>4

LEMMA NanTyped ==
  ASSUME NEW a \in Pattern, NEW b \in Pattern
  PROVE  IsResult(RefNan(a, b))
<1>1. PICK order \in Pattern : order = IF IsSnan(a) \/ (IsNan(a) /\ ~IsSnan(b)) THEN a ELSE b
  OBVIOUS
<1>2. IsSnan(order) => order + QUIET \in Pattern
  BY QuietTyped
<1>3. RefNan(a, b) = Result(IF IsSnan(order) THEN order + QUIET ELSE order,
                            IF IsSnan(a) \/ IsSnan(b) THEN {IOC} ELSE {})
  BY <1>1 DEF RefNan
<1>4. RefNan(a, b).bits \in Pattern
  BY <1>2, <1>3 DEF Result
<1>5. RefNan(a, b).flags \subseteq Flags
  BY <1>3 DEF Result, Flags
<1> QED
  BY <1>4, <1>5 DEF IsResult

\* A number: not a NaN.
LEMMA NumberParts ==
  ASSUME NEW p \in Pattern, ~IsNan(p)
  PROVE  Abs(p) <= INF /\ (Finite(p) <=> Abs(p) # INF)
<1>1. Abs(p) \in Nat /\ INF \in Nat
  BY PatternParts, Format
<1> QED
  BY <1>1 DEF IsNan, Finite

LEMMA ZeroMagnitude == Magnitude(0) = 0 /\ INF # 0
<1>1. PICK h \in Nat \ {0} : h = HIDDEN
  BY Format
<1>2. (0 \div h) = 0 /\ (0 % h) = 0
  BY DividesOnce
<1> QED
  BY <1>1, <1>2, Format DEF Magnitude

\* What RefAdd makes of a finite sum in sign and magnitude.
LEMMA RefAddFinite ==
  ASSUME NEW mode, NEW a, NEW b, Finite(a), Finite(b), NEW n \in Nat, NEW sign \in {0, SIGN},
         Signifies(Signed(a) + Signed(b), sign, n), ~(Abs(a) = 0 /\ Sign(a) = Sign(b) /\ n = 0)
  PROVE  RefAdd(mode, a, b) = Delivered(mode, sign, n)
<1>1. PICK z \in Int, g \in Nat \ {0} :
        z = Signed(a) + Signed(b) /\ Signifies(z, sign, n) /\ g = SIGN
  BY Format DEF Signifies
<1>2. z = 0 <=> n = 0
  BY <1>1 DEF Signifies
<1>3. z > 0 => sign = 0 /\ n = z
  BY <1>1 DEF Signifies
<1>4. z < 0 => sign = SIGN /\ n = -z
  BY <1>1 DEF Signifies
<1>5. CASE z = 0
  BY <1>1, <1>2, <1>5 DEF RefAdd, Delivered, ExactZero
<1>6. CASE z # 0
  <2>1. RefAdd(mode, a, b) = IF z > 0 THEN Rounded(mode, 0, z, 1) ELSE Rounded(mode, SIGN, -z, 1)
    BY <1>1, <1>6 DEF RefAdd
  <2>2. Delivered(mode, sign, n) = Rounded(mode, sign, n, 1)
    BY <1>2, <1>6 DEF Delivered
  <2>3. z > 0 \/ z < 0
    BY <1>6
  <2> QED
    BY <1>3, <1>4, <2>1, <2>2, <2>3
<1> QED
  BY <1>5, <1>6

LEMMA DefaultNan ==
  IsResult(Result(INF + QUIET, {IOC}))
<1>1. INF + QUIET \in Nat /\ INF + QUIET < 2 * SIGN /\ SIGN \in Nat
  BY Format
<1>2. INF + QUIET \in Pattern
  BY <1>1 DEF Pattern
<1> QED
  BY <1>2 DEF IsResult, Result, Flags

LEMMA PlainTyped ==
  ASSUME NEW p \in Pattern
  PROVE  IsResult(Result(p, {})) /\ IsResult(Result(p, {DZC}))
BY DEF IsResult, Result, Flags

LEMMA ZeroTyped ==
  ASSUME NEW mode
  PROVE  IsResult(ExactZero(mode))
<1>1. 0 \in Pattern /\ SIGN \in Pattern
  BY Format DEF Pattern
<1> QED
  BY <1>1, PlainTyped DEF ExactZero

LEMMA DeliveredTyped ==
  ASSUME NEW mode, NEW sign \in {0, SIGN}, NEW n \in Nat
  PROVE  IsResult(Delivered(mode, sign, n))
<1>1. 1 \in Nat \ {0}
  OBVIOUS
<1>2. IsResult(Rounded(mode, sign, n, 1))
  BY <1>1, RoundedTyped
<1> QED
  BY <1>2, ZeroTyped DEF Delivered

\* An operand that is zero leaves the other one.
LEMMA AddZero ==
  ASSUME NEW mode, NEW a \in Pattern, Abs(a) <= INF, Abs(a) # INF, Abs(a) # 0
  PROVE  /\ Delivered(mode, Sign(a), Magnitude(Abs(a))) = Result(a, {})
         /\ Magnitude(Abs(a)) \in Nat \ {0}
<1>1. PICK p \in Nat : p = Abs(a) /\ p < INF /\ p # 0 /\ a = Sign(a) + p
  BY PatternParts, Format
<1>2. PICK n \in Nat \ {0} : n = Magnitude(p)
  BY <1>1, MagnitudePositive
<1>3. Rounded(mode, Sign(a), n, 1) = Result(Sign(a) + p, {})
  BY <1>1, <1>2, RoundedExact
<1> QED
  BY <1>1, <1>2, <1>3 DEF Delivered

LEMMA AddNumbers ==
  ASSUME NEW mode, NEW a \in Pattern, NEW b \in Pattern, Abs(a) <= INF, Abs(b) <= INF,
         Abs(a) # INF, Abs(b) # INF
  PROVE  \E out : out = RefAdd(mode, a, b) /\ IsResult(out) /\
           out = IF Abs(a) = 0 /\ Abs(b) = 0
                   THEN Result(IF Sign(a) = Sign(b) THEN Sign(a)
                               ELSE IF mode = RM THEN SIGN ELSE 0, {})
                 ELSE IF Abs(a) = 0 THEN Result(b, {})
                 ELSE IF Abs(b) = 0 THEN Result(a, {})
                 ELSE AddFinite(mode, a, b)
<1>1. Finite(a) /\ Finite(b)
  <2>1. Abs(a) \in Nat /\ Abs(b) \in Nat /\ INF \in Nat
    BY PatternParts, Format
  <2> QED
    BY <2>1 DEF Finite
<1>2. /\ Sign(a) \in {0, SIGN} /\ Sign(b) \in {0, SIGN}
  BY PatternParts
<1>3. PICK na \in Nat, nb \in Nat :
        /\ na = Magnitude(Abs(a)) /\ nb = Magnitude(Abs(b))
        /\ Signifies(Signed(a), Sign(a), na) /\ Signifies(Signed(b), Sign(b), nb)
  BY SignedIs
<1>4. CASE Abs(a) = 0 /\ Abs(b) = 0
  <2>1. Signed(a) = 0 /\ Signed(b) = 0
    BY <1>3, <1>4, ZeroMagnitude DEF Signifies
  <2>2. RefAdd(mode, a, b) = Result(IF Sign(a) = Sign(b) THEN Sign(a)
                                    ELSE IF mode = RM THEN SIGN ELSE 0, {})
    BY <1>1, <1>4, <2>1 DEF RefAdd
  <2>3. 0 \in Pattern /\ SIGN \in Pattern
    BY Format DEF Pattern
  <2>4. IsResult(RefAdd(mode, a, b))
    BY <1>2, <2>2, <2>3, PlainTyped
  <2> QED
    BY <1>4, <2>2, <2>4
<1>5. CASE Abs(a) = 0 /\ Abs(b) # 0
  <2>1. Signed(a) = 0
    BY <1>3, <1>5, ZeroMagnitude DEF Signifies
  <2>2. Signifies(Signed(a) + Signed(b), Sign(b), nb)
    BY <1>3, <2>1 DEF Signifies
  <2>3. Delivered(mode, Sign(b), nb) = Result(b, {}) /\ nb # 0
    BY <1>3, <1>5, AddZero
  <2>4. RefAdd(mode, a, b) = Result(b, {})
    BY <1>1, <1>2, <2>2, <2>3, RefAddFinite
  <2> QED
    BY <1>5, <2>4, PlainTyped
<1>6. CASE Abs(a) # 0 /\ Abs(b) = 0
  <2>1. Signed(b) = 0
    BY <1>3, <1>6, ZeroMagnitude DEF Signifies
  <2>2. Signifies(Signed(a) + Signed(b), Sign(a), na)
    BY <1>3, <2>1 DEF Signifies
  <2>3. Delivered(mode, Sign(a), na) = Result(a, {}) /\ na # 0
    BY <1>3, <1>6, AddZero
  <2>4. RefAdd(mode, a, b) = Result(a, {})
    BY <1>1, <1>2, <1>6, <2>2, <2>3, RefAddFinite
  <2> QED
    BY <1>6, <2>4, PlainTyped
<1>7. CASE Abs(a) # 0 /\ Abs(b) # 0
  <2>1. PICK n \in Nat, sign \in {0, SIGN} :
          /\ Signifies(Signed(a) + Signed(b), sign, n)
          /\ AddFinite(mode, a, b) = Delivered(mode, sign, n)
    BY <1>7, AddFiniteRounds
  <2>2. RefAdd(mode, a, b) = Delivered(mode, sign, n)
    BY <1>1, <1>7, <2>1, RefAddFinite
  <2>3. IsResult(Delivered(mode, sign, n))
    BY DeliveredTyped
  <2> QED
    BY <1>7, <2>1, <2>2, <2>3
<1> QED
  BY <1>4, <1>5, <1>6, <1>7

LEMMA AddCorrect ==
  ASSUME NEW mode, NEW a \in Pattern, NEW b \in Pattern
  PROVE  Add(mode, a, b) = Correct("FADD", mode, a, b) /\ IsResult(Add(mode, a, b))
<1>1. CASE IsNan(a) \/ IsNan(b)
  <2>1. Add(mode, a, b) = NanResult(a, b) /\ Correct("FADD", mode, a, b) = RefNan(a, b)
    BY <1>1 DEF Add, Correct
  <2> QED
    BY <1>1, <2>1, NanCorrect, NanTyped
<1>2. CASE ~IsNan(a) /\ ~IsNan(b)
  <2>1. /\ Abs(a) <= INF /\ (Finite(a) <=> Abs(a) # INF)
        /\ Abs(b) <= INF /\ (Finite(b) <=> Abs(b) # INF) /\ INF # 0
    BY <1>2, NumberParts, ZeroMagnitude
  <2>2. CASE Abs(a) = INF /\ Abs(b) = INF /\ Sign(a) # Sign(b)
    <3>1. Add(mode, a, b) = Result(INF + QUIET, {IOC})
      BY <1>2, <2>1, <2>2 DEF Add
    <3>2. Correct("FADD", mode, a, b) = Result(INF + QUIET, {IOC})
      BY <1>2, <2>2 DEF Correct, Undefined
    <3> QED
      BY <3>1, <3>2, DefaultNan
  <2>3. CASE ~(Abs(a) = INF /\ Abs(b) = INF /\ Sign(a) # Sign(b))
    <3>1. Correct("FADD", mode, a, b) = RefAdd(mode, a, b)
      BY <1>2, <2>3 DEF Correct, Undefined
    <3>2. CASE Abs(a) = INF
      <4>1. Add(mode, a, b) = Result(a, {})
        BY <1>2, <2>1, <2>3, <3>2 DEF Add
      <4>2. RefAdd(mode, a, b) = Result(a, {})
        BY <2>1, <3>2 DEF RefAdd
      <4> QED
        BY <3>1, <4>1, <4>2, PlainTyped
    <3>3. CASE Abs(a) # INF /\ Abs(b) = INF
      <4>1. Add(mode, a, b) = Result(b, {})
        BY <1>2, <2>1, <3>3 DEF Add
      <4>2. RefAdd(mode, a, b) = Result(b, {})
        BY <2>1, <3>3 DEF RefAdd
      <4> QED
        BY <3>1, <4>1, <4>2, PlainTyped
    <3>4. CASE Abs(a) # INF /\ Abs(b) # INF
      <4>1. PICK out : out = RefAdd(mode, a, b) /\ IsResult(out) /\
              out = IF Abs(a) = 0 /\ Abs(b) = 0
                      THEN Result(IF Sign(a) = Sign(b) THEN Sign(a)
                                  ELSE IF mode = RM THEN SIGN ELSE 0, {})
                    ELSE IF Abs(a) = 0 THEN Result(b, {})
                    ELSE IF Abs(b) = 0 THEN Result(a, {})
                    ELSE AddFinite(mode, a, b)
        BY <2>1, <3>4, AddNumbers
      <4>2. Add(mode, a, b) = out
        BY <1>2, <3>4, <4>1 DEF Add
      <4> QED
        BY <3>1, <4>1, <4>2
    <3> QED
      BY <3>2, <3>3, <3>4
  <2> QED
    BY <2>2, <2>3
<1> QED
  BY <1>1, <1>2

LEMMA DivCorrect ==
  ASSUME NEW mode, NEW a \in Pattern, NEW b \in Pattern
  PROVE  Div(mode, a, b) = Correct("FDIV", mode, a, b) /\ IsResult(Div(mode, a, b))
<1>1. CASE IsNan(a) \/ IsNan(b)
  <2>1. Div(mode, a, b) = NanResult(a, b) /\ Correct("FDIV", mode, a, b) = RefNan(a, b)
    BY <1>1 DEF Div, Correct
  <2> QED
    BY <1>1, <2>1, NanCorrect, NanTyped
<1>2. CASE ~IsNan(a) /\ ~IsNan(b)
  <2>1. /\ Abs(a) <= INF /\ (Finite(a) <=> Abs(a) # INF)
        /\ Abs(b) <= INF /\ (Finite(b) <=> Abs(b) # INF) /\ INF # 0
    BY <1>2, NumberParts, ZeroMagnitude
  <2>2. CASE Abs(a) = Abs(b) /\ Abs(a) \in {0, INF}
    <3>1. Div(mode, a, b) = Result(INF + QUIET, {IOC})
      BY <1>2, <2>1, <2>2 DEF Div
    <3>2. Correct("FDIV", mode, a, b) = Result(INF + QUIET, {IOC})
      BY <1>2, <2>2 DEF Correct, Undefined
    <3> QED
      BY <3>1, <3>2, DefaultNan
  <2>3. CASE ~(Abs(a) = Abs(b) /\ Abs(a) \in {0, INF})
    <3>1. Correct("FDIV", mode, a, b) = RefDiv(mode, a, b)
      BY <1>2, <2>3 DEF Correct, Undefined
    <3>2. PICK sign \in {0, SIGN} : sign = IF Sign(a) = Sign(b) THEN 0 ELSE SIGN
      OBVIOUS
    <3>3. sign + INF \in Pattern /\ sign \in Pattern /\ sign \in Int
      <4>1. 0 \in Nat /\ 0 < SIGN /\ INF \in Nat /\ INF < SIGN /\ SIGN \in Nat
        BY Format
      <4>2. sign + 0 \in Pattern /\ sign + INF \in Pattern
        BY <4>1, PatternOf
      <4>3. sign + 0 = sign /\ sign \in Int
        BY <4>1
      <4> QED
        BY <4>2, <4>3
    <3>4. CASE Abs(a) = INF
      <4>1. Div(mode, a, b) = Result(sign + INF, {})
        BY <1>2, <2>1, <2>3, <3>2, <3>4 DEF Div
      <4>2. RefDiv(mode, a, b) = Result(sign + INF, {})
        BY <2>1, <3>2, <3>4 DEF RefDiv
      <4> QED
        BY <3>1, <3>3, <4>1, <4>2, PlainTyped
    <3>5. CASE Abs(a) # INF /\ Abs(b) = INF
      <4>1. Div(mode, a, b) = Result(sign, {})
        BY <1>2, <2>1, <2>3, <3>2, <3>5 DEF Div
      <4>2. RefDiv(mode, a, b) = Result(sign, {})
        BY <2>1, <3>2, <3>5 DEF RefDiv
      <4> QED
        BY <3>1, <3>3, <4>1, <4>2, PlainTyped
    <3>6. CASE Abs(a) # INF /\ Abs(b) # INF /\ Abs(b) = 0
      <4>1. Div(mode, a, b) = Result(sign + INF, {DZC})
        BY <1>2, <2>1, <2>3, <3>2, <3>6 DEF Div
      <4>2. RefDiv(mode, a, b) = Result(sign + INF, {DZC})
        BY <2>1, <2>3, <3>2, <3>6 DEF RefDiv
      <4> QED
        BY <3>1, <3>3, <4>1, <4>2, PlainTyped
    <3>7. CASE Abs(a) # INF /\ Abs(b) # INF /\ Abs(b) # 0 /\ Abs(a) = 0
      <4>1. Div(mode, a, b) = Result(sign, {})
        BY <1>2, <2>1, <2>3, <3>2, <3>7 DEF Div
      <4>2. RefDiv(mode, a, b) = Result(sign, {})
        BY <2>1, <2>3, <3>2, <3>7 DEF RefDiv
      <4> QED
        BY <3>1, <3>3, <4>1, <4>2, PlainTyped
    <3>8. CASE Abs(a) # INF /\ Abs(b) # INF /\ Abs(b) # 0 /\ Abs(a) # 0
      <4>1. Div(mode, a, b) = DivFinite(mode, sign, a, b)
        BY <1>2, <2>1, <2>3, <3>2, <3>8 DEF Div
      <4>2. PICK n, d : n = Magnitude(Abs(a)) * Pow2[FBits - EMin] /\ d = Magnitude(Abs(b))
        OBVIOUS
      <4>3. n \in Nat /\ d \in Nat \ {0}
        <5>1. Abs(a) \in Nat /\ Abs(b) \in Nat /\ FBits - EMin \in Nat
          BY PatternParts, Format
        <5>2. PICK k \in Nat, m \in Nat : k = Magnitude(Abs(a)) /\ m = Pow2[FBits - EMin]
          BY <3>8, <5>1, MagnitudePositive, Pow2Typed
        <5>3. d \in Nat \ {0}
          BY <3>8, <4>2, <5>1, MagnitudePositive
        <5> QED
          BY <4>2, <5>2, <5>3
      <4>4. DivFinite(mode, sign, a, b) = Rounded(mode, sign, n, d)
        BY <3>3, <3>8, <4>2, DivFiniteRounds
      <4>5. Magnitudes[Abs(a)] = Magnitude(Abs(a)) /\ Magnitudes[Abs(b)] = Magnitude(Abs(b))
        BY <2>1, SignedIs
      <4>6. RefDiv(mode, a, b) = Rounded(mode, sign, n, d)
        BY <2>1, <3>2, <3>8, <4>2, <4>5 DEF RefDiv
      <4>7. IsResult(Rounded(mode, sign, n, d))
        BY <4>3, RoundedTyped
      <4> QED
        BY <3>1, <4>1, <4>4, <4>6, <4>7
    <3> QED
      BY <3>4, <3>5, <3>6, <3>7, <3>8
  <2> QED
    BY <2>2, <2>3
<1> QED
  BY <1>1, <1>2

-----------------------------------------------------------------------------
(* The bits of a lane. *)

BitAt(n, i) == (n \div Pow2[i]) % 2 = 1
Spells(n, S) == \A i \in Nat : BitAt(n, i) <=> i \in S

LEMMA BitShifts ==
  ASSUME NEW n \in Nat, NEW b \in {0, 1}
  PROVE  /\ BitAt(2 * n + b, 0) <=> b = 1
         /\ \A i \in Nat : BitAt(2 * n + b, i + 1) <=> BitAt(n, i)
<1>1. PICK z \in Nat : z = 2 * n + b
  OBVIOUS
<1>2. BitAt(z, 0) <=> b = 1
  <2>1. Pow2[0] = 1 /\ (z \div 1) = z
    BY Pow2Unfolds
  <2>2. z % 2 = b
    BY <1>1
  <2> QED
    BY <2>1, <2>2 DEF BitAt
<1>3. ASSUME NEW i \in Nat PROVE BitAt(z, i + 1) <=> BitAt(n, i)
  <2>1. PICK p \in Nat \ {0}, t \in Nat \ {0} : p = Pow2[i] /\ t = Pow2[i + 1] /\ t = 2 * p
    BY Pow2Typed, Pow2Unfolds
  <2>2. PICK q \in Nat, r \in Nat : q = (n \div p) /\ r = (n % p) /\ r < p /\ n = p * q + r
    BY Divided
  <2>3. PICK w \in Nat : w = 2 * r + b /\ w < t
    <3>1. r < p
      BY <2>2
    <3> QED
      BY <2>1, <3>1
  <2>4. z = t * q + w
    <3>1. PICK y \in Nat : y = p * q
      OBVIOUS
    <3>2. t * q = 2 * y
      BY <2>1, <3>1
    <3>3. n = y + r
      BY <2>2, <3>1
    <3> QED
      BY <1>1, <2>3, <3>2, <3>3
  <2>5. (z \div t) = q
    BY <2>3, <2>4, DividesOnce
  <2> QED
    BY <2>1, <2>2, <2>5 DEF BitAt
<1> QED
  BY <1>1, <1>2, <1>3

\* Every set of bits is the bits of a number.
LEMMA SpellsExist ==
  \A k \in Nat : \A S \in SUBSET (0..(k - 1)) : \E n \in Nat : n < Pow2[k] /\ Spells(n, S)
<1> DEFINE T == {k \in Nat : \A S \in SUBSET (0..(k - 1)) :
                               \E n \in Nat : n < Pow2[k] /\ Spells(n, S)}
<1>1. 0 \in T
  <2>1. ASSUME NEW S \in SUBSET (0..(0 - 1)) PROVE 0 < Pow2[0] /\ Spells(0, S)
    <3>1. S = {}
      BY <2>1
    <3>2. ASSUME NEW i \in Nat PROVE ~BitAt(0, i)
      <4>1. PICK p \in Nat \ {0} : p = Pow2[i]
        BY Pow2Typed
      <4>2. (0 \div p) = 0
        BY DividesOnce
      <4> QED
        BY <4>1, <4>2 DEF BitAt
    <3> QED
      BY <3>1, <3>2, Pow2Unfolds DEF Spells
  <2> QED
    BY <2>1
<1>2. ASSUME NEW k \in Nat, k \in T PROVE k + 1 \in T
  <2>1. ASSUME NEW S \in SUBSET (0..((k + 1) - 1))
        PROVE  \E n \in Nat : n < Pow2[k + 1] /\ Spells(n, S)
    <3>1. PICK R \in SUBSET (0..(k - 1)) : \A i \in Nat : i \in R <=> i + 1 \in S
      <4>1. {i \in 0..(k - 1) : i + 1 \in S} \in SUBSET (0..(k - 1))
        OBVIOUS
      <4>2. \A i \in Nat : i \in {j \in 0..(k - 1) : j + 1 \in S} <=> i + 1 \in S
        OBVIOUS
      <4> QED
        BY <4>1, <4>2
    <3>2. PICK m \in Nat : m < Pow2[k] /\ Spells(m, R)
      BY <1>2, <3>1
    <3>3. PICK b \in {0, 1} : b = 1 <=> 0 \in S
      OBVIOUS
    <3>4. PICK n \in Nat : n = 2 * m + b
      OBVIOUS
    <3>5. /\ BitAt(n, 0) <=> b = 1
          /\ \A i \in Nat : BitAt(n, i + 1) <=> BitAt(m, i)
      BY <3>4, BitShifts
    <3>6. n < Pow2[k + 1]
      <4>1. PICK p \in Nat : p = Pow2[k] /\ Pow2[k + 1] = 2 * p
        BY Pow2Typed, Pow2Unfolds
      <4> QED
        BY <3>2, <3>4, <4>1
    <3>7. ASSUME NEW i \in Nat PROVE BitAt(n, i) <=> i \in S
      <4>1. CASE i = 0
        BY <3>3, <3>5, <4>1
      <4>2. CASE i # 0
        <5>1. PICK j \in Nat : i = j + 1
          <6>1. i - 1 \in Nat /\ i = (i - 1) + 1
            BY <4>2
          <6> QED
            BY <6>1
        <5> QED
          BY <3>1, <3>2, <3>5, <5>1 DEF Spells
      <4> QED
        BY <4>1, <4>2
    <3> QED
      BY <3>6, <3>7 DEF Spells
  <2> QED
    BY <2>1
<1> HIDE DEF T
<1>3. \A k \in Nat : k \in T
  BY <1>1, <1>2, Induction
<1> QED
  BY <1>3 DEF T

LEMMA NumberSpells ==
  ASSUME NEW S \in SUBSET (0..(LaneBits - 1))
  PROVE  Number(S) \in Pattern /\ Bits(Number(S)) = S
<1>1. LaneBits \in Nat /\ LaneMod = Pow2[LaneBits] /\ LaneMod \in Nat /\ Pattern = 0..(LaneMod - 1)
  <2>1. EBits + FBits \in Nat
    BY Format
  <2>2. Pow2[(EBits + FBits) + 1] = 2 * Pow2[EBits + FBits]
    BY <2>1, Pow2Unfolds
  <2>3. SIGN \in Nat
    BY Format
  <2> QED
    BY <2>1, <2>2, <2>3 DEF LaneBits, LaneMod, SIGN, Pattern
<1>2. PICK n \in Nat : n < Pow2[LaneBits] /\ Spells(n, S)
  BY <1>1, SpellsExist
<1>3. n \in 0..(LaneMod - 1)
  BY <1>1, <1>2
<1>4. Bits(n) = S
  <2>1. Bits(n) = {i \in 0..(LaneBits - 1) : BitAt(n, i)}
    BY Zenon DEF Bits, BitAt
  <2>2. \A i \in 0..(LaneBits - 1) : BitAt(n, i) <=> i \in S
    BY <1>1, <1>2 DEF Spells
  <2> QED
    BY <2>1, <2>2
<1>5. \E m \in 0..(LaneMod - 1) : Bits(m) = S
  BY <1>3, <1>4
<1>6. Number(S) \in 0..(LaneMod - 1) /\ Bits(Number(S)) = S
  BY <1>5 DEF Number
<1> QED
  BY <1>1, <1>6

-----------------------------------------------------------------------------
(* Lanes. *)

Lanes(w) == [1..w -> Pattern]

LEMMA LanesAreSeq ==
  ASSUME NEW w \in Nat, NEW s
  PROVE  s \in Lanes(w) <=> s \in Seq(Pattern) /\ Len(s) = w
<1>1. ASSUME s \in Lanes(w) PROVE s \in Seq(Pattern) /\ Len(s) = w
  <2>1. s \in Seq(Pattern)
    BY <1>1, SeqDef DEF Lanes
  <2>2. Len(s) \in Nat /\ DOMAIN s = 1..Len(s)
    BY <2>1, LenProperties
  <2>3. DOMAIN s = 1..w
    BY <1>1 DEF Lanes
  <2>4. PICK l \in Nat : l = Len(s) /\ 1..l = 1..w
    BY <2>2, <2>3
  <2>5. l = w
    BY <2>4
  <2> QED
    BY <2>1, <2>4, <2>5
<1>2. ASSUME s \in Seq(Pattern), Len(s) = w PROVE s \in Lanes(w)
  BY <1>2, LenProperties DEF Lanes
<1> QED
  BY <1>1, <1>2

LEMMA LanesConcat ==
  ASSUME NEW v \in Nat, NEW w \in Nat, NEW s \in Lanes(v), NEW t \in Lanes(w)
  PROVE  s \o t \in Lanes(v + w)
<1>1. s \in Seq(Pattern) /\ Len(s) = v /\ t \in Seq(Pattern) /\ Len(t) = w
  BY LanesAreSeq
<1>2. s \o t \in Seq(Pattern) /\ Len(s \o t) = v + w
  BY <1>1, ConcatProperties
<1>3. v + w \in Nat
  OBVIOUS
<1> QED
  BY <1>2, <1>3, LanesAreSeq

LEMMA LanesPart ==
  ASSUME NEW w \in Nat, NEW s \in Lanes(w), NEW m \in Nat, NEW k \in Nat, 1 <= m, m <= k, k <= w
  PROVE  SubSeq(s, m, k) \in Lanes((k - m) + 1)
<1>1. \A i \in m..k : s[i] \in Pattern
  BY DEF Lanes
<1>2. SubSeq(s, m, k) \in Seq(Pattern) /\ Len(SubSeq(s, m, k)) = k - m + 1
  BY <1>1, SubSeqProperties
<1>3. (k - m) + 1 \in Nat
  OBVIOUS
<1> QED
  BY <1>2, <1>3, LanesAreSeq

LEMMA LanesOf ==
  /\ Pair = Lanes(2) /\ Quad = Lanes(4)
  /\ 0 \in Pattern /\ XZero \in Pair
  /\ \A p \in Pattern : <<p>> \in Lanes(1)
  /\ \A p, q \in Pattern : <<p, q>> \in Pair
  /\ \A p, q, r, s \in Pattern : <<p, q, r, s>> \in Quad
<1>1. 0 \in Pattern
  BY Format DEF Pattern
<1>2. \A p \in Pattern : <<p>> \in Lanes(1)
  BY DEF Lanes
<1>3. \A p, q \in Pattern : <<p, q>> \in [1..2 -> Pattern]
  OBVIOUS
<1>4. \A p, q, r, s \in Pattern : <<p, q, r, s>> \in [1..4 -> Pattern]
  OBVIOUS
<1> QED
  BY <1>1, <1>2, <1>3, <1>4 DEF Pair, Quad, Lanes, XZero

LEMMA PairJoins ==
  ASSUME NEW s \in Pair, NEW t \in Pair
  PROVE  s \o t \in Quad
<1>1. s \o t \in Lanes(2 + 2)
  BY LanesOf, LanesConcat
<1> QED
  BY <1>1, LanesOf

LEMMA QuadHalves ==
  ASSUME NEW s \in Quad
  PROVE  SubSeq(s, 1, 2) \in Pair /\ SubSeq(s, 3, 4) \in Pair
<1>1. SubSeq(s, 1, 2) \in Lanes((2 - 1) + 1) /\ SubSeq(s, 3, 4) \in Lanes((4 - 3) + 1)
  BY LanesOf, LanesPart
<1> QED
  BY <1>1, LanesOf

-----------------------------------------------------------------------------
(* The bank and the registers. *)

Registers == bank \in BankType /\ x \in [Reg -> Pair]

LEMMA SelectorSplits ==
  ASSUME NEW r \in Selector
  PROVE  (r = 31 \/ r \in Reg) /\ (r \in Reg => r # 31)
BY FpUnitAssumption DEF Selector

LEMMA XReadTyped ==
  ASSUME Registers, NEW r \in Selector
  PROVE  XRead(r) \in Pair
BY SelectorSplits, LanesOf DEF XRead, Registers

LEMMA XWriteTyped ==
  ASSUME Registers, NEW r \in Selector, NEW value \in Pair
  PROVE  /\ XWrite(r, value) \in [Reg -> Pair]
         /\ \A q \in Reg \ {r} : XWrite(r, value)[q] = x[q]
BY SelectorSplits DEF XWrite, Registers

LEMMA VWriteTyped ==
  ASSUME NEW b \in BankType, NEW r \in Selector, NEW value \in Quad
  PROVE  /\ [b EXCEPT !.v[r] = value] \in BankType
         /\ [b EXCEPT !.v[r] = value].v[r] = value
         /\ [b EXCEPT !.v[r] = value].fpcr = b.fpcr
         /\ [b EXCEPT !.v[r] = value].fpsr = b.fpsr
         /\ \A q \in Selector \ {r} : [b EXCEPT !.v[r] = value].v[q] = b.v[q]
BY DEF BankType

\* An executor fails without a trace, or writes dv and dx and nothing else.
Keeps(out, dv, dx) ==
  /\ out.result # "NEXT"
  /\ out.result # "OK" => out.bank = bank /\ out.x = x
  /\ out.result = "OK" =>
       /\ out.bank \in BankType /\ out.x \in [Reg -> Pair] /\ Represented(out.bank)
       /\ \A r \in Selector \ dv : out.bank.v[r] = bank.v[r]
       /\ \A r \in Reg \ dx : out.x[r] = x[r]

LEMMA RejectKeeps ==
  ASSUME NEW result, result \notin {"OK", "NEXT"}, NEW dv, NEW dx
  PROVE  Keeps(Reject(result), dv, dx)
BY DEF Keeps, Reject, Return

LEMMA AccessResults == \A present, c : AccessCheck(present, c) # "NEXT"
BY DEF AccessCheck

LEMMA CheckedKeeps ==
  ASSUME NEW decoded \in BOOLEAN, NEW access, access # "NEXT", NEW outcome, NEW dv, NEW dx,
         decoded /\ Represented(bank) => Keeps(outcome, dv, dx)
  PROVE  Keeps(Checked(decoded, access, bank, outcome), dv, dx)
<1>1. Keeps(Reject("UNSUPPORTED"), dv, dx) /\ Keeps(Reject("INVALID"), dv, dx)
  BY RejectKeeps
<1>2. access # "OK" => Keeps(Reject(access), dv, dx)
  BY RejectKeeps
<1>3. CASE ~decoded
  BY <1>1, <1>3 DEF Checked
<1>4. CASE decoded /\ access # "OK"
  BY <1>2, <1>4 DEF Checked
<1>5. CASE decoded /\ access = "OK" /\ ~Represented(bank)
  BY <1>1, <1>5 DEF Checked
<1>6. CASE decoded /\ access = "OK" /\ Represented(bank)
  BY <1>6 DEF Checked
<1> QED
  BY <1>3, <1>4, <1>5, <1>6

LEMMA VWriteKeeps ==
  ASSUME Registers, Represented(bank), NEW r \in Selector, NEW value \in Quad, NEW dx,
         NEW b, b = [bank EXCEPT !.v[r] = value]
  PROVE  Keeps(Return("OK", b, x), {r}, dx)
<1>1. /\ b \in BankType /\ b.fpcr = bank.fpcr /\ b.fpsr = bank.fpsr
      /\ \A q \in Selector \ {r} : b.v[q] = bank.v[q]
  BY VWriteTyped DEF Registers
<1>2. Represented(b)
  BY <1>1 DEF Represented
<1> QED
  BY <1>1, <1>2 DEF Keeps, Return, Registers

LEMMA XWriteKeeps ==
  ASSUME Registers, Represented(bank), NEW r \in Selector, NEW value \in Pair, NEW dv
  PROVE  Keeps(Return("OK", bank, XWrite(r, value)), dv, {r})
BY XWriteTyped DEF Keeps, Return, Registers

\* The flags fit into a lane.
LEMMA FlagsFit == Flags \subseteq 0..(LaneBits - 1)
<1>1. LaneBits \in Nat /\ LaneBits >= 5
  BY Format, FpUnitAssumption DEF LaneBits
<1>2. Flags = {0, 1, 2, 3, 4}
  BY DEF Flags, IOC, DZC, OFC, UFC, IXC
<1> QED
  BY <1>1, <1>2

LEMMA BitsFit == \A n : Bits(n) \subseteq 0..(LaneBits - 1)
BY DEF Bits

-----------------------------------------------------------------------------
(* The executors. *)

\* What one addition or division leaves in the bank b.
Rounds(b, op, d, n, m) ==
  LET ref == Correct(op, bank.fpcr, bank.v[n][1], bank.v[m][1])
  IN /\ b.v[d] = <<ref.bits, 0, 0, 0>>
     /\ Bits(b.fpsr) = Bits(bank.fpsr) \cup ref.flags
     /\ b.fpcr = bank.fpcr

LEMMA Binary32Rounds ==
  ASSUME Registers, NEW op \in {"FADD", "FDIV"}, NEW d \in Selector, NEW n \in Selector,
         NEW m \in Selector
  PROVE  /\ Rounds(Binary32(op, d, n, m).bank, op, d, n, m)
         /\ Represented(bank) => Keeps(Binary32(op, d, n, m), {d}, {})
         /\ Binary32(op, d, n, m).result = "OK"
<1>1. PICK p \in Pattern, q \in Pattern : p = bank.v[n][1] /\ q = bank.v[m][1]
  BY DEF Registers, BankType, Quad
<1>2. PICK mode : mode = bank.fpcr
  OBVIOUS
<1>3. PICK out : /\ out = IF op = "FDIV" THEN Div(mode, p, q) ELSE Add(mode, p, q)
                 /\ out = Correct(op, mode, p, q) /\ IsResult(out)
  <2>1. CASE op = "FDIV"
    BY <2>1, DivCorrect
  <2>2. CASE op = "FADD"
    BY <2>2, AddCorrect
  <2> QED
    BY <2>1, <2>2
<1>4. PICK value : value = <<out.bits, 0, 0, 0>>
  OBVIOUS
<1>5. value \in Quad
  BY <1>3, <1>4, LanesOf DEF IsResult
<1>6. PICK b : b = [bank EXCEPT !.v[d] = value]
  OBVIOUS
<1>7. /\ b \in BankType /\ b.v[d] = value /\ b.fpcr = bank.fpcr /\ b.fpsr = bank.fpsr
      /\ \A r \in Selector \ {d} : b.v[r] = bank.v[r]
  BY <1>5, <1>6, VWriteTyped DEF Registers
<1>8. PICK flags : flags = Bits(bank.fpsr) \cup out.flags
  OBVIOUS
<1>9. Number(flags) \in Pattern /\ Bits(Number(flags)) = flags
  <2>1. flags \in SUBSET (0..(LaneBits - 1))
    BY <1>3, <1>8, BitsFit, FlagsFit DEF IsResult
  <2> QED
    BY <2>1, NumberSpells
<1>10. PICK c : c = [b EXCEPT !.fpsr = Number(flags)]
  OBVIOUS
<1>11. /\ c \in BankType /\ c.v = b.v /\ c.fpcr = b.fpcr /\ c.fpsr = Number(flags)
  BY <1>7, <1>9, <1>10 DEF BankType
<1>12. Binary32(op, d, n, m) = Return("OK", c, x)
  <2>1. [WriteS(bank, d, out.bits) EXCEPT !.fpsr = Number(Bits(@) \cup out.flags)] = c
    <3>1. WriteS(bank, d, out.bits) = b
      BY <1>4, <1>6 DEF WriteS
    <3>2. [b EXCEPT !.fpsr = Number(Bits(@) \cup out.flags)]
            = [b EXCEPT !.fpsr = Number(Bits(b.fpsr) \cup out.flags)]
      BY <1>7 DEF BankType
    <3> QED
      BY <1>7, <1>8, <1>10, <3>1, <3>2
  <2> QED
    BY <1>1, <1>2, <1>3, <2>1 DEF Binary32
<1>13. Rounds(c, op, d, n, m)
  BY <1>1, <1>2, <1>3, <1>4, <1>7, <1>8, <1>9, <1>11 DEF Rounds
<1>14. ASSUME Represented(bank) PROVE Represented(c)
  BY <1>3, <1>7, <1>8, <1>9, <1>11, <1>14 DEF Represented, IsResult
<1> QED
  BY <1>7, <1>11, <1>12, <1>13, <1>14 DEF Keeps, Return, Registers

LEMMA Execute32Keeps ==
  ASSUME Registers, NEW i, Selects(i), i.m \in Selector, i.op \in ScalarOp
  PROVE  Keeps(Execute32(i), WritesV("step", i), WritesX("step", i))
<1>1. i.d \in Selector /\ i.n \in Selector
  BY DEF Selects
<1>2. CASE i.op \in {"FADD", "FDIV"}
  <2>1. WritesV("step", i) = {i.d} /\ WritesX("step", i) = {}
    BY <1>2 DEF WritesV, WritesX, ToX, ControlOp
  <2>2. Represented(bank) => Keeps(Binary32(i.op, i.d, i.n, i.m), {i.d}, {})
    BY <1>1, <1>2, Binary32Rounds
  <2>3. Keeps(Checked(TRUE, "OK", bank, Binary32(i.op, i.d, i.n, i.m)), {i.d}, {})
    BY <2>2, CheckedKeeps
  <2> QED
    BY <1>2, <2>1, <2>3 DEF Execute32
<1>3. CASE i.op = "FMOV_SW"
  <2>1. WritesV("step", i) = {i.d} /\ WritesX("step", i) = {}
    BY <1>3 DEF WritesV, WritesX, ToX, ControlOp
  <2>2. PICK value \in Quad : value = <<XRead(i.n)[1], 0, 0, 0>>
    <3>1. XRead(i.n)[1] \in Pattern
      BY <1>1, XReadTyped DEF Pair
    <3> QED
      BY <3>1, LanesOf
  <2>3. PICK b : b = [bank EXCEPT !.v[i.d] = value]
    OBVIOUS
  <2>4. Represented(bank) => Keeps(Return("OK", b, x), {i.d}, {})
    BY <1>1, <2>3, VWriteKeeps
  <2>5. Keeps(Checked(TRUE, "OK", bank, Return("OK", b, x)), {i.d}, {})
    BY <2>4, CheckedKeeps
  <2>6. Execute32(i) = Checked(TRUE, "OK", bank, Return("OK", b, x))
    BY <1>3, <2>2, <2>3 DEF Execute32, WriteS
  <2> QED
    BY <2>1, <2>5, <2>6
<1>4. CASE i.op = "FMOV_WS"
  <2>1. WritesV("step", i) = {} /\ WritesX("step", i) = {i.d}
    BY <1>4 DEF WritesV, WritesX, ToX, ControlOp
  <2>2. PICK value \in Pair : value = <<bank.v[i.n][1], 0>>
    <3>1. bank.v[i.n][1] \in Pattern
      BY <1>1 DEF Registers, BankType, Quad
    <3> QED
      BY <3>1, LanesOf
  <2>3. Represented(bank) => Keeps(Return("OK", bank, XWrite(i.d, value)), {}, {i.d})
    BY <1>1, XWriteKeeps
  <2>4. Keeps(Checked(TRUE, "OK", bank, Return("OK", bank, XWrite(i.d, value))), {}, {i.d})
    BY <2>3, CheckedKeeps
  <2>5. Execute32(i) = Checked(TRUE, "OK", bank, Return("OK", bank, XWrite(i.d, value)))
    BY <1>4, <2>2 DEF Execute32
  <2> QED
    BY <2>1, <2>4, <2>5
<1> QED
  BY <1>2, <1>3, <1>4 DEF ScalarOp

LEMMA WriteFpcrKeeps ==
  ASSUME Registers, Represented(bank), NEW value \in Pattern
  PROVE  Keeps(WriteFpcr(value), {}, {})
<1>1. CASE value >= 8
  <2>1. Keeps(Reject("UNSUPPORTED"), {}, {})
    BY RejectKeeps
  <2> QED
    BY <1>1, <2>1 DEF WriteFpcr
<1>2. CASE ~(value >= 8)
  <2>1. PICK k \in Pattern : k = value % 4 /\ k < 4
    <3>1. value \in Nat /\ SIGN \in Nat
      BY Format DEF Pattern
    <3>2. value % 4 \in 0..3 /\ value % 4 <= value
      BY <3>1
    <3> QED
      BY <3>1, <3>2 DEF Pattern
  <2>2. PICK b : b = [bank EXCEPT !.fpcr = k]
    OBVIOUS
  <2>3. b \in BankType /\ b.v = bank.v /\ b.fpcr = k /\ b.fpsr = bank.fpsr
    BY <2>2 DEF Registers, BankType
  <2>4. Represented(b)
    BY <2>1, <2>3 DEF Represented
  <2>5. WriteFpcr(value) = Return("OK", b, x)
    BY <1>2, <2>1, <2>2 DEF WriteFpcr
  <2> QED
    BY <2>3, <2>4, <2>5 DEF Keeps, Return, Registers
<1> QED
  BY <1>1, <1>2

LEMMA WriteFpsrKeeps ==
  ASSUME Registers, Represented(bank), NEW value \in Pattern
  PROVE  Keeps(WriteFpsr(value), {}, {})
<1>1. CASE ~(Bits(value) \subseteq Flags)
  <2>1. Keeps(Reject("UNSUPPORTED"), {}, {})
    BY RejectKeeps
  <2> QED
    BY <1>1, <2>1 DEF WriteFpsr
<1>2. CASE Bits(value) \subseteq Flags
  <2>1. PICK b : b = [bank EXCEPT !.fpsr = value]
    OBVIOUS
  <2>2. b \in BankType /\ b.v = bank.v /\ b.fpcr = bank.fpcr /\ b.fpsr = value
    BY <2>1 DEF Registers, BankType
  <2>3. Represented(b)
    BY <1>2, <2>2 DEF Represented
  <2>4. WriteFpsr(value) = Return("OK", b, x)
    BY <1>2, <2>1 DEF WriteFpsr
  <2> QED
    BY <2>2, <2>3, <2>4 DEF Keeps, Return, Registers
<1> QED
  BY <1>1, <1>2

LEMMA ExecuteControlKeeps ==
  ASSUME Registers, NEW i, Selects(i), i.op \in ControlOp, NEW c
  PROVE  Keeps(ExecuteControl(i, c), WritesV("step", i), WritesX("step", i))
<1>1. i.d \in Selector
  BY DEF Selects
<1>2. PICK access : access = AccessCheck(TRUE, c) /\ access # "NEXT"
  BY AccessResults
<1>3. PICK value \in Pattern : value = XRead(i.d)[1]
  BY <1>1, XReadTyped DEF Pair
<1>4. CASE i.op = "MRS_FPCR"
  <2>1. WritesV("step", i) = {} /\ WritesX("step", i) = {i.d}
    BY <1>4 DEF WritesV, WritesX, ToX, ControlOp
  <2>2. PICK pair \in Pair : pair = <<bank.fpcr, 0>>
    BY LanesOf DEF Registers, BankType
  <2>3. Represented(bank) => Keeps(Return("OK", bank, XWrite(i.d, pair)), {}, {i.d})
    BY <1>1, XWriteKeeps
  <2>4. Keeps(Checked(TRUE, access, bank, Return("OK", bank, XWrite(i.d, pair))), {}, {i.d})
    BY <1>2, <2>3, CheckedKeeps
  <2> QED
    BY <1>2, <1>4, <2>1, <2>2, <2>4 DEF ExecuteControl
<1>5. CASE i.op = "MRS_FPSR"
  <2>1. WritesV("step", i) = {} /\ WritesX("step", i) = {i.d}
    BY <1>5 DEF WritesV, WritesX, ToX, ControlOp
  <2>2. PICK pair \in Pair : pair = <<bank.fpsr, 0>>
    BY LanesOf DEF Registers, BankType
  <2>3. Represented(bank) => Keeps(Return("OK", bank, XWrite(i.d, pair)), {}, {i.d})
    BY <1>1, XWriteKeeps
  <2>4. Keeps(Checked(TRUE, access, bank, Return("OK", bank, XWrite(i.d, pair))), {}, {i.d})
    BY <1>2, <2>3, CheckedKeeps
  <2> QED
    BY <1>2, <1>5, <2>1, <2>2, <2>4 DEF ExecuteControl
<1>6. CASE i.op = "MSR_FPCR"
  <2>1. WritesV("step", i) = {} /\ WritesX("step", i) = {}
    BY <1>6 DEF WritesV, WritesX, ToX, ControlOp
  <2>2. Represented(bank) => Keeps(WriteFpcr(value), {}, {})
    BY WriteFpcrKeeps
  <2>3. Keeps(Checked(TRUE, access, bank, WriteFpcr(value)), {}, {})
    BY <1>2, <2>2, CheckedKeeps
  <2> QED
    BY <1>2, <1>3, <1>6, <2>1, <2>3 DEF ExecuteControl
<1>7. CASE i.op = "MSR_FPSR"
  <2>1. WritesV("step", i) = {} /\ WritesX("step", i) = {}
    BY <1>7 DEF WritesV, WritesX, ToX, ControlOp
  <2>2. Represented(bank) => Keeps(WriteFpsr(value), {}, {})
    BY WriteFpsrKeeps
  <2>3. Keeps(Checked(TRUE, access, bank, WriteFpsr(value)), {}, {})
    BY <1>2, <2>2, CheckedKeeps
  <2> QED
    BY <1>2, <1>3, <1>7, <2>1, <2>3 DEF ExecuteControl
<1> QED
  BY <1>4, <1>5, <1>6, <1>7 DEF ControlOp

\* A bitwise operation on bits of a lane gives bits of a lane.
LaneSet == SUBSET (0..(LaneBits - 1))

LEMMA ApplyFits ==
  ASSUME NEW op \in BitwiseOp, NEW d \in LaneSet, NEW l \in LaneSet, NEW r \in LaneSet
  PROVE  Apply(op, d, l, r) \in LaneSet
BY DEF Apply, BitwiseOp, SymDiff, LaneSet

LEMMA ExecuteBitwiseKeeps ==
  ASSUME Registers, NEW i, Selects(i), i.op \in BitwiseOp, NEW c
  PROVE  Keeps(ExecuteBitwise(i, c), WritesV("step", i), WritesX("step", i))
<1>1. i.d \in Selector
  BY DEF Selects
<1>2. WritesV("step", i) = {i.d} /\ WritesX("step", i) = {}
  BY DEF WritesV, WritesX, ToX, ControlOp, BitwiseOp
<1> DEFINE lane(k) == Number(Apply(i.op, Bits(bank.v[i.d][k]), Bits(bank.v[i.n][k]),
                                   Bits(bank.v[i.m][k])))
<1>3. \A k : lane(k) \in Pattern
  <2>1. \A k : Apply(i.op, Bits(bank.v[i.d][k]), Bits(bank.v[i.n][k]), Bits(bank.v[i.m][k]))
                 \in LaneSet
    <3> TAKE k
    <3>1. PICK d, l, r : /\ d = Bits(bank.v[i.d][k]) /\ l = Bits(bank.v[i.n][k])
                         /\ r = Bits(bank.v[i.m][k])
      OBVIOUS
    <3>2. d \in LaneSet /\ l \in LaneSet /\ r \in LaneSet
      BY <3>1, BitsFit DEF LaneSet
    <3>3. PICK op \in BitwiseOp : op = i.op
      OBVIOUS
    <3>4. Apply(op, d, l, r) \in LaneSet
      BY <3>2, ApplyFits
    <3> QED
      BY <3>1, <3>3, <3>4
  <2> QED
    BY <2>1, NumberSpells DEF LaneSet
<1>4. PICK low, high : /\ low = <<lane(1), lane(2)>>
                       /\ high = IF i.q THEN <<lane(3), lane(4)>> ELSE XZero
  OBVIOUS
<1>5. low \in Pair /\ high \in Pair
  <2> HIDE DEF lane
  <2>1. lane(1) \in Pattern /\ lane(2) \in Pattern /\ lane(3) \in Pattern /\ lane(4) \in Pattern
    BY <1>3
  <2>2. <<lane(1), lane(2)>> \in Pair /\ <<lane(3), lane(4)>> \in Pair
    BY <2>1, LanesOf
  <2> QED
    BY <1>4, <2>2, LanesOf
<1>6. low \o high \in Quad
  BY <1>5, PairJoins
<1>7. PICK b : b = [bank EXCEPT !.v[i.d] = low \o high]
  OBVIOUS
<1>8. Represented(bank) => Keeps(Return("OK", b, x), {i.d}, {})
  BY <1>1, <1>6, <1>7, VWriteKeeps
<1>9. Keeps(Checked(TRUE, AccessCheck(TRUE, c), bank, Return("OK", b, x)), {i.d}, {})
  BY <1>8, AccessResults, CheckedKeeps
<1>10. ExecuteBitwise(i, c) = Checked(TRUE, AccessCheck(TRUE, c), bank, Return("OK", b, x))
  BY <1>4, <1>7, Zenon DEF ExecuteBitwise, WriteQ
<1> QED
  BY <1>2, <1>9, <1>10

LEMMA ExecuteKeeps ==
  ASSUME Registers, NEW i, Selects(i), i.m \in Selector, SupportedOperation(i)
  PROVE  Keeps(Execute(i), WritesV("step", i), WritesX("step", i))
<1>1. CASE i.op \in ControlOp
  <2>1. Execute(i) = ExecuteControl(i, ctx)
    BY <1>1 DEF Execute, ControlOp, ScalarOp, BitwiseOp
  <2> QED
    BY <1>1, <2>1, ExecuteControlKeeps
<1>2. CASE i.op \in ScalarOp
  <2>1. Execute(i) = Execute32(i)
    BY <1>2 DEF Execute, ControlOp, ScalarOp, BitwiseOp
  <2> QED
    BY <1>2, <2>1, Execute32Keeps
<1>3. CASE i.op \in BitwiseOp
  <2>1. Execute(i) = ExecuteBitwise(i, ctx)
    BY <1>3 DEF Execute, ControlOp, ScalarOp, BitwiseOp
  <2> QED
    BY <1>3, <2>1, ExecuteBitwiseKeeps
<1> QED
  BY <1>1, <1>2, <1>3 DEF SupportedOperation

LEMMA TransferKeeps ==
  ASSUME Registers, NEW i, Selects(i), i.op \in TransferOp \cup {"UNKNOWN"}, NEW present, NEW c
  PROVE  Keeps(TransferExecute(i, present, c), WritesV("transfer", i), WritesX("transfer", i))
<1>1. i.d \in Selector /\ i.n \in Selector
  BY DEF Selects
<1>2. PICK access : access = AccessCheck(present, c) /\ access # "NEXT"
  BY AccessResults
<1>3. bank.v[i.d] \in Quad /\ bank.v[i.n] \in Quad
  BY <1>1 DEF Registers, BankType
<1>4. CASE i.op = "FMOV_DX"
  <2>1. WritesV("transfer", i) = {i.d} /\ WritesX("transfer", i) = {}
    BY <1>4 DEF WritesV, WritesX, ToX, ControlOp
  <2>2. PICK value \in Quad : value = XRead(i.n) \o XZero
    BY <1>1, XReadTyped, LanesOf, PairJoins
  <2>3. PICK b : b = [bank EXCEPT !.v[i.d] = value]
    OBVIOUS
  <2>4. Represented(bank) => Keeps(Return("OK", b, x), {i.d}, {})
    BY <1>1, <2>3, VWriteKeeps
  <2>5. Keeps(Checked(TRUE, access, bank, Return("OK", b, x)), {i.d}, {})
    BY <1>2, <2>4, CheckedKeeps
  <2>6. TransferExecute(i, present, c) = Checked(TRUE, access, bank, Return("OK", b, x))
    BY <1>2, <1>4, <2>2, <2>3 DEF TransferExecute, WriteD
  <2> QED
    BY <2>1, <2>5, <2>6
<1>5. CASE i.op = "FMOV_D1X"
  <2>1. WritesV("transfer", i) = {i.d} /\ WritesX("transfer", i) = {}
    BY <1>5 DEF WritesV, WritesX, ToX, ControlOp
  <2>2. PICK value \in Quad : value = SubSeq(bank.v[i.d], 1, 2) \o XRead(i.n)
    BY <1>1, <1>3, XReadTyped, QuadHalves, PairJoins
  <2>3. PICK b : b = [bank EXCEPT !.v[i.d] = value]
    OBVIOUS
  <2>4. Represented(bank) => Keeps(Return("OK", b, x), {i.d}, {})
    BY <1>1, <2>3, VWriteKeeps
  <2>5. Keeps(Checked(TRUE, access, bank, Return("OK", b, x)), {i.d}, {})
    BY <1>2, <2>4, CheckedKeeps
  <2>6. TransferExecute(i, present, c) = Checked(TRUE, access, bank, Return("OK", b, x))
    BY <1>2, <1>5, <2>2, <2>3 DEF TransferExecute, WriteQ
  <2> QED
    BY <2>1, <2>5, <2>6
<1>6. CASE i.op = "FMOV_XD"
  <2>1. WritesV("transfer", i) = {} /\ WritesX("transfer", i) = {i.d}
    BY <1>6 DEF WritesV, WritesX, ToX, ControlOp
  <2>2. PICK value \in Pair : value = SubSeq(bank.v[i.n], 1, 2)
    BY <1>3, QuadHalves
  <2>3. Represented(bank) => Keeps(Return("OK", bank, XWrite(i.d, value)), {}, {i.d})
    BY <1>1, XWriteKeeps
  <2>4. Keeps(Checked(TRUE, access, bank, Return("OK", bank, XWrite(i.d, value))), {}, {i.d})
    BY <1>2, <2>3, CheckedKeeps
  <2>5. TransferExecute(i, present, c)
          = Checked(TRUE, access, bank, Return("OK", bank, XWrite(i.d, value)))
    BY <1>2, <1>6, <2>2 DEF TransferExecute
  <2> QED
    BY <2>1, <2>4, <2>5
<1>7. CASE i.op = "FMOV_XD1"
  <2>1. WritesV("transfer", i) = {} /\ WritesX("transfer", i) = {i.d}
    BY <1>7 DEF WritesV, WritesX, ToX, ControlOp
  <2>2. PICK value \in Pair : value = SubSeq(bank.v[i.n], 3, 4)
    BY <1>3, QuadHalves
  <2>3. Represented(bank) => Keeps(Return("OK", bank, XWrite(i.d, value)), {}, {i.d})
    BY <1>1, XWriteKeeps
  <2>4. Keeps(Checked(TRUE, access, bank, Return("OK", bank, XWrite(i.d, value))), {}, {i.d})
    BY <1>2, <2>3, CheckedKeeps
  <2>5. TransferExecute(i, present, c)
          = Checked(TRUE, access, bank, Return("OK", bank, XWrite(i.d, value)))
    BY <1>2, <1>7, <2>2 DEF TransferExecute
  <2> QED
    BY <2>1, <2>4, <2>5
<1>8. CASE i.op = "UNKNOWN"
  <2>1. TransferExecute(i, present, c) = Reject("UNSUPPORTED")
    BY <1>8 DEF TransferExecute, Checked
  <2> QED
    BY <2>1, RejectKeeps
<1> QED
  BY <1>4, <1>5, <1>6, <1>7, <1>8 DEF TransferOp

\* An element, and an X register filled from it.
LEMMA ReadLaneTyped ==
  ASSUME Registers, NEW reg \in Selector, NEW w \in 1..2, NEW e, Within(e, w)
  PROVE  ReadLane(reg, e, w) \in Lanes(w)
<1>1. bank.v[reg] \in Lanes(4)
  BY LanesOf DEF Registers, BankType
<1>2. PICK k \in Nat : k = e * w /\ k + w <= 4
  BY DEF Within
<1>3. SubSeq(bank.v[reg], k + 1, k + w) \in Lanes(((k + w) - (k + 1)) + 1)
  <2>1. PICK m \in Nat, n \in Nat : m = k + 1 /\ n = k + w /\ 1 <= m /\ m <= n /\ n <= 4
    BY <1>2
  <2>2. SubSeq(bank.v[reg], m, n) \in Lanes((n - m) + 1)
    BY <1>1, <2>1, LanesPart
  <2> QED
    BY <2>1, <2>2
<1>4. ((k + w) - (k + 1)) + 1 = w
  OBVIOUS
<1> QED
  BY <1>2, <1>3, <1>4 DEF ReadLane

LEMMA Widened ==
  ASSUME NEW w \in 1..2, NEW value \in Lanes(w)
  PROVE  /\ (IF w = 2 THEN value ELSE value \o value) \in Pair
         /\ (IF w = 2 THEN value ELSE value \o <<0>>) \in Pair
         /\ w = 1 => SignExtended(value) \in Pair
<1>1. CASE w = 2
  BY <1>1, LanesOf
<1>2. CASE w = 1
  <2>1. value \in Lanes(1) /\ <<0>> \in Lanes(1)
    BY <1>2, LanesOf
  <2>2. value \o value \in Lanes(1 + 1) /\ value \o <<0>> \in Lanes(1 + 1)
    BY <2>1, LanesConcat
  <2>3. value[1] \in Pattern
    BY <2>1 DEF Lanes
  <2>4. LaneMod - 1 \in Pattern
    BY Format DEF LaneMod, Pattern
  <2>5. SignExtended(value) \in Pair
    BY <2>3, <2>4, LanesOf DEF SignExtended
  <2> QED
    BY <1>2, <2>2, <2>5, LanesOf
<1> QED
  BY <1>1, <1>2

\* The element that is read, whatever the form.
CopyValue(i) ==
  CASE i.op \in {"DUP_GENERAL", "INS_GENERAL"} -> SubSeq(XRead(i.n), 1, i.w)
    [] i.op = "INS_ELEMENT" -> ReadLane(i.n, i.from, i.w)
    [] OTHER -> ReadLane(i.n, i.lane, i.w)

LEMMA CopyValueTyped ==
  ASSUME Registers, NEW i, Selects(i), i.w \in 1..2, Within(i.lane, i.w), Within(i.from, i.w)
  PROVE  CopyValue(i) \in Lanes(i.w)
<1>1. PICK w \in 1..2 : w = i.w
  OBVIOUS
<1>2. i.n \in Selector
  BY DEF Selects
<1>3. CASE i.op \in {"DUP_GENERAL", "INS_GENERAL"}
  <2>1. XRead(i.n) \in Lanes(2)
    BY <1>2, XReadTyped, LanesOf
  <2>2. w \in Nat /\ 1 <= w /\ w <= 2 /\ (w - 1) + 1 = w
    OBVIOUS
  <2>3. SubSeq(XRead(i.n), 1, w) \in Lanes((w - 1) + 1)
    BY <2>1, <2>2, LanesPart
  <2>4. CopyValue(i) = SubSeq(XRead(i.n), 1, w)
    BY <1>1, <1>3 DEF CopyValue
  <2> QED
    BY <1>1, <2>2, <2>3, <2>4
<1>4. CASE i.op = "INS_ELEMENT"
  <2>1. CopyValue(i) = ReadLane(i.n, i.from, w)
    BY <1>1, <1>4 DEF CopyValue
  <2> QED
    BY <1>1, <1>2, <2>1, ReadLaneTyped
<1>5. CASE i.op \notin {"DUP_GENERAL", "INS_GENERAL", "INS_ELEMENT"}
  <2>1. CopyValue(i) = ReadLane(i.n, i.lane, w)
    BY <1>1, <1>5 DEF CopyValue
  <2> QED
    BY <1>1, <1>2, <2>1, ReadLaneTyped
<1> QED
  BY <1>3, <1>4, <1>5

LEMMA WriteLaneKeeps ==
  ASSUME Registers, Represented(bank), NEW reg \in Selector, NEW w \in 1..2, NEW e, Within(e, w),
         NEW value \in Lanes(w)
  PROVE  Keeps(Return("OK", WriteLane(reg, e, w, value), x), {reg}, {})
<1>1. PICK k \in Nat : k = e * w
  BY DEF Within
<1>2. PICK old \in Quad : old = bank.v[reg]
  BY DEF Registers, BankType
<1>3. PICK q : q = [j \in 1..4 |-> IF j \in (k + 1)..(k + w) THEN value[j - k] ELSE old[j]]
  OBVIOUS
<1>4. q \in Quad
  BY <1>2, <1>3 DEF Quad, Lanes
<1>5. PICK b : b = [bank EXCEPT !.v[reg] = q]
  OBVIOUS
<1>6. WriteLane(reg, e, w, value) = b
  BY <1>1, <1>2, <1>3, <1>5 DEF WriteLane, Registers, BankType
<1> QED
  BY <1>4, <1>5, <1>6, VWriteKeeps

LEMMA CopyKeeps ==
  ASSUME Registers, NEW i, Selects(i), i.w \in 1..2, Within(i.lane, i.w), Within(i.from, i.w),
         NEW present, NEW c
  PROVE  Keeps(CopyExecute(i, present, c), WritesV("copy", i), WritesX("copy", i))
<1>1. i.d \in Selector
  BY DEF Selects
<1>2. PICK access : access = AccessCheck(present, c) /\ access # "NEXT"
  BY AccessResults
<1>3. PICK w \in 1..2 : w = i.w
  OBVIOUS
<1>4. PICK value \in Lanes(w) : value = CopyValue(i)
  BY <1>3, CopyValueTyped
<1>5. PICK repeated, wide :
        /\ repeated = IF w = 2 THEN value ELSE value \o value
        /\ wide = IF w = 2 THEN value ELSE value \o <<0>>
  OBVIOUS
<1>6. repeated \in Pair /\ wide \in Pair /\ (w = 1 => SignExtended(value) \in Pair)
  BY <1>5, Widened
<1>7. CopyExecute(i, present, c) =
        Checked(CopyDecodes(i), access, bank,
          CASE i.op \in {"DUP_ELEMENT", "DUP_GENERAL"} ->
                 Return("OK", WriteQ(bank, i.d, repeated, IF i.q THEN repeated ELSE XZero), x)
            [] i.op \in {"INS_ELEMENT", "INS_GENERAL"} ->
                 Return("OK", WriteLane(i.d, i.lane, w, value), x)
            [] OTHER ->
                 Return("OK", bank, XWrite(i.d, IF i.op = "SMOV" THEN SignExtended(value)
                                                                 ELSE wide)))
  BY <1>2, <1>3, <1>4, <1>5 DEF CopyExecute, CopyValue
<1>8. PICK decoded \in BOOLEAN :
        /\ decoded <=> CopyDecodes(i)
        /\ \A outcome : Checked(CopyDecodes(i), access, bank, outcome)
                          = Checked(decoded, access, bank, outcome)
  BY DEF Checked
<1>9. CASE i.op \in {"DUP_ELEMENT", "DUP_GENERAL"}
  <2>1. WritesV("copy", i) = {i.d} /\ WritesX("copy", i) = {}
    BY <1>9 DEF WritesV, WritesX, ToX, ControlOp
  <2>2. PICK value4 \in Quad : value4 = repeated \o (IF i.q THEN repeated ELSE XZero)
    BY <1>6, LanesOf, PairJoins
  <2>3. PICK b : b = [bank EXCEPT !.v[i.d] = value4]
    OBVIOUS
  <2>4. Represented(bank) => Keeps(Return("OK", b, x), {i.d}, {})
    BY <1>1, <2>3, VWriteKeeps
  <2>5. Keeps(Checked(decoded, access, bank, Return("OK", b, x)), {i.d}, {})
    BY <1>2, <2>4, CheckedKeeps
  <2>6. CopyExecute(i, present, c) = Checked(CopyDecodes(i), access, bank, Return("OK", b, x))
    BY <1>7, <1>9, <2>2, <2>3 DEF WriteQ
  <2> QED
    BY <1>8, <2>1, <2>5, <2>6
<1>10. CASE i.op \in {"INS_ELEMENT", "INS_GENERAL"}
  <2>1. WritesV("copy", i) = {i.d} /\ WritesX("copy", i) = {}
    BY <1>10 DEF WritesV, WritesX, ToX, ControlOp
  <2>2. PICK b : b = WriteLane(i.d, i.lane, w, value)
    OBVIOUS
  <2>3. Represented(bank) => Keeps(Return("OK", b, x), {i.d}, {})
    BY <1>1, <1>3, <2>2, WriteLaneKeeps
  <2>4. Keeps(Checked(decoded, access, bank, Return("OK", b, x)), {i.d}, {})
    BY <1>2, <2>3, CheckedKeeps
  <2>5. CopyExecute(i, present, c) = Checked(CopyDecodes(i), access, bank, Return("OK", b, x))
    BY <1>7, <1>10, <2>2
  <2> QED
    BY <1>8, <2>1, <2>4, <2>5
<1>11. CASE i.op \in {"UMOV", "SMOV"}
  <2>1. WritesV("copy", i) = {} /\ WritesX("copy", i) = {i.d}
    BY <1>11 DEF WritesV, WritesX, ToX, ControlOp
  <2>2. PICK pair : pair = IF i.op = "SMOV" THEN SignExtended(value) ELSE wide
    OBVIOUS
  <2>3. decoded => pair \in Pair
    <3>1. decoded /\ i.op = "SMOV" => w = 1
      BY <1>3, <1>8 DEF CopyDecodes
    <3> QED
      BY <1>6, <2>2, <3>1
  <2>4. decoded /\ Represented(bank) => Keeps(Return("OK", bank, XWrite(i.d, pair)), {}, {i.d})
    BY <1>1, <2>3, XWriteKeeps
  <2>5. Keeps(Checked(decoded, access, bank, Return("OK", bank, XWrite(i.d, pair))), {}, {i.d})
    BY <1>2, <2>4, CheckedKeeps
  <2>6. CopyExecute(i, present, c)
          = Checked(CopyDecodes(i), access, bank, Return("OK", bank, XWrite(i.d, pair)))
    BY <1>7, <1>11, <2>2
  <2> QED
    BY <1>8, <2>1, <2>5, <2>6
<1>12. CASE i.op \notin {"DUP_ELEMENT", "DUP_GENERAL", "INS_ELEMENT", "INS_GENERAL", "UMOV", "SMOV"}
  <2>1. ~CopyDecodes(i)
    BY <1>12 DEF CopyDecodes
  <2>2. CopyExecute(i, present, c) = Reject("UNSUPPORTED")
    BY <1>7, <2>1 DEF Checked
  <2> QED
    BY <2>2, RejectKeeps
<1> QED
  BY <1>9, <1>10, <1>11, <1>12

-----------------------------------------------------------------------------
(* The calls. *)

\* The state a behaviour keeps to.
CpuType == [pc : Nat, retired : Nat, counter : Nat]
FpInv ==
  /\ program \in DOMAIN Scenario
  /\ Registers
  /\ sp \in Pair
  /\ mem \in [1..MemLanes -> Pattern]
  /\ cpu \in CpuType
  /\ ctx \in ContextType

\* What the calls of a behaviour carry.
LEMMA CallsTyped ==
  ASSUME NEW name \in DOMAIN Scenario
  PROVE  /\ \A i \in Scenario[name].steps : Selects(i) /\ i.m \in Selector
         /\ \A i \in Scenario[name].transfers :
              Selects(i) /\ i.op \in TransferOp \cup {"UNKNOWN"}
         /\ \A i \in Scenario[name].copies :
              Selects(i) /\ i.w \in 1..2 /\ Within(i.lane, i.w) /\ Within(i.from, i.w)
         /\ \A i \in Scenario[name].memories :
              i.n \in Selector /\ i.t \in Selector /\ i.offset \in Int
BY FpUnitAssumption, Zenon

LEMMA StartsTyped ==
  ASSUME NEW name \in DOMAIN Scenario
  PROVE  /\ Scenario[name].banks \subseteq BankType /\ Scenario[name].ctxs \subseteq ContextType
         /\ Scenario[name].xs \subseteq [Reg -> Pair] /\ Scenario[name].sps \subseteq Pair
         /\ Scenario[name].mem \in [1..MemLanes -> Pattern]
BY FpUnitAssumption, Zenon

LEMMA RegisterNames ==
  ASSUME Registers
  PROVE  DOMAIN bank.v = Selector /\ DOMAIN x = Reg
BY DEF Registers, BankType

\* The record of a call.
LEMMA CallRecorded ==
  ASSUME NEW service, NEW i, NEW status, Called(service, i, status)
  PROVE  /\ last'.service = service /\ last'.instr = i /\ last'.status = status
         /\ program' = program
BY DEF Called

\* What a call of the dispatcher executes, and the status it returns.
StepOut(i) == IF StepRefusal(i) = "none" THEN Execute(i) ELSE Reject("none")
StepStatus(i) ==
  CASE StepRefusal(i) # "none" -> StepRefusal(i)
    [] StepRefusal(i) = "none" /\ StepOut(i).result = "OK" -> "NEXT"
    [] OTHER -> "IMPLEMENTATION_GAP"

LEMMA RefusalNames ==
  ASSUME NEW i
  PROVE  /\ StepRefusal(i) \notin {"NEXT", "OK"}
         /\ StepRefusal(i) = "none" => SupportedOperation(i)
BY DEF StepRefusal

LEMMA StepStatusTells ==
  ASSUME NEW i
  PROVE  /\ StepStatus(i) # "OK"
         /\ StepStatus(i) = "NEXT" <=> StepRefusal(i) = "none" /\ StepOut(i).result = "OK"
<1>1. CASE StepRefusal(i) # "none"
  BY <1>1, RefusalNames DEF StepStatus
<1>2. CASE StepRefusal(i) = "none" /\ StepOut(i).result = "OK"
  BY <1>2 DEF StepStatus
<1>3. CASE StepRefusal(i) = "none" /\ StepOut(i).result # "OK"
  BY <1>3 DEF StepStatus
<1> QED
  BY <1>1, <1>2, <1>3

LEMMA StepOutKeeps ==
  ASSUME Registers, NEW i, Selects(i), i.m \in Selector
  PROVE  Keeps(StepOut(i), WritesV("step", i), WritesX("step", i))
<1>1. CASE StepRefusal(i) = "none"
  BY <1>1, RefusalNames, ExecuteKeeps DEF StepOut
<1>2. CASE StepRefusal(i) # "none"
  BY <1>2, RejectKeeps DEF StepOut
<1> QED
  BY <1>1, <1>2

LEMMA StepRounds ==
  ASSUME Registers, NEW i, Selects(i), i.m \in Selector, i.op \in {"FADD", "FDIV"},
         StepStatus(i) = "NEXT"
  PROVE  Rounds(StepOut(i).bank, i.op, i.d, i.n, i.m)
<1>1. StepOut(i) = Execute(i) /\ Execute(i).result = "OK"
  BY StepStatusTells DEF StepOut
<1>2. Execute(i) = Execute32(i)
  BY DEF Execute, ControlOp, ScalarOp, BitwiseOp
<1>3. PICK out : out = Binary32(i.op, i.d, i.n, i.m)
  OBVIOUS
<1>4. Execute32(i) = Checked(TRUE, "OK", bank, out)
  BY <1>3 DEF Execute32
<1>5. Checked(TRUE, "OK", bank, out) \in {Reject("INVALID"), out}
  BY DEF Checked
<1>6. Reject("INVALID").result # "OK"
  BY DEF Reject, Return
<1>7. StepOut(i) = out
  BY <1>1, <1>2, <1>4, <1>5, <1>6
<1>8. Rounds(out.bank, i.op, i.d, i.n, i.m)
  BY <1>3, Binary32Rounds DEF Selects
<1> QED
  BY <1>7, <1>8

\* The context after a status is committed.
LEMMA CommitTyped ==
  ASSUME ctx \in ContextType, cpu \in CpuType, NEW status, CommitStatus(status)
  PROVE  ctx' \in ContextType
<1>1. Target \in 1..2 /\ cpu.pc \in Nat
  BY DEF Target, ContextType, CpuType
<1> QED
  BY <1>1 DEF CommitStatus, ContextType

\* A call that keeps to its registers, and the counters with it, is whole.
LEMMA KeepsWhole ==
  ASSUME Registers, cpu \in CpuType,
         NEW service, service # "memory", NEW i, NEW out, NEW status,
         Keeps(out, WritesV(service, i), WritesX(service, i)),
         status \in {"NEXT", "OK"} <=> out.result = "OK",
         Called(service, i, status), bank' = out.bank, x' = out.x,
         UNCHANGED <<sp, mem>>,
         out.result # "OK" => cpu' = cpu,
         out.result = "OK" /\ service # "step" => cpu' = cpu,
         out.result = "OK" /\ service = "step" =>
           cpu' = [pc |-> cpu.pc + 4, retired |-> cpu.retired + 1, counter |-> cpu.counter + 1],
         service # "none"
  PROVE  /\ WholeStep
         /\ Registers' /\ cpu' \in CpuType
<1>1. last'.service = service /\ last'.instr = i /\ last'.status = status
  BY CallRecorded
<1>2. Succeeded <=> out.result = "OK"
  BY <1>1 DEF Succeeded
<1>3. DOMAIN bank.v = Selector /\ DOMAIN x = Reg
  BY RegisterNames
<1>4. CASE out.result # "OK"
  <2>1. bank' = bank /\ x' = x /\ cpu' = cpu
    BY <1>4 DEF Keeps
  <2>2. WholeStep
    BY <1>2, <1>4, <2>1 DEF WholeStep
  <2> QED
    BY <2>1, <2>2 DEF Registers
<1>5. CASE out.result = "OK"
  <2>1. /\ bank' \in BankType /\ x' \in [Reg -> Pair] /\ Represented(bank')
        /\ \A r \in Selector \ WritesV(service, i) : bank'.v[r] = bank.v[r]
        /\ \A r \in Reg \ WritesX(service, i) : x'[r] = x[r]
    BY <1>5 DEF Keeps
  <2>2. PICK step \in {0, 1} : step = IF service = "step" THEN 1 ELSE 0
    OBVIOUS
  <2>3. cpu' = [pc |-> cpu.pc + 4 * step, retired |-> cpu.retired + step,
                counter |-> cpu.counter + step]
    BY <1>5, <2>2 DEF CpuType
  <2>4. WholeStep
    BY <1>1, <1>2, <1>3, <1>5, <2>1, <2>2, <2>3 DEF WholeStep
  <2>5. cpu' \in CpuType
    BY <2>3 DEF CpuType
  <2> QED
    BY <2>1, <2>4, <2>5 DEF Registers
<1> QED
  BY <1>4, <1>5

LEMMA FpStepSteps ==
  ASSUME FpInv, NEW i \in Scenario[program].steps, FpStep(i)
  PROVE  FpInv' /\ WholeStep /\ RoundedStep
<1>1. Registers /\ cpu \in CpuType /\ ctx \in ContextType /\ program \in DOMAIN Scenario
  BY DEF FpInv
<1>2. Selects(i) /\ i.m \in Selector
  BY <1>1, CallsTyped
<1>3. PICK out, status : out = StepOut(i) /\ status = StepStatus(i)
  OBVIOUS
<1>4. /\ Called("step", i, status)
      /\ bank' = out.bank /\ x' = out.x
      /\ IF status = "NEXT"
           THEN /\ cpu' = [pc |-> cpu.pc + 4, retired |-> cpu.retired + 1,
                           counter |-> cpu.counter + 1]
                /\ UNCHANGED ctx
           ELSE CommitStatus(status) /\ UNCHANGED cpu
      /\ UNCHANGED <<sp, mem>>
  BY <1>3, Zenon DEF FpStep, StepOut, StepStatus
<1>5. Keeps(out, WritesV("step", i), WritesX("step", i))
  BY <1>1, <1>2, <1>3, StepOutKeeps
<1>6. /\ status \in {"NEXT", "OK"} <=> out.result = "OK"
      /\ status = "NEXT" <=> out.result = "OK"
  <2>1. CASE StepRefusal(i) = "none"
    BY <1>3, <2>1, StepStatusTells
  <2>2. CASE StepRefusal(i) # "none"
    <3>1. out.result = "none"
      BY <1>3, <2>2 DEF StepOut, Reject, Return
    <3> QED
      BY <1>3, <2>2, <3>1, StepStatusTells
  <2> QED
    BY <2>1, <2>2
<1>7. WholeStep /\ Registers' /\ cpu' \in CpuType
  <2>1. "step" # "memory" /\ "step" # "none"
    OBVIOUS
  <2> QED
    BY <1>1, <1>4, <1>5, <1>6, <2>1, KeepsWhole
<1>8. ctx' \in ContextType
  BY <1>1, <1>4, CommitTyped
<1>9. last'.service = "step" /\ last'.instr = i /\ last'.status = status /\ program' = program
  BY <1>4, CallRecorded
<1>10. ASSUME Arithmetic PROVE Rounds(bank', i.op, i.d, i.n, i.m)
  <2>1. status = "NEXT" /\ i.op \in {"FADD", "FDIV"}
    BY <1>9, <1>10 DEF Arithmetic
  <2> QED
    BY <1>1, <1>2, <1>3, <1>4, <2>1, StepRounds
<1>11. RoundedStep
  BY <1>9, <1>10 DEF RoundedStep, Rounds
<1>12. FpInv'
  BY <1>4, <1>7, <1>8, <1>9 DEF FpInv
<1> QED
  BY <1>7, <1>11, <1>12

LEMMA ServiceSteps ==
  ASSUME FpInv, NEW name, name \notin {"step", "memory", "none"}, NEW i, NEW out,
         Keeps(out, WritesV(name, i), WritesX(name, i)), Service(name, i, out)
  PROVE  FpInv' /\ WholeStep /\ RoundedStep
<1>1. Registers /\ cpu \in CpuType
  BY DEF FpInv
<1>2. /\ Called(name, i, out.result)
      /\ bank' = out.bank /\ x' = out.x
      /\ UNCHANGED <<sp, mem, cpu, ctx>>
  BY DEF Service
<1>3. out.result \in {"NEXT", "OK"} <=> out.result = "OK"
  BY DEF Keeps
<1>4. PICK status : status = out.result
  OBVIOUS
<1>5. WholeStep /\ Registers' /\ cpu' \in CpuType
  BY <1>1, <1>2, <1>3, <1>4, KeepsWhole
<1>6. last'.service = name /\ program' = program
  BY <1>2, CallRecorded
<1>7. RoundedStep
  BY <1>6 DEF RoundedStep, Arithmetic
<1>8. FpInv'
  BY <1>2, <1>5, <1>6 DEF FpInv
<1> QED
  BY <1>5, <1>7, <1>8

-----------------------------------------------------------------------------
(* The memory transfers. *)

LEMMA ValueTyped ==
  ASSUME NEW address \in Nat, address < AddrMod
  PROVE  Value(address) \in Pair
<1>1. PICK M \in Nat \ {0} : M = LaneMod /\ Pattern = 0..(M - 1)
  BY Format DEF LaneMod, Pattern
<1>2. PICK q \in Nat, r \in Nat : q = address \div M /\ r = address % M
                                  /\ r < M /\ address = M * q + r
  BY Divided
<1>3. q < M
  <2>1. SUFFICES ASSUME M <= q PROVE FALSE
    OBVIOUS
  <2>2. PICK d \in Nat : q = M + d
    <3>1. q - M \in Nat /\ q = M + (q - M)
      BY <2>1
    <3> QED
      BY <3>1
  <2>3. M * q = M * M + M * d
    BY <2>2
  <2>4. PICK u \in Nat, v \in Nat : u = M * M /\ v = M * d
    OBVIOUS
  <2>5. address < u /\ address = (u + v) + r
    BY <1>1, <1>2, <2>3, <2>4 DEF AddrMod
  <2> QED
    BY <2>5
<1>4. q \in Pattern /\ r \in Pattern
  BY <1>1, <1>2, <1>3
<1> QED
  BY <1>1, <1>2, <1>4, LanesOf DEF Value

LEMMA AddressTyped ==
  ASSUME NEW value \in Pair
  PROVE  Address(value) \in Nat
<1>1. PICK M \in Nat : M = LaneMod /\ Pattern \subseteq Nat
  BY Format DEF LaneMod, Pattern
<1>2. PICK p \in Nat, q \in Nat : p = value[1] /\ q = value[2]
  <2>1. value[1] \in Pattern /\ value[2] \in Pattern
    BY DEF Pair
  <2> QED
    BY <1>1, <2>1
<1>3. p + M * q \in Nat
  OBVIOUS
<1> QED
  BY <1>1, <1>2, <1>3 DEF Address

\* The address of a transfer, and the base it leaves.
LEMMA TransferTyped ==
  ASSUME FpInv, NEW i, i.n \in Selector, i.offset \in Int
  PROVE  TransferAt(i) \in Nat /\ Value(Updated(i)) \in Pair
<1>1. PICK base \in Nat : base = Address(IF i.n = 31 THEN sp ELSE x[i.n])
  <2>1. (IF i.n = 31 THEN sp ELSE x[i.n]) \in Pair
    BY SelectorSplits DEF FpInv, Registers
  <2> QED
    BY <2>1, AddressTyped
<1>2. PICK A \in Nat \ {0} : A = AddrMod
  <2>1. PICK M \in Nat \ {0} : M = LaneMod
    BY Format DEF LaneMod
  <2>2. M * M \in Nat \ {0}
    OBVIOUS
  <2> QED
    BY <2>1, <2>2 DEF AddrMod
<1>3. PICK moved \in Int : moved = base + i.offset
  OBVIOUS
<1>4. moved % A \in Nat /\ moved % A < A
  OBVIOUS
<1>5. Updated(i) = moved % A
  BY <1>1, <1>2, <1>3 DEF Updated
<1>6. Value(Updated(i)) \in Pair
  BY <1>2, <1>4, <1>5, ValueTyped
<1>7. TransferAt(i) \in Nat
  BY <1>1, <1>4, <1>5 DEF TransferAt
<1> QED
  BY <1>6, <1>7

LEMMA FaultNames ==
  ASSUME NEW i, NEW view
  PROVE  MemoryFault(i, view) \in {"SP_ALIGNMENT", "DATA_ALIGNMENT", "DATA_ABORT", "none"}
BY DEF MemoryFault

\* A transfer that is not refused lies inside the view.
LEMMA TransferInside ==
  ASSUME FpInv, NEW i, i.n \in Selector, i.offset \in Int, NEW present, NEW c, NEW view,
         MemoryResult(i, present, c, view) = "OK"
  PROVE  /\ Represented(bank)
         /\ TransferAt(i) - MemBase \in Nat /\ (TransferAt(i) - MemBase) + 4 <= MemLanes
<1>1. PICK at \in Nat : at = TransferAt(i)
  BY TransferTyped
<1>2. Represented(bank) /\ MemoryFault(i, view) = "none"
  BY FaultNames DEF MemoryResult
<1>3. ~(at < MemBase) /\ ~(MemLanes < 4 \/ at - MemBase > MemLanes - 4)
  BY <1>1, <1>2 DEF MemoryFault
<1>4. MemBase \in Nat /\ MemLanes \in Nat
  BY FpUnitAssumption
<1> QED
  BY <1>1, <1>2, <1>3, <1>4

LEMMA MemoryResults ==
  ASSUME NEW i, NEW present, NEW c, NEW view
  PROVE  MemoryResult(i, present, c, view) # "NEXT"
<1>1. PICK access, fault : access = AccessCheck(present, c) /\ fault = MemoryFault(i, view)
                           /\ access # "NEXT" /\ fault # "NEXT"
  BY FaultNames, AccessResults
<1> QED
  BY <1>1 DEF MemoryResult

\* The lanes a transfer covers are four, and lie one after the other.
Span(at) == {k \in 1..MemLanes : MemBase + k - 1 \in at..(at + 3)}

LEMMA SpanIs ==
  ASSUME NEW at \in Nat, NEW index \in Nat, index = at - MemBase, index + 4 <= MemLanes
  PROVE  /\ Cardinality(Span(at)) = 4
         /\ \A k \in (1..MemLanes) \ Span(at) : k - index \notin 1..4
<1>1. MemBase \in Nat /\ MemLanes \in Nat
  BY FpUnitAssumption
<1>2. \A k \in 1..MemLanes : MemBase + k - 1 \in at..(at + 3) <=> k \in (index + 1)..(index + 4)
  BY <1>1
<1>3. Span(at) = (index + 1)..(index + 4)
  <2>1. \A k \in (index + 1)..(index + 4) : k \in 1..MemLanes
    BY <1>1
  <2> QED
    BY <1>2, <2>1 DEF Span
<1>4. PICK a \in Int, b \in Int : a = index + 1 /\ b = index + 4 /\ ~(a > b) /\ (b - a) + 1 = 4
  OBVIOUS
<1>5. Cardinality(a..b) = IF a > b THEN 0 ELSE b - a + 1
  BY FS_Interval
<1>6. Cardinality(Span(at)) = 4
  BY <1>3, <1>4, <1>5
<1>7. \A k \in (1..MemLanes) \ Span(at) : k - index \notin 1..4
  BY <1>1, <1>3
<1> QED
  BY <1>6, <1>7

\* What a transfer leaves, register by register.
LEMMA MemoryWrites ==
  ASSUME FpInv, NEW i, i.n \in Selector, i.t \in Selector, i.offset \in Int,
         NEW present, NEW c, NEW view, SimdMemory(i, present, c, view),
         MemoryResult(i, present, c, view) = "OK"
  PROVE  /\ bank' \in BankType /\ Represented(bank')
         /\ \A r \in Selector \ WritesV("memory", i) : bank'.v[r] = bank.v[r]
         /\ x' \in [Reg -> Pair]
         /\ \A r \in Reg \ WritesX("memory", i) : x'[r] = x[r]
         /\ sp' \in Pair /\ (i.mode \notin {"pre", "post"} \/ i.n # 31 => sp' = sp)
         /\ mem' \in [1..MemLanes -> Pattern]
         /\ Cardinality(Span(TransferAt(i))) = 4
         /\ \A k \in (1..MemLanes) \ Span(TransferAt(i)) : mem'[k] = mem[k]
<1>1. /\ bank \in BankType /\ x \in [Reg -> Pair] /\ sp \in Pair
      /\ mem \in [1..MemLanes -> Pattern] /\ MemLanes \in Nat
  BY FpUnitAssumption DEF FpInv, Registers
<1>2. PICK at \in Nat, next \in Pair : at = TransferAt(i) /\ next = Value(Updated(i))
  BY TransferTyped
<1>3. PICK index \in Nat : index = at - MemBase /\ index + 4 <= MemLanes
  BY <1>2, TransferInside
<1>4. Represented(bank)
  BY TransferInside
<1>5. PICK wrote \in BOOLEAN : wrote <=> i.mode \in {"pre", "post"}
  OBVIOUS
<1>6. PICK loaded : loaded = [k \in 1..4 |-> mem[index + k]]
  OBVIOUS
<1>7. /\ bank' = IF i.load THEN [bank EXCEPT !.v[i.t] = loaded] ELSE bank
      /\ mem' = IF ~i.load
                  THEN [k \in 1..MemLanes |-> IF k - index \in 1..4 THEN bank.v[i.t][k - index]
                                                                    ELSE mem[k]]
                  ELSE mem
      /\ x' = IF wrote /\ i.n # 31 THEN [x EXCEPT ![i.n] = next] ELSE x
      /\ sp' = IF wrote /\ i.n = 31 THEN next ELSE sp
  BY <1>2, <1>3, <1>5, <1>6 DEF SimdMemory
<1>8. /\ bank' \in BankType /\ Represented(bank')
      /\ \A r \in Selector \ WritesV("memory", i) : bank'.v[r] = bank.v[r]
  <2>1. loaded \in Quad
    <3>1. \A k \in 1..4 : index + k \in 1..MemLanes
      BY <1>1, <1>3
    <3> QED
      BY <1>1, <1>6, <3>1 DEF Quad
  <2>2. CASE i.load
    <3>1. WritesV("memory", i) = {i.t}
      BY <2>2 DEF WritesV
    <3>2. PICK b : b = [bank EXCEPT !.v[i.t] = loaded]
      OBVIOUS
    <3>3. bank' = b
      BY <1>7, <2>2, <3>2
    <3>4. /\ b \in BankType /\ b.fpcr = bank.fpcr /\ b.fpsr = bank.fpsr
          /\ \A q \in Selector \ {i.t} : b.v[q] = bank.v[q]
      BY <1>1, <2>1, <3>2, VWriteTyped
    <3>5. Represented(b)
      BY <1>4, <3>4 DEF Represented
    <3> QED
      BY <3>1, <3>3, <3>4, <3>5
  <2>3. CASE ~i.load
    BY <1>1, <1>4, <1>7, <2>3
  <2> QED
    BY <2>2, <2>3
<1>9. x' \in [Reg -> Pair] /\ \A r \in Reg \ WritesX("memory", i) : x'[r] = x[r]
  <2>1. wrote => WritesX("memory", i) = {i.n}
    BY <1>5 DEF WritesX
  <2> QED
    BY <1>1, <1>7, <2>1
<1>10. sp' \in Pair /\ (i.mode \notin {"pre", "post"} \/ i.n # 31 => sp' = sp)
  BY <1>1, <1>5, <1>7
<1>11. PICK old \in Quad : old = bank.v[i.t]
  BY <1>1 DEF BankType
<1>12. mem' \in [1..MemLanes -> Pattern]
  BY <1>1, <1>7, <1>11 DEF Quad
<1>13. /\ Cardinality(Span(at)) = 4
       /\ \A k \in (1..MemLanes) \ Span(at) : k - index \notin 1..4
  BY <1>3, SpanIs
<1>14. \A k \in (1..MemLanes) \ Span(at) : mem'[k] = mem[k]
  BY <1>7, <1>13
<1> QED
  BY <1>2, <1>8, <1>9, <1>10, <1>12, <1>13, <1>14

LEMMA SimdMemorySteps ==
  ASSUME FpInv, NEW i \in Scenario[program].memories, NEW present, NEW c, NEW view,
         SimdMemory(i, present, c, view)
  PROVE  FpInv' /\ WholeStep /\ RoundedStep
<1>1. i.n \in Selector /\ i.t \in Selector /\ i.offset \in Int
  BY CallsTyped DEF FpInv
<1>2. PICK result : result = MemoryResult(i, present, c, view) /\ result # "NEXT"
  BY MemoryResults
<1>3. Called("memory", i, result) /\ UNCHANGED <<cpu, ctx>>
  BY <1>2 DEF SimdMemory
<1>4. last'.service = "memory" /\ last'.instr = i /\ last'.status = result /\ program' = program
  BY <1>3, CallRecorded
<1>5. Succeeded <=> result = "OK"
  BY <1>2, <1>4 DEF Succeeded
<1>6. RoundedStep
  BY <1>4 DEF RoundedStep, Arithmetic
<1>7. CASE result # "OK"
  <2>1. bank' = bank /\ mem' = mem /\ x' = x /\ sp' = sp
    BY <1>2, <1>7 DEF SimdMemory
  <2>2. WholeStep
    BY <1>3, <1>5, <1>7, <2>1 DEF WholeStep
  <2>3. FpInv'
    BY <1>3, <1>4, <2>1 DEF FpInv, Registers
  <2> QED
    BY <1>6, <2>2, <2>3
<1>8. CASE result = "OK"
  <2>1. /\ bank' \in BankType /\ Represented(bank')
        /\ \A r \in Selector \ WritesV("memory", i) : bank'.v[r] = bank.v[r]
        /\ x' \in [Reg -> Pair]
        /\ \A r \in Reg \ WritesX("memory", i) : x'[r] = x[r]
        /\ sp' \in Pair /\ (i.mode \notin {"pre", "post"} \/ i.n # 31 => sp' = sp)
        /\ mem' \in [1..MemLanes -> Pattern]
        /\ Cardinality(Span(TransferAt(i))) = 4
        /\ \A k \in (1..MemLanes) \ Span(TransferAt(i)) : mem'[k] = mem[k]
    BY <1>1, <1>2, <1>8, MemoryWrites
  <2>2. DOMAIN bank.v = Selector /\ DOMAIN x = Reg
    BY RegisterNames DEF FpInv
  <2>3. cpu' = [pc |-> cpu.pc + 4 * 0, retired |-> cpu.retired + 0, counter |-> cpu.counter + 0]
    BY <1>3 DEF FpInv, CpuType
  <2>4. WholeStep
    BY <1>4, <1>5, <1>8, <2>1, <2>2, <2>3 DEF WholeStep, Span
  <2>5. FpInv'
    BY <1>3, <1>4, <2>1 DEF FpInv, Registers
  <2> QED
    BY <1>6, <2>4, <2>5
<1> QED
  BY <1>7, <1>8

-----------------------------------------------------------------------------
(* The context, and the theorems. *)

LEMMA OutsideSteps ==
  ASSUME FpInv, NEW c \in ContextType, NEW pc \in Nat, Outside(c, pc)
  PROVE  FpInv' /\ WholeStep /\ RoundedStep
<1>1. UNCHANGED <<bank, x, sp, mem, program, calls>> /\ ctx' = c /\ cpu' = [cpu EXCEPT !.pc = pc]
  BY DEF Outside
<1>2. cpu' \in CpuType
  BY <1>1 DEF FpInv, CpuType
<1>3. FpInv'
  BY <1>1, <1>2 DEF FpInv, Registers
<1> QED
  BY <1>1, <1>3 DEF WholeStep, RoundedStep

LEMMA ContextSteps ==
  ASSUME FpInv,
         \/ EnableFpResearch
         \/ \E fpen \in 0..3 : WriteCpacr(fpen)
         \/ TakeException
         \/ \E el \in 0..1 : ReturnTo(el)
         \/ \E b \in BOOLEAN : UseHigher(b)
  PROVE  FpInv' /\ WholeStep /\ RoundedStep
<1>1. ctx \in ContextType /\ cpu.pc \in Nat
  BY DEF FpInv, CpuType
<1>2. \E c \in ContextType, pc \in Nat : Outside(c, pc)
  <2>1. CASE EnableFpResearch
    <3>1. [ctx EXCEPT !.profile = TRUE] \in ContextType
      BY <1>1 DEF ContextType
    <3> QED
      BY <1>1, <2>1, <3>1 DEF EnableFpResearch
  <2>2. ASSUME NEW fpen \in 0..3, WriteCpacr(fpen) PROVE \E c \in ContextType, pc \in Nat : Outside(c, pc)
    <3>1. [ctx EXCEPT !.fpen = fpen] \in ContextType
      BY <1>1 DEF ContextType
    <3> QED
      BY <1>1, <2>2, <3>1 DEF WriteCpacr
  <2>3. CASE TakeException
    <3>1. PICK el \in 0..2 : el = Target
      BY <1>1 DEF Target, ContextType
    <3>2. [ctx EXCEPT !.pending = FALSE, !.el = el] \in ContextType
      BY <1>1 DEF ContextType
    <3> QED
      BY <2>3, <3>1, <3>2 DEF TakeException
  <2>4. ASSUME NEW el \in 0..1, ReturnTo(el) PROVE \E c \in ContextType, pc \in Nat : Outside(c, pc)
    <3>1. [ctx EXCEPT !.el = el] \in ContextType
      BY <1>1 DEF ContextType
    <3>2. ctx.elr[ctx.el] \in Nat
      BY <1>1, <2>4 DEF ReturnTo, ContextType
    <3> QED
      BY <2>4, <3>1, <3>2 DEF ReturnTo
  <2>5. ASSUME NEW b \in BOOLEAN, UseHigher(b) PROVE \E c \in ContextType, pc \in Nat : Outside(c, pc)
    <3>1. [ctx EXCEPT !.higher = b] \in ContextType
      BY <1>1 DEF ContextType
    <3> QED
      BY <1>1, <2>5, <3>1 DEF UseHigher
  <2> QED
    BY <2>1, <2>2, <2>3, <2>4, <2>5
<1> QED
  BY <1>2, OutsideSteps

LEMMA NextSteps ==
  ASSUME FpInv, [Next]_vars
  PROVE  FpInv' /\ (vars' = vars \/ (WholeStep /\ RoundedStep))
<1>1. ASSUME NEW i \in Scenario[program].steps, FpStep(i)
      PROVE  FpInv' /\ WholeStep /\ RoundedStep
  BY <1>1, FpStepSteps
<1>2. ASSUME NEW present \in BOOLEAN, NEW c \in Scenario[program].callers,
             NEW i \in Scenario[program].transfers, SimdTransfer(i, present, c)
      PROVE  FpInv' /\ WholeStep /\ RoundedStep
  <2>1. Registers /\ Selects(i) /\ i.op \in TransferOp \cup {"UNKNOWN"}
    BY CallsTyped DEF FpInv
  <2>2. PICK out : out = TransferExecute(i, present, c)
    OBVIOUS
  <2>3. Keeps(out, WritesV("transfer", i), WritesX("transfer", i))
    BY <2>1, <2>2, TransferKeeps
  <2>4. Service("transfer", i, out)
    BY <1>2, <2>2 DEF SimdTransfer
  <2>5. "transfer" \notin {"step", "memory", "none"}
    OBVIOUS
  <2> QED
    BY <2>3, <2>4, <2>5, ServiceSteps
<1>3. ASSUME NEW present \in BOOLEAN, NEW c \in Scenario[program].callers,
             NEW i \in Scenario[program].copies, SimdCopy(i, present, c)
      PROVE  FpInv' /\ WholeStep /\ RoundedStep
  <2>1. /\ Registers /\ Selects(i) /\ i.w \in 1..2
        /\ Within(i.lane, i.w) /\ Within(i.from, i.w)
    BY CallsTyped DEF FpInv
  <2>2. PICK out : out = CopyExecute(i, present, c)
    OBVIOUS
  <2>3. Keeps(out, WritesV("copy", i), WritesX("copy", i))
    BY <2>1, <2>2, CopyKeeps
  <2>4. Service("copy", i, out)
    BY <1>3, <2>2 DEF SimdCopy
  <2>5. "copy" \notin {"step", "memory", "none"}
    OBVIOUS
  <2> QED
    BY <2>3, <2>4, <2>5, ServiceSteps
<1>4. ASSUME NEW present \in BOOLEAN, NEW c \in Scenario[program].callers,
             NEW i \in Scenario[program].memories, NEW view \in Scenario[program].views,
             SimdMemory(i, present, c, view)
      PROVE  FpInv' /\ WholeStep /\ RoundedStep
  BY <1>4, SimdMemorySteps
<1>5. CASE vars' = vars
  BY <1>5 DEF vars, FpInv, Registers
<1> QED
  BY <1>1, <1>2, <1>3, <1>4, <1>5, ContextSteps DEF Next

(* Every register, pattern and address of the floating-point unit stays    *)
(* inside its type: the bank and the X registers hold lanes, the stack     *)
(* pointer an address, the memory view its length of lanes, the context an *)
(* exception level and an FPEN field, whatever the calls and whatever the  *)
(* format (fp_guest.h, simd_memory.c).                                     *)
THEOREM FpStaysTyped == Spec => []FpInv
<1>1. Init => FpInv
  <2>1. SUFFICES ASSUME Init PROVE FpInv
    OBVIOUS
  <2>2. PICK name \in DOMAIN Scenario :
          /\ program = name
          /\ bank \in Scenario[name].banks
          /\ x \in Scenario[name].xs /\ sp \in Scenario[name].sps
          /\ mem = Scenario[name].mem
          /\ ctx \in Scenario[name].ctxs
          /\ cpu = [pc |-> 8, retired |-> 0, counter |-> 0]
    BY <2>1 DEF Init
  <2>3. /\ bank \in BankType /\ ctx \in ContextType /\ x \in [Reg -> Pair] /\ sp \in Pair
        /\ mem \in [1..MemLanes -> Pattern]
    BY <2>2, StartsTyped
  <2>4. cpu \in CpuType
    BY <2>2 DEF CpuType
  <2> QED
    BY <2>2, <2>3, <2>4 DEF FpInv, Registers
<1>2. FpInv /\ [Next]_vars => FpInv'
  BY NextSteps
<1> QED
  BY <1>1, <1>2, PTL DEF Spec

(* FADD and FDIV round once, in every binary format and every rounding     *)
(* mode: the code's alignment with its sticky bit, its subtraction, its    *)
(* long division, its normalisation and its packing together deliver the   *)
(* representable number the IEEE definition picks for the exact sum or     *)
(* quotient, its flags and no others (fp_scalar.c:30-127,                  *)
(* fp_guest.c:64-80).                                                      *)
THEOREM FpRoundsOnceAlways == Spec => FpRoundsOnce
<1>1. FpInv /\ [Next]_vars => [RoundedStep]_vars
  BY NextSteps
<1> QED
  BY <1>1, FpStaysTyped, PTL DEF Spec, FpRoundsOnce

(* A call of the floating-point unit takes place whole or not at all: a    *)
(* refused one leaves the bank, the registers, the memory and the counters *)
(* as they were, one that succeeds writes its destination, its base and    *)
(* the four lanes of its transfer and nothing else, and leaves a bank that *)
(* every service accepts (fp_execution.h:11-16, simd_memory.h:42-44,       *)
(* fp_control.h:9-12).                                                     *)
THEOREM FpCallsWholeAlways == Spec => FpCallsWhole
<1>1. FpInv /\ [Next]_vars => [WholeStep]_vars
  BY NextSteps
<1> QED
  BY <1>1, FpStaysTyped, PTL DEF Spec, FpCallsWhole
=============================================================================
