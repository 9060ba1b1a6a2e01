------------------------------ MODULE MmuProofs ------------------------------
(***************************************************************************)
(* Address translation, for every width of addresses, granule, table       *)
(* geometry, TLB size, configuration and content of the tables.            *)
(***************************************************************************)
EXTENDS Mmu, WellFoundedInduction, TLAPS

-----------------------------------------------------------------------------
(* Powers of two. *)

LEMMA Induction ==
  ASSUME NEW S, 0 \in S, \A n \in Nat : n \in S => n + 1 \in S
  PROVE  \A n \in Nat : n \in S
<1> SUFFICES ASSUME Nat \ S # {} PROVE FALSE
  OBVIOUS
<1>1. PICK m \in Nat \ S : \A k \in Nat \ S : ~(<<k, m>> \in OpToRel(<, Nat))
  BY WFMin, NatLessThanWellFounded, Zenon
<1>2. \A k \in Nat \ S : ~(k < m)
  BY <1>1 DEF OpToRel
<1>3. m \in Nat /\ m \notin S /\ m # 0
  OBVIOUS
<1>4. PICK p \in Nat : p + 1 = m
  BY <1>3
<1>5. p \in S
  BY <1>2, <1>3, <1>4
<1> QED
  BY <1>3, <1>4, <1>5

LEMMA LeastExists ==
  ASSUME NEW S, S \subseteq Nat, S # {}
  PROVE  \E i \in S : \A j \in S : i <= j
<1>1. PICK m \in S : \A k \in S : ~(<<k, m>> \in OpToRel(<, Nat))
  BY WFMin, NatLessThanWellFounded, Zenon
<1>2. \A k \in S : ~(k < m)
  BY <1>1 DEF OpToRel
<1>3. \A k \in S : m <= k
  BY <1>2
<1> QED
  BY <1>3

\* g is the powers of two up to the n-th.
Doubles(g, n) ==
  /\ g \in [0..n -> Nat \ {0}]
  /\ g[0] = 1
  /\ \A i \in 1..n : g[i] = 2 * g[i - 1]

LEMMA DoublesExist == \A n \in Nat : \E g : Doubles(g, n)
<1> DEFINE S == {n \in Nat : \E g : Doubles(g, n)}
<1>1. 0 \in S
  <2>1. PICK g : g = [i \in 0..0 |-> 1]
    OBVIOUS
  <2>2. Doubles(g, 0)
    BY <2>1 DEF Doubles
  <2> QED
    BY <2>2
<1>2. ASSUME NEW n \in Nat, n \in S PROVE n + 1 \in S
  <2>1. PICK g : Doubles(g, n)
    BY <1>2
  <2>2. PICK h : h = [i \in 0..(n + 1) |-> IF i = n + 1 THEN 2 * g[n] ELSE g[i]]
    OBVIOUS
  <2>3. g[n] \in Nat \ {0}
    BY <2>1 DEF Doubles
  <2>4. h \in [0..(n + 1) -> Nat \ {0}]
    BY <2>1, <2>2, <2>3 DEF Doubles
  <2>5. h[0] = 1
    BY <2>1, <2>2 DEF Doubles
  <2>6. ASSUME NEW i \in 1..(n + 1) PROVE h[i] = 2 * h[i - 1]
    <3>1. h[i - 1] = g[i - 1]
      BY <2>2
    <3>2. CASE i = n + 1
      BY <2>2, <3>1, <3>2
    <3>3. CASE i # n + 1
      BY <2>1, <2>2, <3>1, <3>3 DEF Doubles
    <3> QED
      BY <3>2, <3>3
  <2>7. Doubles(h, n + 1)
    BY <2>4, <2>5, <2>6 DEF Doubles
  <2> QED
    BY <2>7
<1> HIDE DEF S
<1>3. \A n \in Nat : n \in S
  BY <1>1, <1>2, Induction
<1> QED
  BY <1>3 DEF S

LEMMA DoublesUnique ==
  ASSUME NEW n \in Nat, NEW g, Doubles(g, n), NEW k \in Nat, NEW h, Doubles(h, k), k <= n
  PROVE  \A i \in 0..k : g[i] = h[i]
<1> DEFINE S == {i \in Nat : i <= k => g[i] = h[i]}
<1>1. 0 \in S
  BY DEF Doubles
<1>2. ASSUME NEW i \in Nat, i \in S PROVE i + 1 \in S
  <2> SUFFICES ASSUME i + 1 <= k PROVE g[i + 1] = h[i + 1]
    OBVIOUS
  <2>1. i + 1 \in 1..n /\ i + 1 \in 1..k /\ (i + 1) - 1 = i
    OBVIOUS
  <2>2. g[i + 1] = 2 * g[i] /\ h[i + 1] = 2 * h[i]
    BY <2>1 DEF Doubles
  <2> QED
    BY <1>2, <2>2
<1> HIDE DEF S
<1>3. \A i \in Nat : i \in S
  BY <1>1, <1>2, Induction
<1> QED
  BY <1>3 DEF S

IsPow2(f) == f = [n \in Nat |-> IF n = 0 THEN 1 ELSE 2 * f[n - 1]]

LEMMA Pow2Defined == IsPow2(Pow2)
<1>1. PICK G : G = [n \in Nat |-> CHOOSE g : Doubles(g, n)]
  OBVIOUS
<1>2. ASSUME NEW n \in Nat PROVE Doubles(G[n], n)
  BY <1>1, DoublesExist
<1>3. PICK f : f = [n \in Nat |-> G[n][n]]
  OBVIOUS
<1>4. ASSUME NEW n \in Nat PROVE f[n] = IF n = 0 THEN 1 ELSE 2 * f[n - 1]
  <2>1. f[n] = G[n][n] /\ Doubles(G[n], n)
    BY <1>2, <1>3
  <2>2. CASE n = 0
    BY <2>1, <2>2 DEF Doubles
  <2>3. CASE n # 0
    <3>1. n - 1 \in Nat /\ n - 1 <= n /\ n \in 1..n /\ n - 1 \in 0..(n - 1)
      BY <2>3
    <3>2. Doubles(G[n - 1], n - 1) /\ f[n - 1] = G[n - 1][n - 1]
      BY <1>2, <1>3, <3>1
    <3>3. G[n][n - 1] = G[n - 1][n - 1]
      BY <2>1, <3>1, <3>2, DoublesUnique
    <3>4. G[n][n] = 2 * G[n][n - 1]
      BY <2>1, <3>1 DEF Doubles
    <3> QED
      BY <2>1, <2>3, <3>2, <3>3, <3>4
  <2> QED
    BY <2>2, <2>3
<1>5. IsPow2(f)
  <2>1. f = [n \in Nat |-> f[n]]
    BY <1>3
  <2>2. f = [n \in Nat |-> IF n = 0 THEN 1 ELSE 2 * f[n - 1]]
    BY <1>4, <2>1
  <2> QED
    BY <2>2 DEF IsPow2
<1>6. Pow2 = CHOOSE g : IsPow2(g)
  BY DEF Pow2, IsPow2
<1> QED
  BY <1>5, <1>6

LEMMA Pow2Unfolds ==
  /\ Pow2[0] = 1
  /\ \A n \in Nat : Pow2[n + 1] = 2 * Pow2[n]
<1>1. PICK f : f = Pow2
  OBVIOUS
<1>2. f = [n \in Nat |-> IF n = 0 THEN 1 ELSE 2 * f[n - 1]]
  BY <1>1, Pow2Defined DEF IsPow2
<1>3. f[0] = 1
  BY <1>2
<1>4. ASSUME NEW n \in Nat PROVE f[n + 1] = 2 * f[n]
  <2>1. n + 1 \in Nat /\ n + 1 # 0 /\ (n + 1) - 1 = n
    OBVIOUS
  <2> QED
    BY <1>2, <2>1
<1> QED
  BY <1>1, <1>3, <1>4

LEMMA Pow2Typed == \A n \in Nat : Pow2[n] \in Nat \ {0}
<1> DEFINE S == {n \in Nat : Pow2[n] \in Nat \ {0}}
<1>1. 0 \in S
  BY Pow2Unfolds
<1>2. ASSUME NEW n \in Nat, n \in S PROVE n + 1 \in S
  BY <1>2, Pow2Unfolds
<1> HIDE DEF S
<1>3. \A n \in Nat : n \in S
  BY <1>1, <1>2, Induction
<1> QED
  BY <1>3 DEF S

LEMMA Pow2Sum ==
  ASSUME NEW a \in Nat
  PROVE  \A b \in Nat : Pow2[a + b] = Pow2[a] * Pow2[b]
<1> DEFINE S == {b \in Nat : Pow2[a + b] = Pow2[a] * Pow2[b]}
<1>1. 0 \in S
  BY Pow2Unfolds, Pow2Typed
<1>2. ASSUME NEW b \in Nat, b \in S PROVE b + 1 \in S
  <2>1. a + b \in Nat /\ a + (b + 1) = (a + b) + 1
    OBVIOUS
  <2>2. Pow2[a + (b + 1)] = 2 * Pow2[a + b] /\ Pow2[b + 1] = 2 * Pow2[b]
    BY <2>1, Pow2Unfolds
  <2>3. PICK p \in Nat, q \in Nat : p = Pow2[a] /\ q = Pow2[b]
    BY Pow2Typed
  <2>4. Pow2[a + (b + 1)] = 2 * (p * q) /\ Pow2[b + 1] = 2 * q
    BY <1>2, <2>2, <2>3
  <2>5. 2 * (p * q) = p * (2 * q)
    OBVIOUS
  <2>6. Pow2[a + (b + 1)] = Pow2[a] * Pow2[b + 1]
    BY <2>3, <2>4, <2>5
  <2> QED
    BY <2>6
<1> HIDE DEF S
<1>3. \A b \in Nat : b \in S
  BY <1>1, <1>2, Induction
<1> QED
  BY <1>3 DEF S

-----------------------------------------------------------------------------
(* Quotients and remainders. *)

LEMMA Divided ==
  ASSUME NEW x \in Nat, NEW d \in Nat \ {0}
  PROVE  /\ (x \div d) \in Nat /\ (x % d) \in Nat /\ (x % d) < d
         /\ x = d * (x \div d) + (x % d)
OBVIOUS

LEMMA DividesOnce ==
  ASSUME NEW x \in Nat, NEW d \in Nat \ {0}, NEW k \in Nat, NEW r \in Nat, r < d,
         x = d * k + r
  PROVE  (x \div d) = k /\ (x % d) = r
OBVIOUS

\* The part of x above p, and what is of it above n = p * q and below.
Splits(x, p, q, n) ==
  /\ (x \div n) = ((x \div p) \div q)
  /\ ((x % n) \div p) = ((x \div p) % q)
  /\ (x \div p) = q * (x \div n) + ((x % n) \div p)

LEMMA Digits ==
  ASSUME NEW x \in Nat, NEW p \in Nat \ {0}, NEW q \in Nat \ {0},
         NEW n, n = p * q
  PROVE  Splits(x, p, q, n)
<1>0. n \in Nat \ {0}
  OBVIOUS
<1>1. PICK a \in Nat, r \in Nat : a = (x \div p) /\ r = (x % p) /\ r < p /\ x = p * a + r
  BY Divided
<1>2. PICK b \in Nat, s \in Nat : b = (a \div q) /\ s = (a % q) /\ s < q /\ a = q * b + s
  BY Divided
<1>3. x = n * b + (p * s + r)
  <2>1. p * (q * b + s) = p * (q * b) + p * s
    OBVIOUS
  <2>2. p * (q * b) = n * b
    OBVIOUS
  <2>3. p * (q * b) \in Nat /\ p * s \in Nat
    OBVIOUS
  <2>4. x = p * (q * b + s) + r
    BY <1>1, <1>2
  <2> QED
    BY <2>1, <2>2, <2>3, <2>4
<1>4. PICK y \in Nat : y = p * s + r
  OBVIOUS
<1>5. y < n
  <2>1. s + 1 <= q
    BY <1>2
  <2>2. p * (s + 1) <= n
    BY <2>1
  <2>3. p * (s + 1) = p * s + p
    OBVIOUS
  <2>4. p * s \in Nat /\ n \in Nat
    OBVIOUS
  <2> QED
    BY <1>1, <1>4, <2>2, <2>3, <2>4
<1>6. (x \div n) = b /\ (x % n) = y
  BY <1>0, <1>3, <1>4, <1>5, DividesOnce
<1>7. (y \div p) = s
  BY <1>1, <1>4, DividesOnce
<1> QED
  BY <1>0, <1>1, <1>2, <1>6, <1>7 DEF Splits

LEMMA Pow2Monotone ==
  ASSUME NEW a \in Nat, NEW b \in Nat, a <= b
  PROVE  Pow2[a] <= Pow2[b]
<1>1. PICK c \in Nat : a + c = b
  <2>1. b - a \in Nat /\ a + (b - a) = b
    OBVIOUS
  <2> QED
    BY <2>1
<1>2. Pow2[b] = Pow2[a] * Pow2[c]
  BY <1>1, Pow2Sum
<1>3. PICK p \in Nat \ {0}, q \in Nat \ {0} : p = Pow2[a] /\ q = Pow2[c]
  BY Pow2Typed
<1>4. p <= p * q
  <2>1. p * 1 <= p * q
    OBVIOUS
  <2> QED
    BY <2>1
<1> QED
  BY <1>2, <1>3, <1>4

(* Addresses that agree above bit s agree above every higher bit n, and    *)
(* between the two.                                                        *)
LEMMA SameAbove ==
  ASSUME NEW x \in Nat, NEW y \in Nat, NEW s \in Nat, NEW n \in Nat, s <= n,
         (x \div Pow2[s]) = (y \div Pow2[s])
  PROVE  /\ (x \div Pow2[n]) = (y \div Pow2[n])
         /\ (Offset(x, n) \div Pow2[s]) = (Offset(y, n) \div Pow2[s])
<1>1. PICK c \in Nat : s + c = n
  <2>1. n - s \in Nat /\ s + (n - s) = n
    OBVIOUS
  <2> QED
    BY <2>1
<1>2. PICK p \in Nat \ {0}, q \in Nat \ {0} : p = Pow2[s] /\ q = Pow2[c]
  BY Pow2Typed
<1>3. PICK d : d = Pow2[n] /\ d = p * q
  BY <1>1, <1>2, Pow2Sum
<1>4. Splits(x, p, q, d) /\ Splits(y, p, q, d)
  BY <1>3, Digits
<1>5. (x \div p) = (y \div p)
  BY <1>2
<1> QED
  BY <1>2, <1>3, <1>4, <1>5 DEF Splits, Offset

-----------------------------------------------------------------------------
(* The geometry of an accepted configuration. *)

\* What Accepts has tested.
Valid(m) ==
  /\ m.granule \in Granule
  /\ StartLevel(m.granule, m.tsz[1]) # None
  /\ m.tsz[2] # 0 => StartLevel(m.granule, m.tsz[2]) # None

LEMMA ShiftFacts ==
  ASSUME NEW m, m.granule \in Granule, NEW l \in 0..MaxLevel
  PROVE  /\ LevelShift(m, l) \in Nat
         /\ PageShift[m.granule] \in Nat /\ IndexBits[m.granule] \in Nat \ {0}
         /\ LevelShift(m, MaxLevel) = PageShift[m.granule]
         /\ \A k \in 0..l : LevelShift(m, l) <= LevelShift(m, k)
         /\ l > 0 => LevelShift(m, l - 1) = LevelShift(m, l) + IndexBits[m.granule]
<1>1. PICK ps \in Nat, ib \in Nat \ {0} : ps = PageShift[m.granule] /\ ib = IndexBits[m.granule]
  BY MmuAssumption
<1>2. \A k \in 0..MaxLevel : LevelShift(m, k) = ps + ib * (3 - k)
  BY <1>1 DEF LevelShift, MaxLevel
<1>3. ib * 0 = 0 /\ ib * 1 = ib /\ ib * 2 = ib + ib /\ ib * 3 = ib + ib + ib
  OBVIOUS
<1>4. /\ LevelShift(m, 0) = ps + (ib + ib + ib) /\ LevelShift(m, 1) = ps + (ib + ib)
      /\ LevelShift(m, 2) = ps + ib /\ LevelShift(m, 3) = ps
  BY <1>2, <1>3 DEF MaxLevel
<1>5. l \in {0, 1, 2, 3} /\ \A k \in 0..l : k \in {0, 1, 2, 3}
  BY DEF MaxLevel
<1> QED
  BY <1>1, <1>4, <1>5 DEF MaxLevel

LEMMA StartFacts ==
  ASSUME NEW m, m.granule \in Granule, NEW tsz, StartLevel(m.granule, tsz) # None,
         NEW start, start = StartLevel(m.granule, tsz)
  PROVE  /\ tsz \in 1..AddrBits /\ AddrBits - tsz \in Nat
         /\ start \in 0..MaxLevel
         /\ PageShift[m.granule] <= AddrBits - tsz
         /\ LevelShift(m, start) <= AddrBits - tsz
         /\ AddrBits - tsz <= LevelShift(m, start) + IndexBits[m.granule]
<1>1. PICK ps \in Nat, ib \in Nat \ {0} : ps = PageShift[m.granule] /\ ib = IndexBits[m.granule]
  BY MmuAssumption
<1>2. tsz \in ValidTsz[m.granule] /\ Levels(m.granule, tsz) \in 1..4
      /\ start = 4 - Levels(m.granule, tsz)
  BY DEF StartLevel, MaxLevel
<1>3. tsz \in 1..AddrBits /\ AddrBits - tsz > ps /\ AddrBits \in Nat
  BY <1>1, <1>2, MmuAssumption
<1>4. PICK n \in Nat : n = AddrBits - tsz
  BY <1>3
<1>5. PICK x \in Nat : x = n - ps + ib - 1
  <2>1. n - ps + ib - 1 \in Nat
    BY <1>3, <1>4
  <2> QED
    BY <2>1
<1>6. PICK k \in 1..4 : k = Levels(m.granule, tsz)
  BY <1>2
<1>7. k = (x \div ib)
  BY <1>1, <1>4, <1>5, <1>6 DEF Levels
<1>8. PICK r \in Nat : r < ib /\ x = ib * k + r
  BY <1>7, Divided
<1>9. ib * k = ib * (k - 1) + ib
  OBVIOUS
<1>10. PICK z \in Nat : z = ib * (k - 1)
  <2>1. k - 1 \in Nat
    OBVIOUS
  <2> QED
    BY <2>1
<1>11. z <= n - ps /\ n - ps <= z + ib
  BY <1>3, <1>4, <1>5, <1>8, <1>9, <1>10
<1>12. LevelShift(m, start) = ps + z
  <2>1. 3 - start = k - 1
    BY <1>2, <1>6
  <2> QED
    BY <1>1, <1>10, <2>1 DEF LevelShift, MaxLevel
<1>13. start \in 0..3
  BY <1>2, <1>6
<1> QED
  BY <1>1, <1>3, <1>4, <1>11, <1>12, <1>13 DEF MaxLevel

\* The bits of an address above its half: zeros in the lower one, ones in the upper.
High(m, half) == IF half = 1 THEN 0 ELSE Pow2[m.tsz[2]] - 1

LEMMA HalfFacts ==
  ASSUME NEW m, Valid(m), NEW va, NEW half, half = Half(m, va), half # None
  PROVE  /\ half \in {1, 2}
         /\ StartLevel(m.granule, m.tsz[half]) # None
         /\ (va \div Pow2[AddrBits - m.tsz[half]]) = High(m, half)
<1>1. CASE (va \div Pow2[AddrBits - m.tsz[1]]) = 0
  <2>1. half = 1
    BY <1>1 DEF Half
  <2> QED
    BY <1>1, <2>1 DEF Valid, High
<1>2. CASE ~((va \div Pow2[AddrBits - m.tsz[1]]) = 0)
  <2>1. m.tsz[2] # 0 /\ (va \div Pow2[AddrBits - m.tsz[2]]) = Pow2[m.tsz[2]] - 1 /\ half = 2
    BY <1>2 DEF Half
  <2> QED
    BY <2>1 DEF Valid, High
<1> QED
  BY <1>1, <1>2

(* The upper half is above the lower one. *)
LEMMA UpperIsHigh ==
  ASSUME NEW t \in 1..AddrBits, NEW u \in 1..AddrBits, NEW va \in Nat,
         (va \div Pow2[AddrBits - t]) = Pow2[t] - 1
  PROVE  (va \div Pow2[AddrBits - u]) # 0
<1>0. AddrBits \in Nat
  BY MmuAssumption
<1>1. PICK n \in Nat, k \in Nat : n = AddrBits - t /\ k = AddrBits - u
  BY <1>0
<1>2. PICK p \in Nat \ {0}, q \in Nat \ {0}, a \in Nat \ {0}, b \in Nat \ {0} :
         p = Pow2[n] /\ q = Pow2[k] /\ a = Pow2[t] /\ b = Pow2[AddrBits - 1]
  <2>1. AddrBits - 1 \in Nat
    BY <1>0
  <2> QED
    BY <2>1, Pow2Typed
<1>3. p * a = Pow2[AddrBits] /\ Pow2[AddrBits] = 2 * b
  <2>1. n + t = AddrBits /\ (AddrBits - 1) + 1 = AddrBits /\ t \in Nat /\ AddrBits - 1 \in Nat
    BY <1>0, <1>1
  <2> QED
    BY <1>2, <2>1, Pow2Sum, Pow2Unfolds
<1>4. p <= b /\ q <= b
  <2>1. n <= AddrBits - 1 /\ k <= AddrBits - 1 /\ AddrBits - 1 \in Nat
    BY <1>0, <1>1
  <2> QED
    BY <1>2, <2>1, Pow2Monotone
<1>5. va >= p * (a - 1)
  <2>1. (va \div p) = a - 1
    BY <1>1, <1>2
  <2> QED
    BY <2>1, Divided
<1>6. p * (a - 1) = p * a - p
  OBVIOUS
<1>7. va >= q
  BY <1>3, <1>4, <1>5, <1>6
<1>8. (va \div q) # 0
  BY <1>7, Divided
<1> QED
  BY <1>1, <1>2, <1>8

(* Addresses that agree above a bit inside their half are in the same one. *)
LEMMA SameHalf ==
  ASSUME NEW m, Valid(m), NEW va \in Nat, Half(m, va) # None, NEW b \in Nat, NEW s \in Nat,
         s <= AddrBits - m.tsz[Half(m, va)], (va \div Pow2[s]) = (b \div Pow2[s])
  PROVE  Half(m, b) = Half(m, va)
<1>1. PICK half \in {1, 2} :
        /\ half = Half(m, va) /\ StartLevel(m.granule, m.tsz[half]) # None
        /\ (va \div Pow2[AddrBits - m.tsz[half]]) = High(m, half)
  BY HalfFacts
<1>2. m.granule \in Granule /\ StartLevel(m.granule, m.tsz[1]) # None
  BY DEF Valid
<1>3. /\ m.tsz[half] \in 1..AddrBits /\ m.tsz[1] \in 1..AddrBits
      /\ AddrBits - m.tsz[half] \in Nat
  BY <1>1, <1>2, StartFacts
<1>4. (b \div Pow2[AddrBits - m.tsz[half]]) = High(m, half)
  BY <1>1, <1>3, SameAbove
<1>5. CASE half = 1
  BY <1>1, <1>4, <1>5 DEF Half, High
<1>6. CASE half = 2
  <2>1. (b \div Pow2[AddrBits - m.tsz[2]]) = Pow2[m.tsz[2]] - 1
    BY <1>4, <1>6 DEF High
  <2>2. (b \div Pow2[AddrBits - m.tsz[1]]) # 0
    BY <1>3, <1>6, <2>1, UpperIsHigh
  <2>3. m.tsz[2] # 0
    BY <1>3, <1>6
  <2> QED
    BY <1>1, <1>6, <2>1, <2>2, <2>3 DEF Half
<1> QED
  BY <1>1, <1>5, <1>6

-----------------------------------------------------------------------------
(* The walk. *)

\* m and n translate under the same registers.
SameRegime(m, n) ==
  /\ n.enabled = m.enabled /\ n.strict = m.strict /\ n.ttbr = m.ttbr /\ n.tsz = m.tsz
  /\ n.asid = m.asid /\ n.granule = m.granule /\ n.epd = m.epd /\ n.outBits = m.outBits

LEMMA SameEntry ==
  ASSUME NEW m, NEW n, SameRegime(m, n), NEW va \in Nat, NEW b \in Nat, NEW s \in Nat,
         (va \div Pow2[s]) = (b \div Pow2[s]), NEW half, NEW l, NEW table,
         LevelShift(m, l) \in Nat, AddrBits - m.tsz[half] \in Nat,
         s <= LevelShift(m, l), LevelShift(m, l) <= AddrBits - m.tsz[half]
  PROVE  EntryAddress(n, b, half, l, table) = EntryAddress(m, va, half, l, table)
<1>1. PICK h \in Nat, z \in Nat : h = LevelShift(m, l) /\ z = AddrBits - m.tsz[half]
  OBVIOUS
<1>2. (va \div Pow2[h]) = (b \div Pow2[h])
  BY <1>1, SameAbove
<1>3. (Offset(va, z) \div Pow2[h]) = (Offset(b, z) \div Pow2[h])
  BY <1>1, <1>2, SameAbove
<1>4. /\ LevelShift(n, l) = h /\ AddrBits - n.tsz[half] = z
      /\ IndexBits[n.granule] = IndexBits[m.granule]
  BY <1>1 DEF SameRegime, LevelShift
<1> QED
  BY <1>1, <1>3, <1>4 DEF EntryAddress

LEMMA DescendShape ==
  ASSUME NEW m, NEW t, NEW va, NEW half, NEW el, NEW w, NEW l,
         NEW d, d = Descend(m, t, va, half, el, w, l)
  PROVE  /\ d.at \in {"table", "fault", "leaf"}
         /\ d.at = "leaf" => d.leaf.level = l /\ d.leaf.shift = LevelShift(m, l)
BY DEF Descend, Failed, Going, Found, Leaf

(* A level that is passed, or that ends in a leaf, depends on the address  *)
(* through its index only, and on who asks through the regime only.        *)
LEMMA DescendSame ==
  ASSUME NEW m, NEW n, SameRegime(m, n), NEW t, NEW va, NEW b, NEW half, NEW el, NEW fl,
         El10(el) = El10(fl), NEW w, NEW l,
         EntryAddress(n, b, half, l, w.table) = EntryAddress(m, va, half, l, w.table),
         Descend(m, t, va, half, el, w, l).at # "fault"
  PROVE  Descend(n, t, b, half, fl, w, l) = Descend(m, t, va, half, el, w, l)
<1>1. PICK pa : pa = EntryAddress(m, va, half, l, w.table)
  OBVIOUS
<1>2. PICK d : d = Read(t, pa)
  OBVIOUS
<1>3. /\ LevelShift(n, l) = LevelShift(m, l)
      /\ PageShift[n.granule] = PageShift[m.granule] /\ n.granule = m.granule
      /\ n.outBits = m.outBits /\ n.strict = m.strict
  BY DEF SameRegime, LevelShift
<1>4. PICK output : output = Base(d.out, PageShift[m.granule])
  OBVIOUS
<1>5. Inside(n, output) <=> Inside(m, output)
  BY <1>3 DEF Inside
<1>6. StrictAdmits(n, d, l, fl) <=> StrictAdmits(m, d, l, el)
  BY <1>3 DEF StrictAdmits
<1>7. Leaf(n, d, w.above, l, pa) = Leaf(m, d, w.above, l, pa)
  BY <1>3 DEF Leaf
<1>8. EntryAddress(n, b, half, l, w.table) = pa
  BY <1>1
<1> QED
  BY <1>1, <1>2, <1>3, <1>4, <1>5, <1>6, <1>7, <1>8 DEF Descend, Failed

\* W[l] is what is known before level l is read.
Level(m, t, va, half, el, w, l) ==
  IF w.at # "table" THEN w ELSE Descend(m, t, va, half, el, w, l)

Walked(W, m, t, va, half, el, start, k) ==
  W = [l \in start..k |->
         IF l = start THEN Going(Base(m.ttbr[half], PageShift[m.granule]), {})
         ELSE Level(m, t, va, half, el, W[l - 1], l - 1)]

LEMMA WalkExists ==
  ASSUME NEW m, NEW t, NEW va, NEW half, NEW el, NEW start \in Nat
  PROVE  \A k \in Nat : \E W : Walked(W, m, t, va, half, el, start, start + k)
<1> DEFINE Good(W, k) == Walked(W, m, t, va, half, el, start, start + k)
           S == {k \in Nat : \E W : Good(W, k)}
<1>0. PICK root : root = Going(Base(m.ttbr[half], PageShift[m.granule]), {})
  OBVIOUS
<1>1. 0 \in S
  <2>1. PICK W : W = [l \in start..start |-> root]
    OBVIOUS
  <2>2. Good(W, 0)
    BY <1>0, <2>1 DEF Walked
  <2> QED
    BY <2>2
<1>2. ASSUME NEW k \in Nat, k \in S PROVE k + 1 \in S
  <2>1. PICK W : Good(W, k)
    BY <1>2
  <2>2. PICK q \in Nat : q = start + k
    OBVIOUS
  <2>3. PICK x : x = Level(m, t, va, half, el, W[q], q)
    OBVIOUS
  <2>4. PICK V : V = [l \in start..(q + 1) |-> IF l = q + 1 THEN x ELSE W[l]]
    OBVIOUS
  <2>5. ASSUME NEW l \in start..(q + 1)
        PROVE  V[l] = IF l = start THEN root ELSE Level(m, t, va, half, el, V[l - 1], l - 1)
    <3>1. CASE l = start
      <4>1. V[l] = W[l] /\ l \in start..q
        BY <2>2, <2>4, <3>1
      <4>2. W[l] = root
        BY <1>0, <2>1, <2>2, <3>1, <4>1 DEF Walked
      <4> QED
        BY <3>1, <4>1, <4>2
    <3>2. CASE l = q + 1
      <4>1. l # start /\ l - 1 = q /\ V[l] = x /\ V[q] = W[q]
        BY <2>2, <2>4, <3>2
      <4> QED
        BY <2>3, <4>1
    <3>3. CASE l # start /\ l # q + 1
      <4>1. l \in start..q /\ l - 1 \in start..q /\ V[l] = W[l] /\ V[l - 1] = W[l - 1]
        BY <2>2, <2>4, <3>3
      <4>2. W[l] = Level(m, t, va, half, el, W[l - 1], l - 1)
        BY <2>1, <2>2, <3>3, <4>1 DEF Walked
      <4> QED
        BY <3>3, <4>1, <4>2
    <3> QED
      BY <3>1, <3>2, <3>3
  <2>6. V = [l \in start..(q + 1) |-> V[l]]
    BY <2>4
  <2>7. V = [l \in start..(q + 1) |->
               IF l = start THEN root ELSE Level(m, t, va, half, el, V[l - 1], l - 1)]
    BY <2>5, <2>6
  <2>8. q + 1 = start + (k + 1)
    BY <2>2
  <2>9. Good(V, k + 1)
    BY <1>0, <2>7, <2>8 DEF Walked
  <2> QED
    BY <2>9
<1> HIDE DEF S
<1>3. \A k \in Nat : k \in S
  BY <1>1, <1>2, Induction
<1> QED
  BY <1>3 DEF S

LEMMA WalkUnfolds ==
  ASSUME NEW m, NEW t, NEW va, NEW half, NEW el, NEW start \in 0..MaxLevel
  PROVE  \E W : /\ WalkFrom(m, t, va, half, el, start) = W[MaxLevel + 1]
                /\ W[start] = Going(Base(m.ttbr[half], PageShift[m.granule]), {})
                /\ \A l \in start..MaxLevel :
                      W[l + 1] = Level(m, t, va, half, el, W[l], l)
<1>1. PICK k \in Nat : start + k = MaxLevel + 1 /\ start \in Nat
  <2>1. MaxLevel + 1 - start \in Nat /\ start + (MaxLevel + 1 - start) = MaxLevel + 1 /\ start \in Nat
    BY DEF MaxLevel
  <2> QED
    BY <2>1
<1>2. \E W : Walked(W, m, t, va, half, el, start, MaxLevel + 1)
  BY <1>1, WalkExists
<1>3. PICK W : W = CHOOSE V : Walked(V, m, t, va, half, el, start, MaxLevel + 1)
  OBVIOUS
<1>4. Walked(W, m, t, va, half, el, start, MaxLevel + 1)
  BY <1>2, <1>3
<1>5. WalkFrom(m, t, va, half, el, start) = W[MaxLevel + 1]
  BY <1>3 DEF WalkFrom, Walked, Level
<1>6. PICK root : root = Going(Base(m.ttbr[half], PageShift[m.granule]), {})
  OBVIOUS
<1>7. W = [l \in start..(MaxLevel + 1) |->
             IF l = start THEN root ELSE Level(m, t, va, half, el, W[l - 1], l - 1)]
  BY <1>4, <1>6 DEF Walked
<1>8. W[start] = root
  <2>1. start \in start..(MaxLevel + 1)
    BY DEF MaxLevel
  <2> QED
    BY <1>7, <2>1
<1>9. ASSUME NEW l \in start..MaxLevel PROVE W[l + 1] = Level(m, t, va, half, el, W[l], l)
  <2>1. l + 1 \in start..(MaxLevel + 1) /\ l + 1 # start /\ (l + 1) - 1 = l
    BY DEF MaxLevel
  <2> QED
    BY <1>7, <2>1
<1> QED
  BY <1>5, <1>6, <1>8, <1>9

Steps(W, m, t, va, half, el, start) ==
  \A l \in start..MaxLevel : W[l + 1] = Level(m, t, va, half, el, W[l], l)

(* A walk that ends in a leaf has read the tables from its start level to  *)
(* the level of the leaf, and the leaf covers what that level covers.      *)
LEMMA LeafLevel ==
  ASSUME NEW m, NEW t, NEW va, NEW half, NEW el, NEW start \in 0..MaxLevel, NEW W,
         Steps(W, m, t, va, half, el, start), W[MaxLevel + 1].at = "leaf"
  PROVE  \A l \in start..MaxLevel :
            /\ W[l + 1].at # "fault"
            /\ W[l].at = "table" =>
                 \E k \in l..MaxLevel : W[MaxLevel + 1].leaf.shift = LevelShift(m, k)
<1> DEFINE Ends(l) == W[l].at # "table" => W[4] = W[l]
           Goes(l) == W[l].at = "table" => \E k \in l..3 : W[4].leaf.shift = LevelShift(m, k)
           S == {j \in Nat : 4 - j >= start => Ends(4 - j) /\ Goes(4 - j)}
<1>0. W[4].at = "leaf"
  BY DEF MaxLevel
<1>1. 0 \in S
  BY <1>0
<1>2. ASSUME NEW j \in Nat, j \in S PROVE j + 1 \in S
  <2> SUFFICES ASSUME 4 - (j + 1) >= start
               PROVE  Ends(4 - (j + 1)) /\ Goes(4 - (j + 1))
    OBVIOUS
  <2>1. PICK l \in start..3 : l = 4 - (j + 1) /\ l + 1 = 4 - j
    <3>1. 4 - (j + 1) \in start..3 /\ (4 - (j + 1)) + 1 = 4 - j
      BY DEF MaxLevel
    <3> QED
      BY <3>1
  <2>2. Ends(l + 1) /\ Goes(l + 1)
    BY <1>2, <2>1
  <2>3. W[l + 1] = Level(m, t, va, half, el, W[l], l)
    BY DEF MaxLevel, Steps
  <2>4. CASE W[l].at # "table"
    <3>1. W[l + 1] = W[l]
      BY <2>3, <2>4 DEF Level
    <3> QED
      BY <2>1, <2>2, <2>4, <3>1
  <2>5. CASE W[l].at = "table"
    <3>1. PICK d : d = W[l + 1] /\ d = Descend(m, t, va, half, el, W[l], l)
      BY <2>3, <2>5 DEF Level
    <3>2. /\ d.at \in {"table", "fault", "leaf"}
          /\ d.at = "leaf" => d.leaf.level = l /\ d.leaf.shift = LevelShift(m, l)
      BY <3>1, DescendShape
    <3>3. d.at # "fault"
      BY <1>0, <2>2, <3>1
    <3>4. CASE d.at = "leaf"
      <4>1. W[4].leaf.shift = LevelShift(m, l) /\ l \in l..3
        BY <2>2, <3>1, <3>2, <3>4
      <4> QED
        BY <2>1, <2>5, <4>1
    <3>5. CASE d.at = "table"
      <4>1. PICK k \in (l + 1)..3 : W[4].leaf.shift = LevelShift(m, k)
        BY <2>2, <3>1, <3>5
      <4>2. k \in l..3
        OBVIOUS
      <4> QED
        BY <2>1, <2>5, <4>1, <4>2
    <3> QED
      BY <3>2, <3>3, <3>4, <3>5
  <2> QED
    BY <2>4, <2>5
<1>3. \A j \in Nat : j \in S
  <2> HIDE DEF S
  <2> QED
    BY <1>1, <1>2, Induction
<1>4. ASSUME NEW l \in start..4 PROVE Ends(l) /\ Goes(l)
  <2>1. PICK j \in Nat : 4 - j = l
    <3>1. 4 - l \in Nat /\ 4 - (4 - l) = l
      BY DEF MaxLevel
    <3> QED
      BY <3>1
  <2>2. j \in S
    BY <1>3
  <2> QED
    BY <2>1, <2>2
<1>5. ASSUME NEW l \in start..3
      PROVE  /\ W[l + 1].at # "fault" 
             /\ W[l].at = "table" => \E k \in l..3 : W[4].leaf.shift = LevelShift(m, k)
  <2>1. l \in start..4 /\ l + 1 \in start..4
    BY DEF MaxLevel
  <2>2. Goes(l) /\ Ends(l + 1)
    BY <1>4, <2>1
  <2> QED
    BY <1>0, <2>2
<1> QED
  BY <1>5 DEF MaxLevel

LEMMA WalkSame ==
  ASSUME NEW m, Valid(m), NEW n, SameRegime(m, n), NEW t,
         NEW va \in Nat, NEW b \in Nat, NEW el, NEW fl, El10(el) = El10(fl),
         Half(m, va) # None, Walk(m, t, va, el).at = "leaf",
         NEW s, s = Walk(m, t, va, el).leaf.shift, (va \div Pow2[s]) = (b \div Pow2[s])
  PROVE  Half(n, b) = Half(m, va) /\ Walk(n, t, b, fl) = Walk(m, t, va, el)
<1>1. PICK half \in {1, 2} : half = Half(m, va) /\ StartLevel(m.granule, m.tsz[half]) # None
  BY HalfFacts
<1>2. m.granule \in Granule
  BY DEF Valid
<1>3. PICK start \in 0..MaxLevel :
        /\ start = StartLevel(m.granule, m.tsz[half]) /\ AddrBits - m.tsz[half] \in Nat
        /\ LevelShift(m, start) <= AddrBits - m.tsz[half]
  BY <1>1, <1>2, StartFacts
<1>4. PICK root : root = Base(m.ttbr[half], PageShift[m.granule])
  OBVIOUS
<1>5. /\ ~m.epd[half] /\ Inside(m, root)
      /\ Walk(m, t, va, el) = WalkFrom(m, t, va, half, el, start)
  BY <1>1, <1>3, <1>4 DEF Walk, Failed
<1>6. PICK W : /\ WalkFrom(m, t, va, half, el, start) = W[MaxLevel + 1]
               /\ W[start] = Going(root, {})
               /\ \A l \in start..MaxLevel : W[l + 1] = Level(m, t, va, half, el, W[l], l)
  BY <1>4, WalkUnfolds
<1>7. /\ W[MaxLevel + 1].at = "leaf" /\ W[MaxLevel + 1].leaf.shift = s
  BY <1>5, <1>6
<1>8. \A l \in start..MaxLevel :
        /\ W[l + 1].at # "fault"
        /\ W[l].at = "table" => \E k \in l..MaxLevel : s = LevelShift(m, k)
  <2>1. Steps(W, m, t, va, half, el, start)
    BY <1>6 DEF Steps
  <2>2. \A l \in start..MaxLevel :
          /\ W[l + 1].at # "fault"
          /\ W[l].at = "table" =>
               \E k \in l..MaxLevel : W[MaxLevel + 1].leaf.shift = LevelShift(m, k)
    BY <1>7, <2>1, LeafLevel
  <2> QED
    BY <1>7, <2>2
<1>9. W[start].at = "table"
  BY <1>6 DEF Going
<1>10. s \in Nat /\ s <= LevelShift(m, start)
  <2>1. PICK k \in start..MaxLevel : s = LevelShift(m, k)
    <3>1. start \in start..MaxLevel
      BY DEF MaxLevel
    <3> QED
      BY <1>8, <1>9, <3>1
  <2>2. k \in 0..MaxLevel /\ start \in 0..k
    BY DEF MaxLevel
  <2> QED
    BY <1>2, <2>1, <2>2, ShiftFacts
<1>11. Half(m, b) = half
  <2>1. LevelShift(m, start) \in Nat
    BY <1>2, ShiftFacts
  <2>2. s <= AddrBits - m.tsz[Half(m, va)]
    BY <1>1, <1>3, <1>10, <2>1
  <2> QED
    BY <1>1, <1>10, <2>2, SameHalf
<1>12. Half(n, b) = half
  BY <1>11 DEF Half, SameRegime
<1>13. PICK V : /\ WalkFrom(n, t, b, half, fl, start) = V[MaxLevel + 1]
                /\ V[start] = Going(root, {})
                /\ \A l \in start..MaxLevel : V[l + 1] = Level(n, t, b, half, fl, V[l], l)
  <2>1. Base(n.ttbr[half], PageShift[n.granule]) = root
    BY <1>4 DEF SameRegime
  <2> QED
    BY <2>1, WalkUnfolds
<1>14. ASSUME NEW l \in start..MaxLevel, V[l] = W[l] PROVE V[l + 1] = W[l + 1]
  <2>1. V[l + 1] = Level(n, t, b, half, fl, W[l], l) /\ W[l + 1] = Level(m, t, va, half, el, W[l], l)
    BY <1>6, <1>13, <1>14
  <2>2. CASE W[l].at # "table"
    BY <2>1, <2>2 DEF Level
  <2>3. CASE W[l].at = "table"
    <3>1. PICK k \in l..MaxLevel : s = LevelShift(m, k)
      BY <1>8, <2>3
    <3>2. k \in 0..MaxLevel /\ l \in 0..k /\ l \in 0..MaxLevel /\ start \in 0..l
      BY DEF MaxLevel
    <3>3. /\ LevelShift(m, l) \in Nat /\ LevelShift(m, start) \in Nat
          /\ s <= LevelShift(m, l) /\ LevelShift(m, l) <= LevelShift(m, start)
      BY <1>2, <3>1, <3>2, ShiftFacts
    <3>4. LevelShift(m, l) <= AddrBits - m.tsz[half]
      BY <1>3, <3>3
    <3>5. EntryAddress(n, b, half, l, W[l].table) = EntryAddress(m, va, half, l, W[l].table)
      BY <1>3, <1>10, <3>3, <3>4, SameEntry
    <3>6. Descend(m, t, va, half, el, W[l], l).at # "fault"
      BY <1>8, <2>1, <2>3 DEF Level
    <3>7. Descend(n, t, b, half, fl, W[l], l) = Descend(m, t, va, half, el, W[l], l)
      BY <3>5, <3>6, DescendSame
    <3> QED
      BY <2>1, <2>3, <3>7 DEF Level
  <2> QED
    BY <2>2, <2>3
<1>15. V[MaxLevel + 1] = W[MaxLevel + 1]
  <2> DEFINE S == {j \in Nat : start + j <= 4 => V[start + j] = W[start + j]}
  <2>1. 0 \in S
    BY <1>6, <1>13
  <2>2. ASSUME NEW j \in Nat, j \in S PROVE j + 1 \in S
    <3> SUFFICES ASSUME start + (j + 1) <= 4 PROVE V[start + (j + 1)] = W[start + (j + 1)]
      OBVIOUS
    <3>1. PICK l \in start..MaxLevel : l = start + j /\ l + 1 = start + (j + 1)
      <4>1. start + j \in start..MaxLevel /\ (start + j) + 1 = start + (j + 1)
        BY DEF MaxLevel
      <4> QED
        BY <4>1
    <3>2. V[l] = W[l]
      BY <2>2, <3>1 DEF MaxLevel
    <3> QED
      BY <1>14, <3>1, <3>2
  <2>3. \A j \in Nat : j \in S
    <3> HIDE DEF S
    <3> QED
      BY <2>1, <2>2, Induction
  <2>4. 4 - start \in Nat /\ start + (4 - start) = 4
    BY DEF MaxLevel
  <2>5. 4 - start \in S
    BY <2>3, <2>4
  <2> QED
    BY <2>4, <2>5 DEF MaxLevel
<1>16. Walk(n, t, b, fl) = WalkFrom(n, t, b, half, fl, start)
  <2>1. /\ n.epd[half] = m.epd[half] /\ Base(n.ttbr[half], PageShift[n.granule]) = root
        /\ StartLevel(n.granule, n.tsz[half]) = start /\ (Inside(n, root) <=> Inside(m, root))
    BY <1>3, <1>4 DEF SameRegime, Inside
  <2> QED
    BY <1>5, <1>12, <2>1 DEF Walk
<1> QED
  BY <1>1, <1>5, <1>6, <1>12, <1>13, <1>15, <1>16

-----------------------------------------------------------------------------
(* The invariant: an entry is the leaf of a walk, for an address and a     *)
(* requester of its regime, over contents the tables had since the last    *)
(* invalidation.                                                           *)

Filled(m, e, contents) ==
  \E t \in contents, va \in Vas, el \in El :
     /\ Half(m, va) # None /\ Walk(m, t, va, el).at = "leaf"
     /\ e = Entry(m, Walk(m, t, va, el).leaf, va, el)

TlbInv(m, contents) ==
  /\ DOMAIN m.tlb = 0..(TlbEntries - 1) /\ m.next \in 0..(TlbEntries - 1)
  /\ \A i \in 0..(TlbEntries - 1) :
        /\ \A e, f \in m.tlb[i] : e = f
        /\ \A e \in m.tlb[i] : m.enabled /\ Filled(m, e, contents)

Fields == {"enabled", "strict", "ttbr", "tsz", "asid", "granule", "epd", "outBits", "tlb", "next"}

MmuInv ==
  /\ DOMAIN mmu = Fields
  /\ mmu.enabled \in BOOLEAN /\ (mmu.enabled => Valid(mmu))
  /\ tables \in seen
  /\ TlbInv(mmu, seen)

LEMMA AddressTyped == \A va \in Vas : va \in Nat
<1>1. Pow2[AddrBits] \in Nat
  BY Pow2Typed, MmuAssumption
<1> QED
  BY <1>1, MmuAssumption

(* A hit answers what the walk that filled the entry would have answered   *)
(* the request that hits.                                                  *)
LEMMA HitIsWalk ==
  ASSUME NEW m, Valid(m), NEW contents, TlbInv(m, contents),
         NEW va \in Vas, NEW access \in Access, NEW el \in El, Hit(m, va, access, el)
  PROVE  \E t \in contents : Blind(TlbLookup(m, va, access, el))
                              = Blind(Uncached(m, t, va, access, el))
<1>1. Looked(m, va, access) /\ Slot(m, va, el) # None
  BY DEF Hit
<1>2. PICK hits : hits = {i \in DOMAIN m.tlb : \E e \in m.tlb[i] : Matches(m, e, va, el)}
  OBVIOUS
<1>3. hits # {} /\ Slot(m, va, el) = CHOOSE i \in hits : \A j \in hits : i <= j
  BY <1>1, <1>2 DEF Slot
<1>4. PICK i \in hits : Slot(m, va, el) = i
  <2>1. hits \subseteq Nat
    BY <1>2, MmuAssumption DEF TlbInv
  <2>2. \E i \in hits : \A j \in hits : i <= j
    BY <1>3, <2>1, LeastExists
  <2> QED
    BY <1>3, <2>2
<1>5. i \in 0..(TlbEntries - 1) /\ \E e \in m.tlb[i] : Matches(m, e, va, el)
  BY <1>2, <1>4 DEF TlbInv
<1>6. PICK e : e = CHOOSE x \in m.tlb[i] : TRUE
  OBVIOUS
<1>7. e \in m.tlb[i] /\ Matches(m, e, va, el)
  <2>1. e \in m.tlb[i]
    BY <1>5, <1>6
  <2> QED
    BY <1>5, <2>1 DEF TlbInv
<1>8. TlbLookup(m, va, access, el) = UseLeaf(m, e, va, access, el, "CachedLeaf")
  BY <1>4, <1>6 DEF TlbLookup
<1>9. Filled(m, e, contents)
  BY <1>5, <1>7 DEF TlbInv
<1>10. PICK t \in contents, a \in Vas, fl \in El :
         /\ Half(m, a) # None /\ Walk(m, t, a, fl).at = "leaf"
         /\ e = Entry(m, Walk(m, t, a, fl).leaf, a, fl)
  BY <1>9 DEF Filled
<1>11. PICK w : w = Walk(m, t, a, fl)
  OBVIOUS
<1>12. PICK leaf : leaf = w.leaf
  OBVIOUS
<1>13. /\ e.base = leaf.base /\ e.shift = leaf.shift /\ e.perms = leaf.perms
       /\ e.level = leaf.level /\ e.descriptor = leaf.descriptor
       /\ e.normalNc = leaf.normalNc /\ e.el10 = El10(fl)
       /\ e.tag = (a \div Pow2[leaf.shift])
  BY <1>10, <1>11, <1>12 DEF Entry
<1>14. El10(fl) = El10(el) /\ (a \div Pow2[leaf.shift]) = (va \div Pow2[leaf.shift])
  BY <1>7, <1>13 DEF Matches
<1>15. SameRegime(m, m) /\ a \in Nat /\ va \in Nat
  BY AddressTyped DEF SameRegime
<1>16. Half(m, va) = Half(m, a) /\ Walk(m, t, va, el) = w
  <2>1. PICK s : s = Walk(m, t, a, fl).leaf.shift
    OBVIOUS
  <2>2. (a \div Pow2[s]) = (va \div Pow2[s])
    BY <1>11, <1>12, <1>14, <2>1
  <2> QED
    BY <1>10, <1>11, <1>14, <1>15, <2>1, <2>2, WalkSame
<1>17. Cold(m, t, va, access, el) = UseLeaf(m, leaf, va, access, el, "Leaf")
  BY <1>10, <1>11, <1>12, <1>16 DEF Cold
<1>18. Uncached(m, t, va, access, el) = Cold(m, t, va, access, el)
  BY <1>1 DEF Uncached, Looked
<1>19. Blind(UseLeaf(m, e, va, access, el, "CachedLeaf"))
         = Blind(UseLeaf(m, leaf, va, access, el, "Leaf"))
  <2>1. PICK pa : pa = leaf.base + Offset(va, leaf.shift)
    OBVIOUS
  <2>2. e.base + Offset(va, e.shift) = pa
    BY <1>13, <2>1
  <2>3. Translation(e, va, el) = Translation(leaf, va, el)
    BY <1>13 DEF Translation
  <2>4. Translation(leaf, va, el).ok = TRUE
    BY DEF Translation
  <2>5. \A kind, c : Blind(Fault(kind, leaf.level, c, leaf.descriptor, pa))
                      = Fault(kind, leaf.level, "any", leaf.descriptor, pa)
    BY DEF Blind, Fault
  <2>6. CASE ~Inside(m, pa)
    BY <1>13, <2>1, <2>2, <2>5, <2>6 DEF UseLeaf
  <2>7. CASE Inside(m, pa) /\ ~Allowed(leaf.perms, access, el)
    BY <1>13, <2>1, <2>2, <2>5, <2>7 DEF UseLeaf
  <2>8. CASE Inside(m, pa) /\ Allowed(leaf.perms, access, el)
    BY <1>13, <2>1, <2>2, <2>3, <2>8 DEF UseLeaf
  <2> QED
    BY <2>6, <2>7, <2>8
<1> QED
  BY <1>8, <1>10, <1>17, <1>18, <1>19

\* A walk in progress, failed or finished.
Shaped(d) == d.at \in {"table", "fault", "leaf"} /\ (d.at = "fault" => d.fault.ok = FALSE)

LEMMA LevelShaped ==
  ASSUME NEW m, NEW t, NEW va, NEW half, NEW el, NEW w, Shaped(w), NEW l
  PROVE  Shaped(Level(m, t, va, half, el, w, l))
<1>1. PICK d : d = Descend(m, t, va, half, el, w, l)
  OBVIOUS
<1>2. Shaped(d)
  BY <1>1 DEF Descend, Failed, Going, Found, Fault, Shaped
<1> QED
  BY <1>1, <1>2 DEF Level

LEMMA WalkShaped ==
  ASSUME NEW m, Valid(m), NEW t, NEW va, NEW el, Half(m, va) # None
  PROVE  Shaped(Walk(m, t, va, el))
<1>1. PICK half \in {1, 2} : half = Half(m, va) /\ StartLevel(m.granule, m.tsz[half]) # None
  BY HalfFacts
<1>2. PICK start \in 0..MaxLevel : start = StartLevel(m.granule, m.tsz[half])
  BY <1>1, StartFacts DEF Valid
<1>3. PICK W : /\ WalkFrom(m, t, va, half, el, start) = W[MaxLevel + 1]
               /\ W[start] = Going(Base(m.ttbr[half], PageShift[m.granule]), {})
               /\ \A l \in start..MaxLevel : W[l + 1] = Level(m, t, va, half, el, W[l], l)
  BY WalkUnfolds
<1>4. Shaped(W[start])
  BY <1>3 DEF Going, Shaped
<1>5. ASSUME NEW l \in start..MaxLevel, Shaped(W[l]) PROVE Shaped(W[l + 1])
  BY <1>3, <1>5, LevelShaped
<1>6. Shaped(W[4])
  <2>1. start \in {0, 1, 2, 3} /\ 0 + 1 = 1 /\ 1 + 1 = 2 /\ 2 + 1 = 3 /\ 3 + 1 = 4
    BY DEF MaxLevel
  <2>2. CASE start = 0
    BY <1>4, <1>5, <2>1, <2>2 DEF MaxLevel
  <2>3. CASE start = 1
    BY <1>4, <1>5, <2>1, <2>3 DEF MaxLevel
  <2>4. CASE start = 2
    BY <1>4, <1>5, <2>1, <2>4 DEF MaxLevel
  <2>5. CASE start = 3
    BY <1>4, <1>5, <2>1, <2>5 DEF MaxLevel
  <2> QED
    BY <2>1, <2>2, <2>3, <2>4, <2>5
<1>7. Shaped(WalkFrom(m, t, va, half, el, start))
  BY <1>3, <1>6 DEF MaxLevel
<1>8. \A f : f.ok = FALSE => Shaped(Failed(f))
  BY DEF Shaped, Failed
<1>9. \A kind, level, c, d, o : Fault(kind, level, c, d, o).ok = FALSE
  BY DEF Fault
<1> QED
  BY <1>1, <1>2, <1>7, <1>8, <1>9 DEF Walk, InputFault

(* Only a walk that ends at a leaf translates.                             *)
LEMMA OnlyLeafOk ==
  ASSUME NEW m, Valid(m), NEW t, NEW va, NEW access, NEW el, Half(m, va) # None,
         Cold(m, t, va, access, el).ok
  PROVE  Walk(m, t, va, el).at = "leaf"
<1>1. PICK w : w = Walk(m, t, va, el)
  OBVIOUS
<1>2. Shaped(w)
  BY <1>1, WalkShaped
<1>3. CASE w.at = "fault"
  BY <1>1, <1>2, <1>3 DEF Cold, Shaped
<1>4. CASE w.at = "table"
  BY <1>1, <1>4 DEF Cold, Fault
<1> QED
  BY <1>1, <1>2, <1>3, <1>4 DEF Shaped

LEMMA EmptySound ==
  ASSUME NEW m, m.tlb = EmptyTlb, m.next = 0, NEW contents
  PROVE  TlbInv(m, contents)
<1>1. 0 \in 0..(TlbEntries - 1)
  BY MmuAssumption
<1>2. DOMAIN EmptyTlb = 0..(TlbEntries - 1) /\ \A i \in 0..(TlbEntries - 1) : EmptyTlb[i] = {}
  BY DEF EmptyTlb
<1> QED
  BY <1>1, <1>2 DEF TlbInv

LEMMA InitMmu == Init => MmuInv
<1> SUFFICES ASSUME Init PROVE MmuInv
  OBVIOUS
<1>1. mmu = Disabled /\ tables \in seen
  BY DEF Init
<1>2. DOMAIN mmu = Fields /\ mmu.enabled = FALSE /\ mmu.tlb = EmptyTlb /\ mmu.next = 0
  BY <1>1 DEF Disabled, Fields
<1> QED
  BY <1>1, <1>2, EmptySound DEF MmuInv

\* Enabled, with an empty TLB, and with any.
Clean(m) == DOMAIN m = Fields /\ m.enabled = TRUE /\ Valid(m) /\ m.tlb = EmptyTlb /\ m.next = 0
Live(m, contents) == DOMAIN m = Fields /\ m.enabled = TRUE /\ Valid(m) /\ TlbInv(m, contents)

(* What is accepted is valid.                                              *)
LEMMA ConfiguredSound ==
  ASSUME NEW t0, NEW t1, NEW tcr, Accepts(t0, t1, tcr), NEW asid, NEW m,
         m = Configured(t0, t1, tcr, asid)
  PROVE  Clean(m)
<1>1. /\ DOMAIN m = Fields /\ m.enabled = TRUE /\ m.tlb = EmptyTlb /\ m.next = 0
      /\ m.granule = Tg0(tcr.tg0) /\ m.tsz = <<tcr.t0sz, tcr.t1sz>>
  BY DEF Configured, Fields
<1>2. m.tsz[1] = tcr.t0sz /\ m.tsz[2] = tcr.t1sz
  BY <1>1
<1>3. Tg0(tcr.tg0) \in Granule
  BY DEF Accepts, Tg0, Granule
<1> QED
  BY <1>1, <1>2, <1>3 DEF Accepts, HalfValid, Valid, Clean

LEMMA CachedSound ==
  ASSUME NEW m, NEW contents, Live(m, contents),
         NEW t \in contents, NEW va \in Vas, NEW el \in El, Half(m, va) # None,
         Walk(m, t, va, el).at = "leaf",
         NEW n, n = Cached(m, Walk(m, t, va, el).leaf, va, el)
  PROVE  Live(n, contents)
<1>0. DOMAIN m = Fields /\ m.enabled = TRUE /\ Valid(m) /\ TlbInv(m, contents)
  BY DEF Live
<1>1. PICK new : new = Entry(m, Walk(m, t, va, el).leaf, va, el)
  OBVIOUS
<1>2. PICK k : k = (m.next + 1) % TlbEntries
  OBVIOUS
<1>3. PICK at \in 0..(TlbEntries - 1) : at = m.next
  BY <1>0 DEF TlbInv
<1>4. n = [m EXCEPT !.tlb[at] = {new}, !.next = k]
  BY <1>1, <1>2, <1>3 DEF Cached
<1>5. /\ DOMAIN n = Fields /\ n.tlb = [m.tlb EXCEPT ![at] = {new}] /\ n.next = k
      /\ n.enabled = TRUE /\ SameRegime(m, n) /\ SameRegime(n, m)
  BY <1>0, <1>4 DEF Fields, SameRegime
<1>6. k \in 0..(TlbEntries - 1)
  BY <1>2, <1>3, MmuAssumption
<1>7. Valid(n)
  BY <1>0, <1>5 DEF Valid, SameRegime
<1>8. ASSUME NEW e, Filled(m, e, contents) PROVE Filled(n, e, contents)
  <2>1. PICK u \in contents, a \in Vas, fl \in El :
           /\ Half(m, a) # None /\ Walk(m, u, a, fl).at = "leaf"
           /\ e = Entry(m, Walk(m, u, a, fl).leaf, a, fl)
    BY <1>8 DEF Filled
  <2>2. Half(n, a) = Half(m, a) /\ Walk(n, u, a, fl) = Walk(m, u, a, fl)
    <3>1. PICK s : s = Walk(m, u, a, fl).leaf.shift
      OBVIOUS
    <3> QED
      BY <1>0, <1>5, <2>1, <3>1, AddressTyped, WalkSame
  <2>3. e = Entry(n, Walk(n, u, a, fl).leaf, a, fl)
    BY <1>5, <2>1, <2>2 DEF Entry, SameRegime
  <2> QED
    BY <2>1, <2>2, <2>3 DEF Filled
<1>9. Filled(n, new, contents)
  <2>1. Filled(m, new, contents)
    BY <1>1 DEF Filled
  <2> QED
    BY <1>8, <2>1
<1>10. ASSUME NEW i \in 0..(TlbEntries - 1)
       PROVE  /\ \A e, f \in n.tlb[i] : e = f
              /\ \A e \in n.tlb[i] : Filled(n, e, contents)
  <2>1. i \in DOMAIN m.tlb
    BY <1>0 DEF TlbInv
  <2>2. CASE i = at
    <3>1. n.tlb[i] = {new}
      BY <1>5, <2>1, <2>2
    <3> QED
      BY <1>9, <3>1
  <2>3. CASE i # at
    <3>1. n.tlb[i] = m.tlb[i]
      BY <1>5, <2>1, <2>3
    <3> QED
      BY <1>0, <1>8, <3>1 DEF TlbInv
  <2> QED
    BY <2>2, <2>3
<1>11. DOMAIN n.tlb = 0..(TlbEntries - 1)
  BY <1>0, <1>5 DEF TlbInv
<1> QED
  BY <1>5, <1>6, <1>7, <1>10, <1>11 DEF TlbInv, Live

LEMMA NextMmu == MmuInv /\ [Next]_vars => MmuInv'
<1> SUFFICES ASSUME MmuInv, [Next]_vars PROVE MmuInv'
  OBVIOUS
<1>0. /\ DOMAIN mmu = Fields /\ mmu.enabled \in BOOLEAN /\ (mmu.enabled => Valid(mmu))
      /\ tables \in seen /\ TlbInv(mmu, seen)
  BY DEF MmuInv
<1>1. ASSUME Configure PROVE MmuInv'
  <2>1. PICK s \in Settings : /\ Accepts(s[1], s[2], s[3])
                              /\ mmu' = Configured(s[1], s[2], s[3], SelectedAsid(s[1], s[2], s[3]))
    BY <1>1 DEF Configure
  <2>2. PICK asid, m : asid = SelectedAsid(s[1], s[2], s[3]) /\ m = mmu'
    OBVIOUS
  <2>3. Clean(m)
    BY <2>1, <2>2, ConfiguredSound
  <2>4. tables' \in seen'
    BY <1>1 DEF Configure
  <2>5. TlbInv(mmu', seen')
    BY <2>2, <2>3, EmptySound DEF Clean
  <2> QED
    BY <2>2, <2>3, <2>4, <2>5 DEF MmuInv, Clean
<1>2. ASSUME ConfigureStrict PROVE MmuInv'
  <2>1. PICK s \in Settings : Accepts(s[1], s[2], s[3]) /\ mmu' = StrictConfigured(s[1], s[2], s[3])
    BY <1>2 DEF ConfigureStrict
  <2>2. PICK asid, d : /\ asid = SelectedAsid(s[1], s[2], s[3])
                       /\ d = Configured(s[1], s[2], s[3], asid)
    OBVIOUS
  <2>3. Clean(d)
    BY <2>1, <2>2, ConfiguredSound
  <2>4. mmu' = [d EXCEPT !.strict = TRUE]
    BY <2>1, <2>2 DEF StrictConfigured
  <2>5. /\ DOMAIN mmu' = Fields /\ mmu'.enabled = TRUE /\ mmu'.tlb = EmptyTlb /\ mmu'.next = 0
        /\ mmu'.granule = d.granule /\ mmu'.tsz = d.tsz
    BY <2>3, <2>4 DEF Fields, Clean
  <2>6. Valid(mmu')
    BY <2>3, <2>5 DEF Valid, Clean
  <2>7. tables' \in seen'
    BY <1>2 DEF ConfigureStrict
  <2>8. TlbInv(mmu', seen')
    BY <2>5, EmptySound
  <2> QED
    BY <2>5, <2>6, <2>7, <2>8 DEF MmuInv
<1>3. ASSUME Disable PROVE MmuInv'
  <2>1. /\ DOMAIN mmu' = Fields /\ mmu'.enabled = FALSE /\ mmu'.tlb = EmptyTlb /\ mmu'.next = 0
        /\ tables' \in seen'
    BY <1>0, <1>3 DEF Disable, Invalidated, Fields
  <2>2. TlbInv(mmu', seen')
    BY <2>1, EmptySound
  <2> QED
    BY <2>1, <2>2 DEF MmuInv
<1>4. ASSUME Invalidate PROVE MmuInv'
  <2>1. /\ DOMAIN mmu' = Fields /\ mmu'.enabled = mmu.enabled /\ mmu'.tlb = EmptyTlb
        /\ mmu'.next = 0 /\ mmu'.granule = mmu.granule /\ mmu'.tsz = mmu.tsz /\ tables' \in seen'
    BY <1>0, <1>4 DEF Invalidate, Invalidated, Fields
  <2>2. TlbInv(mmu', seen')
    BY <2>1, EmptySound
  <2>3. Valid(mmu) => Valid(mmu')
    BY <2>1 DEF Valid
  <2> QED
    BY <1>0, <2>1, <2>2, <2>3 DEF MmuInv
<1>5. ASSUME Translate PROVE MmuInv'
  <2>1. PICK va \in Vas, access \in Access, el \in El :
           mmu' = AfterTranslate(mmu, tables, va, access, el)
    BY <1>5 DEF Translate
  <2>2. tables' = tables /\ seen' = seen
    BY <1>5 DEF Translate
  <2>3. CASE mmu' = mmu
    BY <1>0, <2>2, <2>3 DEF MmuInv
  <2>4. CASE mmu' # mmu
    <3>1. /\ Looked(mmu, va, access) /\ Cold(mmu, tables, va, access, el).ok
          /\ mmu' = Cached(mmu, Walk(mmu, tables, va, el).leaf, va, el)
      BY <2>1, <2>4 DEF AfterTranslate
    <3>2. mmu.enabled = TRUE /\ Half(mmu, va) # None
      BY <1>0, <3>1 DEF Looked
    <3>3. Walk(mmu, tables, va, el).at = "leaf"
      BY <1>0, <3>1, <3>2, OnlyLeafOk
    <3>4. PICK m, n, t : m = mmu /\ n = mmu' /\ t = tables
      OBVIOUS
    <3>5. Live(m, seen) /\ t \in seen
      BY <1>0, <3>2, <3>4 DEF Live
    <3>6. Live(n, seen)
      BY <3>1, <3>2, <3>3, <3>4, <3>5, CachedSound
    <3> QED
      BY <1>0, <2>2, <3>4, <3>6 DEF MmuInv, Live
  <2> QED
    BY <2>3, <2>4
<1>6. ASSUME StoreDescriptor PROVE MmuInv'
  <2>1. mmu' = mmu /\ seen' = seen \cup {tables'}
    BY <1>6 DEF StoreDescriptor
  <2>2. \A e : Filled(mmu, e, seen) => Filled(mmu, e, seen')
    BY <2>1 DEF Filled
  <2>3. TlbInv(mmu, seen')
    BY <1>0, <2>2 DEF TlbInv
  <2> QED
    BY <1>0, <2>1, <2>3 DEF MmuInv
<1>7. ASSUME UNCHANGED vars PROVE MmuInv'
  BY <1>0, <1>7 DEF vars, MmuInv
<1> QED
  BY <1>1, <1>2, <1>3, <1>4, <1>5, <1>6, <1>7 DEF Next, RefuseConfiguration

(* What the TLB answers is what a walk over contents the tables had since  *)
(* the last invalidation would have answered, for every request and every  *)
(* privilege level, whoever filled the entry and however wide it is        *)
(* (mmu.rs, tlb_lookup and cache).                                         *)
THEOREM HotAnswersAreCold == Spec => []HotIsSomeCold
<1>1. MmuInv => HotIsSomeCold
  <2> SUFFICES ASSUME MmuInv, NEW va \in Vas, NEW access \in Access, NEW el \in El,
                      Hit(mmu, va, access, el)
               PROVE  \E t \in seen : Blind(TlbLookup(mmu, va, access, el))
                                        = Blind(Uncached(mmu, t, va, access, el))
    BY DEF HotIsSomeCold
  <2>1. Valid(mmu) /\ TlbInv(mmu, seen)
    BY DEF Hit, Looked, MmuInv
  <2> QED
    BY <2>1, HitIsWalk
<1> QED
  BY <1>1, InitMmu, NextMmu, PTL DEF Spec

-----------------------------------------------------------------------------
(* The path of an address determines its page. *)

\* The index of the table at level l.
Index(m, x, l) == (x \div Pow2[LevelShift(m, l)]) % Pow2[IndexBits[m.granule]]

LEMMA IndexShown ==
  ASSUME NEW m, m.granule \in Granule, NEW l \in 0..MaxLevel, NEW x \in Nat, NEW y \in Nat,
         0 + EntryBytes * Index(m, x, l) = 0 + EntryBytes * Index(m, y, l)
  PROVE  Index(m, x, l) = Index(m, y, l)
<1>1. LevelShift(m, l) \in Nat /\ IndexBits[m.granule] \in Nat
  BY ShiftFacts
<1>2. PICK p \in Nat \ {0}, q \in Nat \ {0} :
        p = Pow2[LevelShift(m, l)] /\ q = Pow2[IndexBits[m.granule]]
  BY <1>1, Pow2Typed
<1>3. PICK i \in Nat, j \in Nat : i = ((x \div p) % q) /\ j = ((y \div p) % q)
  <2>1. (x \div p) \in Nat /\ (y \div p) \in Nat
    BY Divided
  <2>2. ((x \div p) % q) \in Nat /\ ((y \div p) % q) \in Nat
    BY <2>1, Divided
  <2> QED
    BY <2>2
<1>4. PICK z \in Nat \ {0} : z = EntryBytes
  BY MmuAssumption
<1>5. z * i = z * j
  BY <1>2, <1>3, <1>4 DEF Index
<1>6. i = j
  BY <1>5
<1> QED
  BY <1>2, <1>3, <1>6 DEF Index

(* The first table is indexed with all that is left above it.              *)
LEMMA FirstIndex ==
  ASSUME NEW m, m.granule \in Granule, NEW l \in 0..MaxLevel, NEW n \in Nat,
         n <= LevelShift(m, l) + IndexBits[m.granule], NEW x \in Nat, x < Pow2[n]
  PROVE  Index(m, x, l) = (x \div Pow2[LevelShift(m, l)])
<1>1. PICK h \in Nat, ib \in Nat : h = LevelShift(m, l) /\ ib = IndexBits[m.granule]
  BY ShiftFacts
<1>2. PICK p \in Nat \ {0}, q \in Nat \ {0} : p = Pow2[h] /\ q = Pow2[ib]
  BY Pow2Typed
<1>3. x < p * q
  <2>1. Pow2[h + ib] = p * q
    BY <1>2, Pow2Sum
  <2>2. h + ib \in Nat /\ n <= h + ib
    BY <1>1
  <2>3. Pow2[n] <= Pow2[h + ib] /\ Pow2[n] \in Nat
    BY <2>2, Pow2Monotone, Pow2Typed
  <2> QED
    BY <2>1, <2>3
<1>4. PICK a \in Nat : a = (x \div p) /\ p * a <= x
  BY Divided
<1>5. a < q
  <2>1. CASE a >= q
    <3>1. p * a >= p * q
      BY <2>1
    <3> QED
      BY <1>3, <1>4, <3>1
  <2> QED
    BY <2>1
<1>6. a = q * 0 + a
  OBVIOUS
<1>7. (a % q) = a
  BY <1>5, <1>6, DividesOnce
<1> QED
  BY <1>1, <1>2, <1>4, <1>7 DEF Index

LEMMA NextIndex ==
  ASSUME NEW m, m.granule \in Granule, NEW l \in 1..MaxLevel, NEW x \in Nat, NEW y \in Nat,
         (x \div Pow2[LevelShift(m, l - 1)]) = (y \div Pow2[LevelShift(m, l - 1)]),
         Index(m, x, l) = Index(m, y, l)
  PROVE  (x \div Pow2[LevelShift(m, l)]) = (y \div Pow2[LevelShift(m, l)])
<1>0. l \in 0..MaxLevel /\ l > 0
  OBVIOUS
<1>1. PICK h \in Nat, ib \in Nat :
        h = LevelShift(m, l) /\ ib = IndexBits[m.granule] /\ LevelShift(m, l - 1) = h + ib
  BY <1>0, ShiftFacts
<1>2. PICK p \in Nat \ {0}, q \in Nat \ {0} : p = Pow2[h] /\ q = Pow2[ib]
  BY Pow2Typed
<1>3. PICK d : d = Pow2[h + ib] /\ d = p * q
  BY <1>2, Pow2Sum
<1>4. Splits(x, p, q, d) /\ Splits(y, p, q, d)
  BY <1>3, Digits
<1>5. (x \div d) = (y \div d) /\ ((x \div p) % q) = ((y \div p) % q)
  BY <1>1, <1>2, <1>3 DEF Index
<1>6. PICK a, b, c, e, f, g : /\ a = (x \div p) /\ b = (x \div d) /\ c = ((x \div p) % q)
                              /\ e = (y \div p) /\ f = (y \div d) /\ g = ((y \div p) % q)
  OBVIOUS
<1>7. a = q * b + c /\ e = q * f + g
  BY <1>4, <1>6 DEF Splits
<1>8. b = f /\ c = g
  BY <1>5, <1>6
<1> QED
  BY <1>1, <1>2, <1>6, <1>7, <1>8

LEMMA PathIsPage ==
  ASSUME NEW m, Valid(m), NEW a \in Nat, NEW b \in Nat, Half(m, a) # None, Half(m, b) # None,
         Path(m, a) = Path(m, b)
  PROVE  (a \div Pow2[PageShift[m.granule]]) = (b \div Pow2[PageShift[m.granule]])
<1>1. PICK half \in {1, 2} :
        /\ half = Half(m, a) /\ StartLevel(m.granule, m.tsz[half]) # None
        /\ (a \div Pow2[AddrBits - m.tsz[half]]) = High(m, half)
  BY HalfFacts
<1>2. m.granule \in Granule
  BY DEF Valid
<1>3. PICK start \in 0..MaxLevel, n \in Nat :
        /\ start = StartLevel(m.granule, m.tsz[half]) /\ n = AddrBits - m.tsz[half]
        /\ PageShift[m.granule] <= n
        /\ n <= LevelShift(m, start) + IndexBits[m.granule]
  BY <1>1, <1>2, StartFacts
<1>4. Half(m, b) = half
  BY <1>1 DEF Path
<1>5. (b \div Pow2[n]) = High(m, half) /\ (a \div Pow2[n]) = High(m, half)
  BY <1>1, <1>3, <1>4, HalfFacts
<1>6. PICK f, g : /\ f = [l \in start..MaxLevel |-> EntryAddress(m, a, half, l, 0)]
                  /\ g = [l \in start..MaxLevel |-> EntryAddress(m, b, half, l, 0)]
  OBVIOUS
<1>7. f = g
  <2>1. Path(m, a) = <<half, f>> /\ Path(m, b) = <<half, g>>
    BY <1>1, <1>3, <1>4, <1>6 DEF Path
  <2>2. <<half, f>> = <<half, g>>
    BY <2>1
  <2>3. ASSUME NEW u, NEW v, NEW c, <<c, u>> = <<c, v>> PROVE u = v
    <3>1. <<c, u>>[2] = u /\ <<c, v>>[2] = v
      OBVIOUS
    <3> QED
      BY <3>1, <2>3
  <2> QED
    BY <2>2, <2>3
<1>8. PICK w \in Nat \ {0} : w = Pow2[n]
  BY Pow2Typed
<1>9. PICK x \in Nat, y \in Nat : /\ x = Offset(a, n) /\ x < Pow2[n]
                                  /\ y = Offset(b, n) /\ y < Pow2[n]
  <2>1. (a % w) \in Nat /\ (a % w) < w /\ (b % w) \in Nat /\ (b % w) < w
    BY Divided
  <2> QED
    BY <1>8, <2>1 DEF Offset
<1>10. ASSUME NEW l \in start..MaxLevel PROVE Index(m, x, l) = Index(m, y, l)
  <2>1. EntryAddress(m, a, half, l, 0) = EntryAddress(m, b, half, l, 0)
    BY <1>6, <1>7
  <2>2. 0 + EntryBytes * Index(m, x, l) = 0 + EntryBytes * Index(m, y, l)
    BY <1>3, <1>9, <2>1 DEF EntryAddress, Index
  <2>3. l \in 0..MaxLevel
    BY DEF MaxLevel
  <2> QED
    BY <1>2, <2>2, <2>3, IndexShown
<1> DEFINE Same(l) == (x \div Pow2[LevelShift(m, l)]) = (y \div Pow2[LevelShift(m, l)])
<1>11. Same(start)
  <2>1. start \in start..MaxLevel
    BY DEF MaxLevel
  <2>2. Index(m, x, start) = Index(m, y, start)
    BY <1>10, <2>1
  <2>3. Index(m, x, start) = (x \div Pow2[LevelShift(m, start)])
    BY <1>2, <1>3, <1>9, FirstIndex
  <2>4. Index(m, y, start) = (y \div Pow2[LevelShift(m, start)])
    BY <1>2, <1>3, <1>9, FirstIndex
  <2> QED
    BY <2>2, <2>3, <2>4
<1>12. ASSUME NEW l \in start..MaxLevel, l # start, Same(l - 1) PROVE Same(l)
  <2>1. l \in 1..MaxLevel
    BY <1>12 DEF MaxLevel
  <2> QED
    BY <1>2, <1>10, <1>12, <2>1, NextIndex
<1>13. Same(3)
  <2> HIDE DEF Same
  <2>1. start \in {0, 1, 2, 3} /\ 1 - 1 = 0 /\ 2 - 1 = 1 /\ 3 - 1 = 2
    BY DEF MaxLevel
  <2>2. start < 1 /\ Same(0) => Same(1)
    BY <1>12, <2>1 DEF MaxLevel
  <2>3. start < 2 /\ Same(1) => Same(2)
    BY <1>12, <2>1 DEF MaxLevel
  <2>4. start < 3 /\ Same(2) => Same(3)
    BY <1>12, <2>1 DEF MaxLevel
  <2> QED
    BY <1>11, <2>1, <2>2, <2>3, <2>4
<1>14. PICK ps \in Nat : ps = PageShift[m.granule] /\ LevelShift(m, 3) = ps
  <2>1. 3 \in 0..MaxLevel /\ MaxLevel = 3
    BY DEF MaxLevel
  <2> QED
    BY <1>2, <2>1, ShiftFacts
<1>15. PICK c \in Nat : ps + c = n
  <2>1. n - ps \in Nat /\ ps + (n - ps) = n
    BY <1>3, <1>14
  <2> QED
    BY <2>1
<1>16. PICK p \in Nat \ {0}, q \in Nat \ {0} : p = Pow2[ps] /\ q = Pow2[c]
  BY Pow2Typed
<1>17. w = p * q
  BY <1>8, <1>15, <1>16, Pow2Sum
<1>18. Splits(a, p, q, w) /\ Splits(b, p, q, w)
  BY <1>17, Digits
<1>19. (a \div w) = (b \div w) /\ ((a % w) \div p) = ((b % w) \div p)
  BY <1>5, <1>8, <1>9, <1>13, <1>14, <1>16 DEF Offset
<1>20. PICK i, j, k, h : /\ i = (a \div w) /\ j = ((a % w) \div p)
                         /\ k = (b \div w) /\ h = ((b % w) \div p)
  OBVIOUS
<1>21. (a \div p) = q * i + j /\ (b \div p) = q * k + h
  BY <1>18, <1>20 DEF Splits
<1>22. i = k /\ j = h
  BY <1>19, <1>20
<1> QED
  BY <1>14, <1>16, <1>21, <1>22

(* Under every configuration that is accepted, addresses of different      *)
(* pages take different paths: the start level and the indices lose no bit *)
(* of an address (mmu.rs, Granule::start_level and translate_detailed).    *)
THEOREM NoBitLost == Spec => []PathsSeparatePages
<1>1. MmuInv => PathsSeparatePages
  <2> SUFFICES ASSUME MmuInv, mmu.enabled, NEW a \in Vas, NEW b \in Vas,
                      Half(mmu, a) # None, Half(mmu, b) # None, Path(mmu, a) = Path(mmu, b)
               PROVE  (a \div Pow2[PageShift[mmu.granule]]) = (b \div Pow2[PageShift[mmu.granule]])
    BY DEF PathsSeparatePages
  <2>1. Valid(mmu) /\ a \in Nat /\ b \in Nat
    BY AddressTyped DEF MmuInv
  <2> QED
    BY <2>1, PathIsPage
<1> QED
  BY <1>1, InitMmu, NextMmu, PTL DEF Spec
=============================================================================
