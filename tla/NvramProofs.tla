---------------------------- MODULE NvramProofs ----------------------------
(***************************************************************************)
(* The NVRAM bank, for every set of images, bank length, number of         *)
(* variables and staging size, and for any number of saves.                *)
(***************************************************************************)
EXTENDS Nvram, WellFoundedInduction, TLAPS

-----------------------------------------------------------------------------
(* What the loops over a bank compute: induction on a set of numbers, and  *)
(* the function a recursive definition stands for.                         *)

LEMMA Induction ==
  ASSUME NEW S, 0 \in S, \A n \in Nat : n \in S => n + 1 \in S
  PROVE  \A n \in Nat : n \in S
<1> SUFFICES ASSUME Nat \ S # {} PROVE FALSE
  OBVIOUS
<1>1. PICK m \in Nat \ S : \A k \in Nat \ S : ~(<<k, m>> \in OpToRel(<, Nat))
  BY WFMin, NatLessThanWellFounded, Zenon
<1>2. \A k \in Nat \ S : ~(k < m)
  BY <1>1 DEF OpToRel
<1>3. PICK p : p = m - 1
  OBVIOUS
<1>4. m \in Nat /\ m \notin S
  OBVIOUS
<1>5. m # 0
  BY <1>4
<1>6. p \in Nat /\ p < m /\ p + 1 = m
  BY <1>3, <1>4, <1>5
<1>7. p \in S
  BY <1>2, <1>6
<1> QED
  BY <1>4, <1>6, <1>7

Runs(T, base, n, step, g) ==
  /\ g \in [0..n -> T]
  /\ g[0] = base
  /\ \A i \in 1..n : g[i] = step[<<i, g[i - 1]>>]

LEMMA Recursion ==
  ASSUME NEW T, NEW base \in T, NEW n \in Nat, NEW step \in [(1..n) \X T -> T]
  PROVE  \E g : Runs(T, base, n, step, g)
<1> DEFINE RunTo(g, m) == Runs(T, base, m, step, g)
           S == {m \in Nat : m <= n => \E g : RunTo(g, m)}
<1> USE DEF Runs
<1>1. 0 \in S
  <2>1. RunTo([i \in 0..0 |-> base], 0)
    OBVIOUS
  <2> QED
    BY <2>1
<1>2. ASSUME NEW m \in Nat, m \in S PROVE m + 1 \in S
  <2> SUFFICES ASSUME m + 1 <= n PROVE \E g : RunTo(g, m + 1)
    OBVIOUS
  <2>1. PICK g : RunTo(g, m)
    BY <1>2
  <2>2. PICK x \in T : x = step[<<m + 1, g[m]>>]
    <3>1. m + 1 \in 1..n /\ g[m] \in T
      BY <2>1
    <3> QED
      BY <3>1
  <2>3. PICK h : h = [i \in 0..(m + 1) |-> IF i = m + 1 THEN x ELSE g[i]]
    OBVIOUS
  <2>4. h \in [0..(m + 1) -> T]
    BY <2>1, <2>2, <2>3
  <2>5. h[0] = base
    BY <2>1, <2>3
  <2>6. ASSUME NEW i \in 1..(m + 1) PROVE h[i] = step[<<i, h[i - 1]>>]
    <3>1. i - 1 \in 0..m /\ h[i - 1] = g[i - 1]
      BY <2>3
    <3>2. CASE i = m + 1
      <4>1. i - 1 = m /\ h[i] = x /\ h[m] = g[m]
        BY <2>3, <3>1, <3>2
      <4> QED
        BY <2>2, <3>2, <4>1
    <3>3. CASE i # m + 1
      <4>1. i \in 1..m
        BY <3>3
      <4> QED
        BY <2>1, <2>3, <3>1, <3>3, <4>1
    <3> QED
      BY <3>2, <3>3
  <2> QED
    BY <2>4, <2>5, <2>6
<1>3. n \in S
  <2> HIDE DEF S
  <2> QED
    BY <1>1, <1>2, Induction
<1> QED
  BY <1>3

\* The least member a CHOOSE in the model asks for.
LEMMA LeastExists ==
  ASSUME NEW T, T \subseteq Nat, T # {}
  PROVE  \E i \in T : \A j \in T : i <= j
<1>1. PICK m \in T : \A k \in T : ~(<<k, m>> \in OpToRel(<, Nat))
  BY WFMin, NatLessThanWellFounded, Zenon
<1>2. \A k \in T : ~(k < m)
  BY <1>1, Zenon DEF OpToRel
<1> QED
  BY <1>2

\* The longest prefix that meets no member of F.
LEMMA PrefixExists ==
  ASSUME NEW n \in Nat, NEW F, F \subseteq 1..n
  PROVE  \E k \in 0..n : (\A i \in 1..k : i \notin F) /\ (k < n => k + 1 \in F)
<1>1. CASE F = {}
  BY <1>1
<1>2. CASE F # {}
  <2>1. PICK m \in F : \A j \in F : m <= j
    <3>1. F \subseteq Nat
      OBVIOUS
    <3> QED
      BY <1>2, <3>1, LeastExists, Zenon
  <2>2. m - 1 \in 0..n /\ (m - 1) + 1 = m
    BY <2>1
  <2> QED
    BY <2>1, <2>2
<1> QED
  BY <1>1, <1>2

-----------------------------------------------------------------------------
(* Variables. *)

Env == {e \in Seq(Var) : /\ Len(e) <= MaxEnv
                         /\ \A i, j \in 1..Len(e) : e[i].name = e[j].name => i = j}

Free(env, name) == \A i \in 1..Len(env) : env[i].name # name

(* What the removal of a name that is there leaves (nvram_v1.c:369-389).   *)
LEMMA UnsetFound ==
  ASSUME NEW env \in Seq(Var), NEW k \in 1..Len(env),
         \A i \in 1..(k - 1) : env[i].name # env[k].name
  PROVE  Unset(env, env[k].name)
            = [i \in 1..(Len(env) - 1) |-> env[IF i < k THEN i ELSE i + 1]]
<1> DEFINE found == {i \in 1..Len(env) : env[i].name = env[k].name}
           Least(i) == i \in found /\ \A j \in found : i <= j
<1>1. Least(k)
  OBVIOUS
<1>2. \A i : Least(i) => i = k
  <2>1. \A j \in found : j \in Nat
    OBVIOUS
  <2> QED
    BY <1>1, <2>1
<1>3. (CHOOSE i \in found : \A j \in found : i <= j) = k
  BY <1>1, <1>2
<1> QED
  BY <1>1, <1>3 DEF Unset

LEMMA UnsetAbsent ==
  ASSUME NEW env, NEW name, Free(env, name)
  PROVE  Unset(env, name) = env
BY DEF Unset, Free

(* A name set after its removal is all that its next removal takes out.   *)
LEMMA UnsetAppended ==
  ASSUME NEW env \in Seq(Var), NEW v \in Var, Free(env, v.name)
  PROVE  Unset(Append(env, v), v.name) = env
<1>1. PICK e : e = Append(env, v)
  OBVIOUS
<1>2. e \in Seq(Var) /\ Len(e) = Len(env) + 1 /\ e[Len(env) + 1] = v
  BY <1>1
<1>3. \A i \in 1..Len(env) : e[i] = env[i]
  BY <1>1
<1>4. PICK k : k = Len(env) + 1
  OBVIOUS
<1>5. k \in 1..Len(e) /\ e[k] = v /\ Len(e) - 1 = Len(env) /\ k - 1 = Len(env)
  BY <1>2, <1>4
<1>6. Unset(e, v.name) = [i \in 1..(Len(e) - 1) |-> e[IF i < k THEN i ELSE i + 1]]
  <2>1. \A i \in 1..(k - 1) : e[i].name # e[k].name
    BY <1>3, <1>5 DEF Free
  <2> QED
    BY <1>2, <1>5, <2>1, UnsetFound
<1>7. Unset(e, v.name) = [i \in 1..Len(env) |-> env[i]]
  BY <1>3, <1>4, <1>5, <1>6
<1> QED
  BY <1>1, <1>7

LEMMA UnsetKeeps ==
  ASSUME NEW env \in Env, NEW name
  PROVE  Unset(env, name) \in Env /\ Free(Unset(env, name), name)
<1>1. CASE Free(env, name)
  BY <1>1, UnsetAbsent
<1>2. CASE ~Free(env, name)
  <2>1. PICK k \in 1..Len(env) : env[k].name = name
    BY <1>2 DEF Free
  <2>2. env \in Seq(Var) /\ Len(env) <= MaxEnv /\ Len(env) \in Nat
    BY DEF Env
  <2>3. \A i, j \in 1..Len(env) : env[i].name = env[j].name => i = j
    BY DEF Env
  <2>4. PICK e : e = [i \in 1..(Len(env) - 1) |-> env[IF i < k THEN i ELSE i + 1]]
    OBVIOUS
  <2>5. Unset(env, name) = e
    BY <2>1, <2>2, <2>3, <2>4, UnsetFound
  <2>6. Len(env) - 1 \in Nat
    BY <2>1, <2>2
  <2>7. \A i \in 1..(Len(env) - 1) : env[IF i < k THEN i ELSE i + 1] \in Var
    BY <2>1, <2>2
  <2>8. e \in Seq(Var) /\ Len(e) = Len(env) - 1
    BY <2>4, <2>6, <2>7
  <2>9. Len(e) <= MaxEnv
    BY <2>2, <2>8, NvramAssumption
  <2>10. ASSUME NEW i \in 1..Len(e), NEW j \in 1..Len(e), e[i].name = e[j].name
         PROVE  i = j
    BY <2>1, <2>2, <2>3, <2>4, <2>8, <2>10
  <2>11. ASSUME NEW i \in 1..Len(e) PROVE e[i].name # name
    BY <2>1, <2>2, <2>3, <2>4, <2>8
  <2>12. e \in Env
    BY <2>8, <2>9, <2>10 DEF Env
  <2> QED
    BY <2>5, <2>11, <2>12 DEF Free
<1> QED
  BY <1>1, <1>2

(* A variable set leaves no name twice (nvram_v1.c:391-415).               *)
LEMMA EnvSetKeeps ==
  ASSUME NEW env \in Env, NEW v \in Var
  PROVE  /\ EnvSet(env, v.name, v.value).ok \in BOOLEAN
         /\ EnvSet(env, v.name, v.value).env \in Env
<1>1. PICK rest : rest = Unset(env, v.name)
  OBVIOUS
<1>2. rest \in Env /\ Free(rest, v.name)
  BY <1>1, UnsetKeeps
<1>3. [name |-> v.name, value |-> v.value] = v
  BY DEF Var
<1>4. CASE Len(rest) >= MaxEnv
  BY <1>1, <1>2, <1>4 DEF EnvSet
<1>5. CASE ~(Len(rest) >= MaxEnv)
  <2>1. EnvSet(env, v.name, v.value) = [ok |-> TRUE, env |-> Append(rest, v)]
    BY <1>1, <1>3, <1>5 DEF EnvSet
  <2>2. rest \in Seq(Var) /\ Len(rest) \in Nat
    BY <1>2 DEF Env
  <2>3. \A i, j \in 1..Len(rest) : rest[i].name = rest[j].name => i = j
    BY <1>2 DEF Env
  <2>4. PICK e : e = Append(rest, v)
    OBVIOUS
  <2>5. e \in Seq(Var) /\ Len(e) = Len(rest) + 1 /\ e[Len(rest) + 1] = v
    BY <2>2, <2>4
  <2>6. \A i \in 1..Len(rest) : e[i] = rest[i]
    BY <2>2, <2>4
  <2>7. Len(e) <= MaxEnv
    BY <1>5, <2>2, <2>5, NvramAssumption
  <2>8. ASSUME NEW i \in 1..Len(e), NEW j \in 1..Len(e), e[i].name = e[j].name
        PROVE  i = j
    BY <1>2, <2>2, <2>3, <2>5, <2>6, <2>8 DEF Free
  <2>9. e \in Env
    BY <2>5, <2>7, <2>8 DEF Env
  <2> QED
    BY <2>1, <2>4, <2>9
<1> QED
  BY <1>4, <1>5

Loading == [ok : BOOLEAN, env : Env]

LoadStep(before, v) ==
  LET r == EnvSet(before.env, v.name, v.value)
  IN  [ok |-> before.ok /\ r.ok, env |-> r.env]

IsLoad(entries, f) ==
  f = [i \in 0..Len(entries) |->
         IF i = 0 THEN [ok |-> TRUE, env |-> <<>>]
         ELSE LET r == EnvSet(f[i - 1].env, entries[i].name, entries[i].value)
              IN  [ok |-> f[i - 1].ok /\ r.ok, env |-> r.env]]

LEMMA LoadStepKeeps ==
  ASSUME NEW t \in Loading, NEW v \in Var
  PROVE  LoadStep(t, v) \in Loading
<1>1. t.env \in Env /\ t.ok \in BOOLEAN
  BY DEF Loading
<1>2. PICK r : r = EnvSet(t.env, v.name, v.value)
  OBVIOUS
<1>3. r.ok \in BOOLEAN /\ r.env \in Env
  BY <1>1, <1>2, EnvSetKeeps
<1>4. LoadStep(t, v) = [ok |-> t.ok /\ r.ok, env |-> r.env]
  BY <1>2, Zenon DEF LoadStep
<1>5. (t.ok /\ r.ok) \in BOOLEAN
  OBVIOUS
<1> QED
  BY <1>3, <1>4, <1>5 DEF Loading

LEMMA EmptyEnv == <<>> \in Env /\ [ok |-> TRUE, env |-> <<>>] \in Loading
<1>1. <<>> \in Seq(Var) /\ Len(<<>>) = 0
  OBVIOUS
<1>2. <<>> \in Env
  BY <1>1, NvramAssumption DEF Env
<1> QED
  BY <1>2 DEF Loading

(* The loop over a partition's entries ends, and its result is unfolded    *)
(* entry by entry (nvram_v1.c:204-260).                                    *)
LEMMA LoadEnvUnfolds ==
  ASSUME NEW entries \in Seq(Var)
  PROVE  \E f : /\ LoadEnv(entries) = f[Len(entries)]
                /\ f[0] = [ok |-> TRUE, env |-> <<>>]
                /\ \A i \in 1..Len(entries) : f[i] = LoadStep(f[i - 1], entries[i])
<1>1. PICK n \in Nat : n = Len(entries)
  OBVIOUS
<1>2. PICK step : step = [p \in (1..n) \X Loading |-> LoadStep(p[2], entries[p[1]])]
  OBVIOUS
<1>3. \A i \in 1..n : entries[i] \in Var
  BY <1>1
<1>4. step \in [(1..n) \X Loading -> Loading]
  BY <1>2, <1>3, LoadStepKeeps
<1>5. PICK g \in [0..n -> Loading] :
        /\ g[0] = [ok |-> TRUE, env |-> <<>>]
        /\ \A i \in 1..n : g[i] = step[<<i, g[i - 1]>>]
  <2>1. PICK base \in Loading : base = [ok |-> TRUE, env |-> <<>>]
    BY EmptyEnv
  <2>2. \E g : Runs(Loading, base, n, step, g)
    BY <1>4, Recursion
  <2> QED
    BY <2>1, <2>2 DEF Runs
<1>6. ASSUME NEW i \in 1..n PROVE g[i] = LoadStep(g[i - 1], entries[i])
  <2>1. g[i - 1] \in Loading
    BY <1>5
  <2>2. PICK p \in (1..n) \X Loading : p = <<i, g[i - 1]>>
    BY <2>1
  <2>3. p[1] = i /\ p[2] = g[i - 1]
    BY <2>2
  <2>4. g[i] = step[p]
    BY <1>5, <2>2
  <2> QED
    BY <1>2, <2>3, <2>4
<1>7. IsLoad(entries, g)
  <2>1. \A i \in 0..n : i # 0 => i \in 1..n
    OBVIOUS
  <2>2. g = [i \in 0..n |-> g[i]]
    BY <1>5
  <2>3. \A i \in 0..n : g[i] = IF i = 0 THEN [ok |-> TRUE, env |-> <<>>]
                                ELSE LoadStep(g[i - 1], entries[i])
    BY <1>5, <1>6, <2>1
  <2>4. g = [i \in 0..n |-> IF i = 0 THEN [ok |-> TRUE, env |-> <<>>]
                             ELSE LoadStep(g[i - 1], entries[i])]
    BY <2>2, <2>3
  <2> QED
    BY <1>1, <2>4 DEF IsLoad, LoadStep
<1>8. PICK f : f = CHOOSE h : IsLoad(entries, h)
  OBVIOUS
<1>9. IsLoad(entries, f)
  BY <1>7, <1>8
<1>10. LoadEnv(entries) = f[Len(entries)]
  BY <1>8 DEF LoadEnv, IsLoad
<1>11. f = [i \in 0..n |-> IF i = 0 THEN [ok |-> TRUE, env |-> <<>>]
                            ELSE LoadStep(f[i - 1], entries[i])]
  BY <1>1, <1>9, Zenon DEF IsLoad, LoadStep
<1>12. f[0] = [ok |-> TRUE, env |-> <<>>]
  BY <1>11
<1>13. ASSUME NEW i \in 1..n PROVE f[i] = LoadStep(f[i - 1], entries[i])
  <2>1. i \in 0..n /\ i # 0
    OBVIOUS
  <2> QED
    BY <1>11, <2>1
<1> QED
  BY <1>1, <1>10, <1>12, <1>13

(* Whatever the entries, no variable is loaded twice, nor more than fit.   *)
LEMMA LoadEnvKeeps ==
  ASSUME NEW entries \in Seq(Var)
  PROVE  LoadEnv(entries) \in Loading
<1>1. PICK f : /\ LoadEnv(entries) = f[Len(entries)]
               /\ f[0] = [ok |-> TRUE, env |-> <<>>]
               /\ \A i \in 1..Len(entries) : f[i] = LoadStep(f[i - 1], entries[i])
  BY LoadEnvUnfolds
<1> DEFINE S == {n \in Nat : n <= Len(entries) => f[n] \in Loading}
<1>2. 0 \in S
  BY <1>1, EmptyEnv
<1>3. ASSUME NEW n \in Nat, n \in S PROVE n + 1 \in S
  <2> SUFFICES ASSUME n + 1 <= Len(entries) PROVE f[n + 1] \in Loading
    OBVIOUS
  <2>1. n + 1 \in 1..Len(entries) /\ (n + 1) - 1 = n
    OBVIOUS
  <2>2. f[n] \in Loading /\ entries[n + 1] \in Var
    BY <1>3, <2>1
  <2> QED
    BY <1>1, <2>1, <2>2, LoadStepKeeps
<1>4. Len(entries) \in S
  <2>1. Len(entries) \in Nat
    OBVIOUS
  <2> HIDE DEF S
  <2> QED
    BY <1>2, <1>3, <2>1, Induction
<1> QED
  BY <1>1, <1>4

(* An environment with no name twice, that fits, loads as it is.           *)
LEMMA LoadEnvIdentity ==
  ASSUME NEW e \in Env
  PROVE  LoadEnv(e) = [ok |-> TRUE, env |-> e]
<1>0. e \in Seq(Var) /\ Len(e) \in Nat /\ Len(e) <= MaxEnv
  BY DEF Env
<1>1. PICK f : /\ LoadEnv(e) = f[Len(e)]
               /\ f[0] = [ok |-> TRUE, env |-> <<>>]
               /\ \A i \in 1..Len(e) : f[i] = LoadStep(f[i - 1], e[i])
  BY <1>0, LoadEnvUnfolds
<1> DEFINE S == {n \in Nat : n <= Len(e) => f[n] = [ok |-> TRUE, env |-> SubSeq(e, 1, n)]}
<1>2. 0 \in S
  <2>1. SubSeq(e, 1, 0) = <<>>
    BY <1>0
  <2> QED
    BY <1>1, <2>1
<1>3. ASSUME NEW n \in Nat, n \in S PROVE n + 1 \in S
  <2> SUFFICES ASSUME n + 1 <= Len(e)
               PROVE  f[n + 1] = [ok |-> TRUE, env |-> SubSeq(e, 1, n + 1)]
    OBVIOUS
  <2>1. n + 1 \in 1..Len(e) /\ (n + 1) - 1 = n
    BY <1>0
  <2>2. PICK s : s = SubSeq(e, 1, n)
    OBVIOUS
  <2>3. PICK v \in Var : v = e[n + 1]
    BY <1>0, <2>1
  <2>4. f[n] = [ok |-> TRUE, env |-> s]
    BY <1>0, <1>3, <2>1, <2>2
  <2>5. s \in Seq(Var) /\ Len(s) = n /\ \A i \in 1..n : s[i] = e[i]
    BY <1>0, <2>1, <2>2
  <2>6. Free(s, v.name)
    BY <2>1, <2>3, <2>5 DEF Free, Env
  <2>7. Unset(s, v.name) = s
    BY <2>6, UnsetAbsent
  <2>8. [name |-> v.name, value |-> v.value] = v
    BY DEF Var
  <2>9. ~(Len(s) >= MaxEnv)
    BY <1>0, <2>1, <2>5, NvramAssumption
  <2>10. EnvSet(s, v.name, v.value) = [ok |-> TRUE, env |-> Append(s, v)]
    BY <2>7, <2>8, <2>9, Zenon DEF EnvSet
  <2>11. LoadStep(f[n], v) = [ok |-> TRUE, env |-> Append(s, v)]
    <3>1. PICK t : t = f[n]
      OBVIOUS
    <3>2. t.ok = TRUE /\ t.env = s
      BY <2>4, <3>1
    <3>3. PICK r : r = EnvSet(t.env, v.name, v.value)
      OBVIOUS
    <3>4. r.ok = TRUE /\ r.env = Append(s, v)
      BY <2>10, <3>2, <3>3
    <3>5. LoadStep(t, v) = [ok |-> t.ok /\ r.ok, env |-> r.env]
      BY <3>3, Zenon DEF LoadStep
    <3>6. (t.ok /\ r.ok) = TRUE
      BY <3>2, <3>4
    <3> QED
      BY <3>1, <3>4, <3>5, <3>6
  <2>12. Append(s, v) = SubSeq(e, 1, n + 1)
    BY <1>0, <2>1, <2>2, <2>3, <2>5
  <2> QED
    BY <1>1, <2>1, <2>3, <2>11, <2>12
<1>4. Len(e) \in S
  <2> HIDE DEF S
  <2> QED
    BY <1>0, <1>2, <1>3, Induction
<1>5. SubSeq(e, 1, Len(e)) = e
  BY <1>0
<1>6. f[Len(e)] = [ok |-> TRUE, env |-> SubSeq(e, 1, Len(e))]
  BY <1>0, <1>4
<1> QED
  BY <1>1, <1>5, <1>6

-----------------------------------------------------------------------------
(* Partitions. *)

Walkable == {p \in Partition : p.kind \notin {"free", "panic"}}

WalkStep(before, cell) ==
  IF cell.kind = "panic" THEN before ELSE Append(before, cell)

IsWalk(cells, f) ==
  f = [i \in 0..Used(cells) |->
         IF i = 0 THEN <<>>
         ELSE IF cells[i].kind = "panic" THEN f[i - 1]
         ELSE Append(f[i - 1], cells[i])]

LEMMA UsedExists ==
  ASSUME NEW cells \in Seq(Partition)
  PROVE  /\ Used(cells) \in 0..Len(cells)
         /\ \A i \in 1..Used(cells) : cells[i].kind # "free"
<1>1. PICK F : F = {i \in 1..Len(cells) : cells[i].kind = "free"}
  OBVIOUS
<1>2. PICK n \in Nat : n = Len(cells)
  OBVIOUS
<1>3. F \subseteq 1..n
  BY <1>1, <1>2
<1>4. PICK k \in 0..n : (\A i \in 1..k : i \notin F) /\ (k < n => k + 1 \in F)
  BY <1>3, PrefixExists
<1>5. \A i \in 1..k : cells[i].kind # "free"
  BY <1>1, <1>2, <1>4
<1>6. k < Len(cells) => cells[k + 1].kind = "free"
  BY <1>1, <1>2, <1>4
<1>7. \E m \in 0..Len(cells) : /\ \A i \in 1..m : cells[i].kind # "free"
                               /\ m < Len(cells) => cells[m + 1].kind = "free"
  BY <1>2, <1>5, <1>6
<1> QED
  BY <1>7 DEF Used

LEMMA UsedIs ==
  ASSUME NEW cells \in Seq(Partition), NEW k \in 0..Len(cells),
         \A i \in 1..k : cells[i].kind # "free",
         k < Len(cells) => cells[k + 1].kind = "free"
  PROVE  Used(cells) = k
<1> DEFINE Is(m) == /\ m \in 0..Len(cells)
                    /\ \A i \in 1..m : cells[i].kind # "free"
                    /\ m < Len(cells) => cells[m + 1].kind = "free"
<1>1. Is(k)
  OBVIOUS
<1>2. ASSUME NEW m, Is(m) PROVE m = k
  <2>1. m \in Nat /\ k \in Nat /\ Len(cells) \in Nat /\ m <= Len(cells) /\ k <= Len(cells)
    BY <1>2
  <2>2. CASE m < k
    <3>1. m + 1 \in 1..k /\ m < Len(cells)
      BY <2>1, <2>2
    <3> QED
      BY <1>2, <3>1
  <2>3. CASE k < m
    <3>1. k + 1 \in 1..m /\ k < Len(cells)
      BY <2>1, <2>3
    <3> QED
      BY <1>2, <3>1
  <2> QED
    BY <2>1, <2>2, <2>3
<1>3. (CHOOSE m : Is(m)) = k
  <2> HIDE DEF Is
  <2> QED
    BY <1>1, <1>2
<1> QED
  BY <1>1, <1>2 DEF Used

LEMMA NoneWalked == <<>> \in Seq(Walkable)
OBVIOUS

LEMMA WalkStepKeeps ==
  ASSUME NEW s \in Seq(Walkable), NEW p \in Partition, p.kind # "free"
  PROVE  WalkStep(s, p) \in Seq(Walkable)
<1>1. CASE p.kind = "panic"
  BY <1>1 DEF WalkStep
<1>2. CASE p.kind # "panic"
  <2>1. p \in Walkable
    BY <1>2 DEF Walkable
  <2> QED
    BY <1>2, <2>1 DEF WalkStep
<1> QED
  BY <1>1, <1>2

(* The walk over the partitions, partition by partition                    *)
(* (nvram_v1.c:262-312).                                                   *)
LEMMA WalkedUnfolds ==
  ASSUME NEW cells \in Seq(Partition)
  PROVE  \E f : /\ Walked(cells) = f[Used(cells)]
                /\ f[0] = <<>>
                /\ \A i \in 1..Used(cells) : f[i] = WalkStep(f[i - 1], cells[i])
<1>1. PICK n \in Nat : n = Used(cells) /\ n <= Len(cells)
  BY UsedExists
<1>2. PICK step : step = [p \in (1..n) \X Seq(Walkable) |-> WalkStep(p[2], cells[p[1]])]
  OBVIOUS
<1>3. \A i \in 1..n : cells[i] \in Partition /\ cells[i].kind # "free"
  BY <1>1, UsedExists
<1>4. step \in [(1..n) \X Seq(Walkable) -> Seq(Walkable)]
  BY <1>2, <1>3, WalkStepKeeps
<1>5. PICK g \in [0..n -> Seq(Walkable)] :
        /\ g[0] = <<>>
        /\ \A i \in 1..n : g[i] = step[<<i, g[i - 1]>>]
  <2>1. PICK base \in Seq(Walkable) : base = <<>>
    BY NoneWalked
  <2>2. \E g : Runs(Seq(Walkable), base, n, step, g)
    BY <1>4, Recursion
  <2> QED
    BY <2>1, <2>2 DEF Runs
<1>6. ASSUME NEW i \in 1..n PROVE g[i] = WalkStep(g[i - 1], cells[i])
  <2>1. g[i - 1] \in Seq(Walkable)
    BY <1>5
  <2>2. PICK p \in (1..n) \X Seq(Walkable) : p = <<i, g[i - 1]>>
    BY <2>1
  <2>3. p[1] = i /\ p[2] = g[i - 1]
    BY <2>2
  <2>4. g[i] = step[p]
    BY <1>5, <2>2
  <2> QED
    BY <1>2, <2>3, <2>4
<1>7. IsWalk(cells, g)
  <2>1. \A i \in 0..n : i # 0 => i \in 1..n
    OBVIOUS
  <2>2. g = [i \in 0..n |-> g[i]]
    BY <1>5
  <2>3. \A i \in 0..n : g[i] = IF i = 0 THEN <<>> ELSE WalkStep(g[i - 1], cells[i])
    BY <1>5, <1>6, <2>1
  <2>4. g = [i \in 0..n |-> IF i = 0 THEN <<>> ELSE WalkStep(g[i - 1], cells[i])]
    BY <2>2, <2>3
  <2> QED
    BY <1>1, <2>4 DEF IsWalk, WalkStep
<1>8. PICK f : f = CHOOSE h : IsWalk(cells, h)
  OBVIOUS
<1>9. IsWalk(cells, f)
  BY <1>7, <1>8
<1>10. Walked(cells) = f[Used(cells)]
  BY <1>8 DEF Walked, IsWalk
<1>11. f = [i \in 0..n |-> IF i = 0 THEN <<>> ELSE WalkStep(f[i - 1], cells[i])]
  BY <1>1, <1>9, Zenon DEF IsWalk, WalkStep
<1>12. f[0] = <<>>
  BY <1>11
<1>13. ASSUME NEW i \in 1..n PROVE f[i] = WalkStep(f[i - 1], cells[i])
  <2>1. i \in 0..n /\ i # 0
    OBVIOUS
  <2> QED
    BY <1>11, <2>1
<1> QED
  BY <1>1, <1>10, <1>12, <1>13

LEMMA WalkedKeeps ==
  ASSUME NEW cells \in Seq(Partition)
  PROVE  Walked(cells) \in Seq(Walkable)
<1>1. PICK f : /\ Walked(cells) = f[Used(cells)]
               /\ f[0] = <<>>
               /\ \A i \in 1..Used(cells) : f[i] = WalkStep(f[i - 1], cells[i])
  BY WalkedUnfolds
<1>2. PICK u \in 0..Len(cells) : u = Used(cells)
  BY UsedExists
<1>3. \A i \in 1..u : cells[i] \in Partition /\ cells[i].kind # "free"
  BY <1>2, UsedExists
<1> DEFINE S == {n \in Nat : n <= u => f[n] \in Seq(Walkable)}
<1>4. 0 \in S
  BY <1>1, NoneWalked
<1>5. ASSUME NEW n \in Nat, n \in S PROVE n + 1 \in S
  <2> SUFFICES ASSUME n + 1 <= u PROVE f[n + 1] \in Seq(Walkable)
    OBVIOUS
  <2>1. n + 1 \in 1..u /\ (n + 1) - 1 = n
    BY <1>2
  <2>2. f[n] \in Seq(Walkable)
    BY <1>5, <2>1
  <2> QED
    BY <1>1, <1>2, <1>3, <2>1, <2>2, WalkStepKeeps
<1>6. u \in S
  <2>1. u \in Nat
    OBVIOUS
  <2> HIDE DEF S
  <2> QED
    BY <1>4, <1>5, <2>1, Induction
<1> QED
  BY <1>1, <1>2, <1>6

(* Partitions written out, and a free one behind them if there is room,   *)
(* are walked as they were.                                                *)
LEMMA WalkedIdentity ==
  ASSUME NEW parts \in Seq(Walkable), NEW cells \in Seq(Partition),
         Len(parts) <= Len(cells),
         \A i \in 1..Len(parts) : cells[i] = parts[i],
         Len(parts) < Len(cells) => cells[Len(parts) + 1].kind = "free"
  PROVE  Walked(cells) = parts
<1>0. \A i \in 1..Len(parts) : parts[i].kind # "free" /\ parts[i].kind # "panic"
  BY DEF Walkable
<1>1. Used(cells) = Len(parts)
  <2>1. PICK k \in 0..Len(cells) : k = Len(parts)
    OBVIOUS
  <2>2. \A i \in 1..k : cells[i].kind # "free"
    BY <1>0, <2>1
  <2> QED
    BY <2>1, <2>2, UsedIs
<1>2. PICK f : /\ Walked(cells) = f[Used(cells)]
               /\ f[0] = <<>>
               /\ \A i \in 1..Used(cells) : f[i] = WalkStep(f[i - 1], cells[i])
  BY WalkedUnfolds
<1> DEFINE S == {n \in Nat : n <= Len(parts) => f[n] = SubSeq(parts, 1, n)}
<1>3. 0 \in S
  <2>1. SubSeq(parts, 1, 0) = <<>>
    OBVIOUS
  <2> QED
    BY <1>2, <2>1
<1>4. ASSUME NEW n \in Nat, n \in S PROVE n + 1 \in S
  <2> SUFFICES ASSUME n + 1 <= Len(parts) PROVE f[n + 1] = SubSeq(parts, 1, n + 1)
    OBVIOUS
  <2>1. n + 1 \in 1..Len(parts) /\ (n + 1) - 1 = n
    OBVIOUS
  <2>2. f[n] = SubSeq(parts, 1, n)
    BY <1>4, <2>1
  <2>3. f[n + 1] = WalkStep(f[n], parts[n + 1])
    BY <1>1, <1>2, <2>1
  <2>4. f[n + 1] = Append(f[n], parts[n + 1])
    BY <1>0, <2>1, <2>3 DEF WalkStep
  <2>5. Append(SubSeq(parts, 1, n), parts[n + 1]) = SubSeq(parts, 1, n + 1)
    BY <2>1
  <2> QED
    BY <2>2, <2>4, <2>5
<1>5. Len(parts) \in S
  <2>1. Len(parts) \in Nat
    OBVIOUS
  <2> HIDE DEF S
  <2> QED
    BY <1>3, <1>4, <2>1, Induction
<1>6. f[Len(parts)] = SubSeq(parts, 1, Len(parts))
  BY <1>5
<1>7. SubSeq(parts, 1, Len(parts)) = parts
  OBVIOUS
<1> QED
  BY <1>1, <1>2, <1>6, <1>7

-----------------------------------------------------------------------------
(* Images and banks. *)

Kept == {p \in Partition : p.kind \in {"common", "other"}}

\* A header of any kind, then partitions.
Shaped(image) ==
  /\ \E C : image \in Seq(C)
  /\ image # <<>>
  /\ \A i \in 2..Len(image) : image[i] \in Partition

\* What the bridge keeps in memory.
Sound(n) ==
  /\ n = [env |-> n.env, parts |-> n.parts, len |-> n.len, gen |-> n.gen]
  /\ n.env \in Env
  /\ n.parts \in Seq(Kept)
  /\ n.len \in 0..MaxLen

LEMMA ShapedLen ==
  ASSUME NEW d, Shaped(d)
  PROVE  Len(d) \in Nat /\ Len(d) >= 1 /\ d = [i \in 1..Len(d) |-> d[i]]
<1>1. PICK C : d \in Seq(C)
  BY DEF Shaped
<1> QED
  BY <1>1 DEF Shaped

LEMMA TailShaped ==
  ASSUME NEW d, Shaped(d)
  PROVE  /\ Tail(d) \in Seq(Partition)
         /\ Len(Tail(d)) = Len(d) - 1
         /\ \A i \in 1..Len(Tail(d)) : Tail(d)[i] = d[i + 1]
<1>1. PICK C : d \in Seq(C)
  BY DEF Shaped
<1>2. PICK t : t = Tail(d)
  OBVIOUS
<1>3. Len(t) = Len(d) - 1 /\ t \in Seq(C) /\ \A i \in 1..Len(t) : t[i] = d[i + 1]
  BY <1>1, <1>2 DEF Shaped
<1>4. \A i \in 1..Len(t) : t[i] \in Partition
  BY <1>1, <1>3 DEF Shaped
<1>5. t = [i \in 1..Len(t) |-> t[i]] /\ Len(t) \in Nat
  BY <1>3
<1>6. t \in Seq(Partition)
  BY <1>4, <1>5
<1> QED
  BY <1>2, <1>3, <1>6

LEMMA PrefixShaped ==
  ASSUME NEW d, Shaped(d), NEW k \in 1..Len(d)
  PROVE  /\ Shaped(SubSeq(d, 1, k))
         /\ Len(SubSeq(d, 1, k)) = k
         /\ \A i \in 1..k : SubSeq(d, 1, k)[i] = d[i]
<1>1. PICK C : d \in Seq(C)
  BY DEF Shaped
<1>2. PICK s : s = SubSeq(d, 1, k)
  OBVIOUS
<1>3. s \in Seq(C) /\ Len(s) = k /\ \A i \in 1..k : s[i] = d[i]
  BY <1>1, <1>2
<1>4. s # <<>>
  BY <1>3
<1>5. \A i \in 2..Len(s) : s[i] \in Partition
  BY <1>1, <1>3 DEF Shaped
<1> QED
  BY <1>2, <1>3, <1>4, <1>5 DEF Shaped

(* The part of an image a load reads (nvram_v1.c:470-491).                 *)
LEMMA CappedShaped ==
  ASSUME NEW d, Shaped(d)
  PROVE  /\ Shaped(Capped(d))
         /\ Len(Capped(d)) \in 1..MaxLen
         /\ Len(Capped(d)) = IF Len(d) > MaxLen THEN MaxLen ELSE Len(d)
         /\ \A i \in 1..Len(Capped(d)) : Capped(d)[i] = d[i]
         /\ \A n : Load(n, d, Len(d)) = Parse(n, Capped(d))
<1>1. PICK k : k = IF Len(d) > MaxLen THEN MaxLen ELSE Len(d)
  OBVIOUS
<1>2. k \in 1..Len(d) /\ k \in 1..MaxLen
  BY <1>1, ShapedLen, NvramAssumption
<1>3. Capped(d) = SubSeq(d, 1, k)
  BY <1>1 DEF Capped
<1>4. \A n : Load(n, d, Len(d)) = Parse(n, Capped(d))
  BY <1>1, <1>3 DEF Load, FileRead
<1> QED
  BY <1>1, <1>2, <1>3, <1>4, PrefixShaped

LEMMA ImageShaped ==
  ASSUME NEW d \in Images
  PROVE  Shaped(d)
<1>1. PICK C : d \in Seq(C)
  BY NvramAssumption
<1>2. d # <<>> /\ Tail(d) \in Seq(Partition)
  BY NvramAssumption
<1>3. ASSUME NEW i \in 2..Len(d) PROVE d[i] \in Partition
  <2>1. i - 1 \in 1..Len(Tail(d)) /\ Tail(d)[i - 1] = d[i]
    BY <1>1, <1>2
  <2> QED
    BY <1>2, <2>1
<1> QED
  BY <1>1, <1>2, <1>3 DEF Shaped

LEMMA FreshSound == Sound(Fresh) /\ Sound(Zeroed)
<1>1. <<>> \in Seq(Kept) /\ <<>> \in Seq(Var)
  OBVIOUS
<1>2. Common(<<>>, CommonCap) \in Kept
  BY <1>1, NvramAssumption DEF Common, Kept, Partition
<1>3. <<Common(<<>>, CommonCap)>> \in Seq(Kept)
  BY <1>2
<1> QED
  BY <1>1, <1>3, EmptyEnv, NvramAssumption DEF Sound, Fresh, Zeroed

(* A bank that is read is sound whatever was there before; one that is    *)
(* not leaves what was there or nothing (nvram_v1.c:417-458).              *)
LEMMA ParseFacts ==
  ASSUME NEW n, NEW b, Shaped(b), Len(b) <= MaxLen
  PROVE  /\ Parse(n, b).ok => SumOk(b) /\ Sound(Parse(n, b).nv)
         /\ Parse(n, b).ok => Parse(n, b) = Parse(Fresh, b)
         /\ ~Parse(n, b).ok => Parse(n, b).nv \in {n, Zeroed}
<1>1. PICK parts : parts = Walked(Tail(b))
  OBVIOUS
<1>2. parts \in Seq(Walkable)
  BY <1>1, TailShaped, WalkedKeeps
<1>3. PICK commons : commons = {i \in 1..Len(parts) : parts[i].kind = "common"}
  OBVIOUS
<1>4. PICK c : c = CHOOSE i \in commons : \A j \in commons : i <= j
  OBVIOUS
<1>5. PICK env : env = LoadEnv(parts[c].env)
  OBVIOUS
<1>6. PICK Bad : Bad = {i \in 1..Len(parts) : parts[i].kind \in {"bad", "zero"}}
  OBVIOUS
<1>7. PICK read : read = [env |-> env.env, parts |-> parts,
                          len |-> Len(b), gen |-> b[1].gen]
  OBVIOUS
<1>8. \A m : Parse(m, b) =
         IF ~SumOk(b) THEN [ok |-> FALSE, nv |-> m]
         ELSE IF Bad # {} THEN [ok |-> FALSE, nv |-> Zeroed]
         ELSE IF commons = {} THEN [ok |-> TRUE, nv |-> Fresh]
         ELSE IF ~env.ok THEN [ok |-> FALSE, nv |-> Zeroed]
         ELSE [ok |-> TRUE, nv |-> read]
  <2>1. (\E i \in 1..Len(parts) : parts[i].kind \in {"bad", "zero"}) <=> Bad # {}
    BY <1>6
  <2> QED
    BY <1>1, <1>3, <1>4, <1>5, <1>7, <2>1, Zenon DEF Parse, Failed, Malformed
<1>9. ASSUME Bad = {}, commons # {} PROVE Sound(read)
  <2>1. commons \subseteq Nat
    BY <1>3
  <2>2. \E i \in commons : \A j \in commons : i <= j
    BY <1>9, <2>1, LeastExists
  <2>3. c \in commons
    BY <1>4, <2>2
  <2>4. c \in 1..Len(parts)
    BY <1>3, <2>3
  <2>5. parts[c].env \in Seq(Var)
    BY <1>2, <2>4 DEF Walkable, Partition
  <2>6. env \in Loading
    BY <1>5, <2>5, LoadEnvKeeps
  <2>7. env.env \in Env
    BY <2>6 DEF Loading
  <2>8. \A i \in 1..Len(parts) : parts[i] \in Kept
    BY <1>2, <1>6, <1>9 DEF Walkable, Kept, Partition
  <2>9. parts \in Seq(Kept)
    BY <1>2, <2>8
  <2>10. Len(b) \in 0..MaxLen
    BY ShapedLen, NvramAssumption
  <2> QED
    BY <1>7, <2>7, <2>9, <2>10 DEF Sound
<1>10. CASE ~SumOk(b)
  BY <1>8, <1>10
<1>11. CASE SumOk(b)
  <2>1. CASE Bad # {}
    BY <1>8, <1>11, <2>1
  <2>2. CASE Bad = {} /\ commons = {}
    <3>1. \A m : Parse(m, b) = [ok |-> TRUE, nv |-> Fresh]
      BY <1>8, <1>11, <2>2
    <3>2. Parse(n, b).ok = TRUE /\ Parse(n, b).nv = Fresh
      BY <3>1
    <3>3. Parse(n, b) = Parse(Fresh, b)
      BY <3>1
    <3> QED
      BY <1>11, <3>2, <3>3, FreshSound, Zenon
  <2>3. CASE Bad = {} /\ commons # {} /\ ~env.ok
    BY <1>8, <1>11, <2>3
  <2>4. CASE Bad = {} /\ commons # {} /\ env.ok
    <3>1. \A m : Parse(m, b) = [ok |-> TRUE, nv |-> read]
      BY <1>8, <1>11, <2>4
    <3>2. Sound(read)
      BY <1>9, <2>4
    <3>3. Parse(n, b).ok = TRUE /\ Parse(n, b).nv = read
      BY <3>1
    <3>4. Parse(n, b) = Parse(Fresh, b)
      BY <3>1
    <3> QED
      BY <1>11, <3>2, <3>3, <3>4, Zenon
  <2> QED
    BY <2>1, <2>2, <2>3, <2>4
<1> QED
  BY <1>10, <1>11

-----------------------------------------------------------------------------
(* What a save writes. *)

IsFirst(parts, f) ==
  /\ f \in 1..Len(parts)
  /\ parts[f].kind = "common"
  /\ \A j \in 1..(f - 1) : parts[j].kind # "common"

LEMMA FirstExists ==
  ASSUME NEW parts \in Seq(Kept), NEW k \in 1..Len(parts), parts[k].kind = "common"
  PROVE  \E f : IsFirst(parts, f)
<1>1. PICK F : F = {i \in 1..Len(parts) : parts[i].kind = "common"}
  OBVIOUS
<1>2. F \subseteq Nat /\ F # {}
  BY <1>1
<1>3. PICK f \in F : \A j \in F : f <= j
  BY <1>2, LeastExists, Zenon
<1>4. f \in 1..Len(parts) /\ parts[f].kind = "common"
  BY <1>1, <1>3
<1>5. ASSUME NEW j \in 1..(f - 1), parts[j].kind = "common" PROVE FALSE
  <2>1. j \in F /\ j < f
    BY <1>1, <1>4, <1>5
  <2>2. j \in Nat /\ f \in Nat
    BY <1>4
  <2> QED
    BY <1>3, <2>1, <2>2
<1> QED
  BY <1>4, <1>5 DEF IsFirst

(* The first common partition holds the variables (nvram_v1.c:154-169).    *)
LEMMA RebuiltFacts ==
  ASSUME NEW n, Sound(n)
  PROVE  /\ Rebuilt(n) \in Seq(Kept)
         /\ \E f : IsFirst(Rebuilt(n), f) /\ Rebuilt(n)[f].env = n.env
<1>0. n.parts \in Seq(Kept) /\ n.env \in Seq(Var)
  BY DEF Sound, Env
<1>1. PICK parts : parts = IF \E i \in 1..Len(n.parts) : n.parts[i].kind = "common"
                           THEN n.parts ELSE Append(n.parts, Common(<<>>, CommonCap))
  OBVIOUS
<1>2. Common(<<>>, CommonCap) \in Kept /\ Common(<<>>, CommonCap).kind = "common"
  <2>1. <<>> \in Seq(Var)
    OBVIOUS
  <2> QED
    BY <2>1, NvramAssumption DEF Common, Kept, Partition
<1>3. parts \in Seq(Kept) /\ \E k \in 1..Len(parts) : parts[k].kind = "common"
  <2>1. CASE \E i \in 1..Len(n.parts) : n.parts[i].kind = "common"
    BY <1>0, <1>1, <2>1
  <2>2. CASE ~ \E i \in 1..Len(n.parts) : n.parts[i].kind = "common"
    <3>1. parts = Append(n.parts, Common(<<>>, CommonCap))
      BY <1>1, <2>2
    <3>2. parts \in Seq(Kept) /\ Len(parts) = Len(n.parts) + 1
      BY <1>0, <1>2, <3>1
    <3>3. parts[Len(n.parts) + 1] = Common(<<>>, CommonCap)
      BY <1>0, <3>1
    <3>4. Len(n.parts) + 1 \in 1..Len(parts)
      BY <1>0, <3>2
    <3> QED
      BY <1>2, <3>2, <3>3, <3>4
  <2> QED
    BY <2>1, <2>2
<1>4. \E f : IsFirst(parts, f)
  BY <1>3, FirstExists
<1>5. PICK f : f = CHOOSE i \in 1..Len(parts) :
                      /\ parts[i].kind = "common"
                      /\ \A j \in 1..(i - 1) : parts[j].kind # "common"
  OBVIOUS
<1>6. IsFirst(parts, f)
  BY <1>4, <1>5 DEF IsFirst
<1>7. Rebuilt(n) = [parts EXCEPT ![f].env = n.env]
  BY <1>1, <1>5, Zenon DEF Rebuilt
<1>8. PICK built : built = [parts EXCEPT ![f].env = n.env]
  OBVIOUS
<1>9. PICK p : p = [parts[f] EXCEPT !.env = n.env]
  OBVIOUS
<1>10. f \in 1..Len(parts) /\ parts[f] \in Kept
  BY <1>3, <1>6 DEF IsFirst
<1>11. p \in Kept /\ p.env = n.env /\ p.kind = parts[f].kind
  BY <1>0, <1>9, <1>10 DEF Kept, Partition
<1>12. built = [parts EXCEPT ![f] = p]
  BY <1>8, <1>9
<1>13. built \in Seq(Kept) /\ Len(built) = Len(parts) /\ built[f] = p
  BY <1>3, <1>10, <1>11, <1>12
<1>14. \A j \in 1..Len(parts) : j # f => built[j] = parts[j]
  BY <1>3, <1>12
<1>15. IsFirst(built, f)
  BY <1>6, <1>10, <1>11, <1>13, <1>14 DEF IsFirst
<1> QED
  BY <1>7, <1>8, <1>11, <1>13, <1>15

LEMMA BankFacts ==
  ASSUME NEW gen, NEW cells \in Seq(Partition)
  PROVE  /\ Shaped(Bank(gen, cells))
         /\ Len(Bank(gen, cells)) = Len(cells) + 1
         /\ Tail(Bank(gen, cells)) = cells
         /\ Bank(gen, cells)[1].gen = gen
         /\ Bank(gen, cells)[1].sum = <<gen, cells>>
         /\ \A i \in 1..Len(cells) : Bank(gen, cells)[i + 1] = cells[i]
<1>1. PICK h : h = Header(gen, <<gen, cells>>)
  OBVIOUS
<1>2. PICK C : C = Partition \cup {h}
  OBVIOUS
<1>3. <<h>> \in Seq(C) /\ cells \in Seq(C)
  BY <1>2
<1>4. PICK b : b = <<h>> \o cells
  OBVIOUS
<1>5. b \in Seq(C) /\ Len(b) = Len(cells) + 1 /\ b[1] = h
  BY <1>3, <1>4
<1>6. \A i \in 1..Len(cells) : b[i + 1] = cells[i]
  BY <1>3, <1>4
<1>7. b # <<>>
  BY <1>5
<1>8. Tail(b) = cells
  <2>1. Len(Tail(b)) = Len(cells) /\ Tail(b) \in Seq(C)
    BY <1>5, <1>7
  <2>2. \A i \in 1..Len(cells) : Tail(b)[i] = cells[i]
    BY <1>5, <1>6, <1>7, <2>1
  <2> QED
    BY <1>3, <2>1, <2>2
<1>9. ASSUME NEW i \in 2..Len(b) PROVE b[i] \in Partition
  <2>1. i - 1 \in 1..Len(cells) /\ (i - 1) + 1 = i
    BY <1>5
  <2>2. cells[i - 1] \in Partition
    BY <2>1
  <2> QED
    BY <1>6, <2>1, <2>2
<1>10. h.gen = gen /\ h.sum = <<gen, cells>>
  BY <1>1 DEF Header
<1>11. Bank(gen, cells) = b
  BY <1>1, <1>4 DEF Bank
<1> QED
  BY <1>5, <1>6, <1>7, <1>8, <1>9, <1>10, <1>11 DEF Shaped

(* A saved bank is one a load can walk: its sum is right, and its          *)
(* partitions come back as they were (nvram_v1.c:702-785).                 *)
LEMMA SerializeFacts ==
  ASSUME NEW n, Sound(n), Fits(n)
  PROVE  \E cells \in Seq(Partition) :
            /\ Serialize(n) = Bank(n.gen, cells)
            /\ Len(cells) + 1 = BankLen(n)
            /\ Walked(cells) = Rebuilt(n)
<1>1. PICK built \in Seq(Kept) : built = Rebuilt(n)
  BY RebuiltFacts
<1>2. PICK len : len = BankLen(n)
  OBVIOUS
<1>3. len \in 1..MaxLen
  BY <1>2, NvramAssumption DEF BankLen, Sound
<1>4. Len(built) + 1 <= len
  BY <1>1, <1>2 DEF Fits
<1>5. Part("free") \in Partition /\ Part("zero") \in Partition /\ Part("free").kind = "free"
  <2>1. <<>> \in Seq(Var)
    OBVIOUS
  <2> QED
    BY <2>1 DEF Part, Partition
<1>6. PICK cells : cells = [i \in 1..(len - 1) |->
                               IF i <= Len(built) THEN built[i]
                               ELSE IF i = Len(built) + 1 THEN Part("free")
                               ELSE Part("zero")]
  OBVIOUS
<1>7. Serialize(n) = Bank(n.gen, cells)
  BY <1>1, <1>2, <1>6, Zenon DEF Serialize
<1>8. \A i \in 1..Len(built) : built[i] \in Partition /\ built[i] \in Walkable
  BY <1>1 DEF Kept, Walkable
<1>9. len - 1 \in Nat
  BY <1>3
<1>10. \A i \in 1..(len - 1) : cells[i] \in Partition
  BY <1>3, <1>5, <1>6, <1>8
<1>11. cells \in Seq(Partition) /\ Len(cells) = len - 1
  BY <1>6, <1>9, <1>10
<1>12. \A i \in 1..Len(built) : cells[i] = built[i]
  BY <1>3, <1>4, <1>6
<1>13. Len(built) < Len(cells) => cells[Len(built) + 1].kind = "free"
  BY <1>3, <1>4, <1>5, <1>6, <1>11
<1>14. built \in Seq(Walkable)
  BY <1>1, <1>8
<1>15. Len(built) <= Len(cells)
  BY <1>3, <1>4, <1>11
<1>16. Walked(cells) = built
  BY <1>11, <1>12, <1>13, <1>14, <1>15, WalkedIdentity
<1> QED
  BY <1>1, <1>2, <1>3, <1>7, <1>11, <1>16

\* What is read of the image is what some save, or the host, wrote.
Traceable(d, W) ==
  SumOk(Capped(d)) => \E image \in W : Capped(image) = Capped(d)

(* A saved bank loads, with the variables it was saved from.               *)
LEMMA RoundTrip ==
  ASSUME NEW n, Sound(n), Fits(n)
  PROVE  /\ Parse(Fresh, Serialize(n)).ok
         /\ Parse(Fresh, Serialize(n)).nv.env = n.env
<1>1. PICK cells \in Seq(Partition) : /\ Serialize(n) = Bank(n.gen, cells)
                                      /\ Len(cells) + 1 = BankLen(n)
                                      /\ Walked(cells) = Rebuilt(n)
  BY SerializeFacts
<1>2. PICK b : b = Serialize(n)
  OBVIOUS
<1>3. Tail(b) = cells /\ b[1].sum = <<b[1].gen, cells>>
  BY <1>1, <1>2, BankFacts
<1>4. SumOk(b)
  BY <1>3 DEF SumOk
<1>5. PICK parts \in Seq(Kept) : parts = Rebuilt(n)
  BY RebuiltFacts
<1>6. PICK f : IsFirst(parts, f) /\ parts[f].env = n.env
  BY <1>5, RebuiltFacts
<1>7. PICK commons : commons = {i \in 1..Len(parts) : parts[i].kind = "common"}
  OBVIOUS
<1>8. (CHOOSE i \in commons : \A j \in commons : i <= j) = f
  <2> DEFINE Least(i) == i \in commons /\ \A j \in commons : i <= j
  <2>1. f \in 1..Len(parts) /\ f \in commons
    BY <1>6, <1>7 DEF IsFirst
  <2>2. \A j \in commons : j \in 1..Len(parts) /\ ~(j \in 1..(f - 1))
    BY <1>6, <1>7 DEF IsFirst
  <2>3. \A j \in commons : j \in Nat /\ f <= j
    BY <2>1, <2>2
  <2>4. Least(f)
    BY <2>1, <2>3
  <2>5. \A i : Least(i) => i = f
    BY <2>1, <2>3, <2>4
  <2> QED
    BY <2>4, <2>5
<1>9. commons # {}
  BY <1>6, <1>7 DEF IsFirst
<1>10. PICK Bad : /\ Bad = {i \in 1..Len(parts) : parts[i].kind \in {"bad", "zero"}}
                  /\ Bad = {}
  <2>1. \A i \in 1..Len(parts) : ~(parts[i].kind \in {"bad", "zero"})
    BY <1>5 DEF Kept
  <2>2. {i \in 1..Len(parts) : parts[i].kind \in {"bad", "zero"}} = {}
    BY <2>1
  <2> QED
    BY <2>2
<1>11. LoadEnv(n.env) = [ok |-> TRUE, env |-> n.env]
  BY LoadEnvIdentity DEF Sound
<1>12. PICK env : env = LoadEnv(parts[f].env)
  OBVIOUS
<1>13. env.ok = TRUE /\ env.env = n.env
  BY <1>6, <1>11, <1>12
<1>14. PICK read : read = [env |-> env.env, parts |-> parts,
                           len |-> Len(b), gen |-> b[1].gen]
  OBVIOUS
<1>15. Parse(Fresh, b) =
         IF ~SumOk(b) THEN [ok |-> FALSE, nv |-> Fresh]
         ELSE IF Bad # {} THEN [ok |-> FALSE, nv |-> Zeroed]
         ELSE IF commons = {} THEN [ok |-> TRUE, nv |-> Fresh]
         ELSE IF ~env.ok THEN [ok |-> FALSE, nv |-> Zeroed]
         ELSE [ok |-> TRUE, nv |-> read]
  <2>1. Walked(Tail(b)) = parts
    BY <1>1, <1>3, <1>5
  <2>2. PICK c : c = CHOOSE i \in commons : \A j \in commons : i <= j
    OBVIOUS
  <2>3. env = LoadEnv(parts[c].env)
    BY <1>8, <1>12, <2>2
  <2>4. (\E i \in 1..Len(parts) : parts[i].kind \in {"bad", "zero"}) <=> Bad # {}
    BY <1>10
  <2> QED
    BY <1>7, <1>14, <2>1, <2>2, <2>3, <2>4, Zenon DEF Parse, Failed, Malformed
<1>16. Parse(Fresh, b) = [ok |-> TRUE, nv |-> read]
  BY <1>4, <1>9, <1>10, <1>13, <1>15
<1> QED
  BY <1>2, <1>13, <1>14, <1>16

LEMMA SerializeShaped ==
  ASSUME NEW n, Sound(n), Fits(n)
  PROVE  /\ Shaped(Serialize(n))
         /\ Len(Serialize(n)) = BankLen(n)
         /\ BankLen(n) \in 1..MaxLen
         /\ Capped(Serialize(n)) = Serialize(n)
         /\ Serialize(n)[1].sum = <<Serialize(n)[1].gen, Tail(Serialize(n))>>
<1>1. PICK cells \in Seq(Partition) : /\ Serialize(n) = Bank(n.gen, cells)
                                      /\ Len(cells) + 1 = BankLen(n)
  BY SerializeFacts
<1>2. PICK b : b = Serialize(n)
  OBVIOUS
<1>3. Shaped(b) /\ Len(b) = BankLen(n) /\ b[1].sum = <<b[1].gen, Tail(b)>>
  BY <1>1, <1>2, BankFacts
<1>4. BankLen(n) \in 1..MaxLen
  BY NvramAssumption DEF BankLen, Sound
<1>5. Capped(b) = b
  <2>1. PICK c : c = Capped(b)
    OBVIOUS
  <2>2. Len(c) = Len(b) /\ (\A i \in 1..Len(b) : c[i] = b[i]) /\ Shaped(c)
    BY <1>3, <1>4, <2>1, CappedShaped, NvramAssumption
  <2>3. c = [i \in 1..Len(c) |-> c[i]]
    BY <2>2, ShapedLen
  <2>4. b = [i \in 1..Len(b) |-> b[i]]
    BY <1>3, ShapedLen
  <2>5. c = b
    BY <2>2, <2>3, <2>4
  <2> QED
    BY <2>1, <2>5
<1> QED
  BY <1>2, <1>3, <1>4, <1>5

(* The image after a write of k cells: unchanged if none arrived, headed   *)
(* by the new bank's header if any did (nvram_v1.c:550-579).               *)
LEMMA OverwrittenFacts ==
  ASSUME NEW d, Shaped(d), NEW b, Shaped(b), NEW k \in 0..Len(b)
  PROVE  /\ Shaped(Overwritten(d, b, k))
         /\ Len(Overwritten(d, b, k)) = IF k > Len(d) THEN k ELSE Len(d)
         /\ \A i \in 1..k : Overwritten(d, b, k)[i] = b[i]
         /\ k = 0 => Overwritten(d, b, k) = d
<1>1. PICK len : len = IF k > Len(d) THEN k ELSE Len(d)
  OBVIOUS
<1>2. Len(d) \in Nat /\ Len(d) >= 1 /\ Len(b) \in Nat
  BY ShapedLen
<1>3. len \in Nat /\ len >= 1 /\ k <= len /\ Len(d) <= len
  BY <1>1, <1>2
<1>4. PICK o : o = [i \in 1..len |-> IF i <= k THEN b[i] ELSE d[i]]
  OBVIOUS
<1>5. PICK C : C = {o[i] : i \in 1..len}
  OBVIOUS
<1>6. o \in Seq(C) /\ Len(o) = len
  BY <1>3, <1>4, <1>5
<1>7. o # <<>>
  BY <1>3, <1>6
<1>8. ASSUME NEW i \in 2..len PROVE o[i] \in Partition
  <2>1. CASE i <= k
    <3>1. i \in 2..Len(b) /\ o[i] = b[i]
      BY <1>2, <1>3, <1>4, <2>1
    <3> QED
      BY <3>1 DEF Shaped
  <2>2. CASE ~(i <= k)
    <3>1. i \in 2..Len(d) /\ o[i] = d[i]
      BY <1>1, <1>2, <1>3, <1>4, <2>2
    <3> QED
      BY <3>1 DEF Shaped
  <2> QED
    BY <2>1, <2>2
<1>9. Shaped(o)
  BY <1>6, <1>7, <1>8 DEF Shaped
<1>10. \A i \in 1..k : o[i] = b[i]
  BY <1>3, <1>4
<1>11. ASSUME k = 0 PROVE o = d
  <2>1. len = Len(d) /\ \A i \in 1..len : o[i] = d[i]
    BY <1>1, <1>2, <1>4, <1>11
  <2> QED
    BY <1>4, <2>1, ShapedLen
<1>12. Overwritten(d, b, k) = o
  BY <1>1, <1>4, Zenon DEF Overwritten
<1> QED
  BY <1>1, <1>6, <1>9, <1>10, <1>11, <1>12

(* However far a save got, what can be read afterwards is the image that   *)
(* was there or the bank the save set out to write.                        *)
LEMMA WriteTraceable ==
  ASSUME NEW d, Shaped(d), NEW W, Traceable(d, W),
         NEW n, Sound(n), Fits(n), NEW k \in 0..BankLen(n)
  PROVE  /\ Shaped(Overwritten(d, Serialize(n), k))
         /\ Traceable(Overwritten(d, Serialize(n), k), W \cup {Serialize(n)})
<1>1. PICK b : b = Serialize(n)
  OBVIOUS
<1>2. /\ Shaped(b) /\ Len(b) = BankLen(n) /\ Len(b) \in 1..MaxLen /\ Capped(b) = b
      /\ b[1].sum = <<b[1].gen, Tail(b)>>
  BY <1>1, SerializeShaped
<1>3. PICK o : o = Overwritten(d, b, k)
  OBVIOUS
<1>4. Shaped(o) /\ (\A i \in 1..k : o[i] = b[i]) /\ (k = 0 => o = d)
  BY <1>2, <1>3, OverwrittenFacts
<1>5. CASE k = 0
  BY <1>1, <1>3, <1>4, <1>5 DEF Traceable
<1>6. CASE k # 0
  <2> SUFFICES ASSUME SumOk(Capped(o)) PROVE Capped(o) = b
    BY <1>1, <1>2, <1>3, <1>4 DEF Traceable
  <2>1. PICK c : c = Capped(o)
    OBVIOUS
  <2>2. Shaped(c) /\ Len(c) \in Nat /\ Len(c) >= 1 /\ c[1] = o[1]
    <3>1. Shaped(c) /\ Len(c) \in 1..MaxLen /\ \A i \in 1..Len(c) : c[i] = o[i]
      BY <1>4, <2>1, CappedShaped
    <3>2. Len(c) \in Nat /\ Len(c) >= 1
      BY <3>1, ShapedLen
    <3> QED
      BY <3>1, <3>2
  <2>3. o[1] = b[1]
    BY <1>4, <1>6
  <2>4. Tail(c) = Tail(b)
    <3>1. c[1].sum = <<c[1].gen, Tail(c)>>
      BY <2>1 DEF SumOk
    <3> QED
      BY <1>2, <2>2, <2>3, <3>1
  <2>5. Len(c) = Len(b)
    BY <1>2, <2>2, <2>4, TailShaped, ShapedLen
  <2>6. ASSUME NEW i \in 1..Len(b) PROVE c[i] = b[i]
    <3>1. CASE i = 1
      BY <2>2, <2>3, <3>1
    <3>2. CASE i # 1
      <4>1. i - 1 \in 1..Len(Tail(b)) /\ (i - 1) + 1 = i
        BY <1>2, <3>2, TailShaped, ShapedLen
      <4>2. Tail(b)[i - 1] = b[i] /\ Tail(c)[i - 1] = c[i]
        BY <1>2, <2>2, <2>4, <4>1, TailShaped
      <4> QED
        BY <2>4, <4>2
    <3> QED
      BY <3>1, <3>2
  <2>7. c = b
    BY <1>2, <2>2, <2>5, <2>6, ShapedLen
  <2> QED
    BY <2>1, <2>7
<1> QED
  BY <1>1, <1>3, <1>4, <1>5, <1>6

(* A save that went through and covers the file reloads.                   *)
LEMMA CoveredReloads ==
  ASSUME NEW d, Shaped(d), NEW n, Sound(n), Fits(n), NEW o,
         o = Overwritten(d, Serialize(n), BankLen(n)),
         BankLen(n) >= Len(Capped(o))
  PROVE  /\ Load(Fresh, o, Len(o)).ok
         /\ Load(Fresh, o, Len(o)).nv.env = n.env
<1>1. PICK b : b = Serialize(n)
  OBVIOUS
<1>2. /\ Shaped(b) /\ Len(b) = BankLen(n) /\ Len(b) \in 1..MaxLen
  BY <1>1, SerializeShaped
<1>3. /\ Shaped(o)
      /\ Len(o) = IF Len(b) > Len(d) THEN Len(b) ELSE Len(d)
      /\ \A i \in 1..Len(b) : o[i] = b[i]
  <2>1. PICK k \in 0..Len(b) : k = BankLen(n)
    BY <1>2
  <2> QED
    BY <1>1, <1>2, <2>1, OverwrittenFacts
<1>4. PICK c : c = Capped(o)
  OBVIOUS
<1>5. /\ Shaped(c)
      /\ Len(c) = IF Len(o) > MaxLen THEN MaxLen ELSE Len(o)
      /\ \A i \in 1..Len(c) : c[i] = o[i]
      /\ Load(Fresh, o, Len(o)) = Parse(Fresh, c)
  BY <1>3, <1>4, CappedShaped
<1>6. Len(c) = Len(b)
  BY <1>2, <1>3, <1>4, <1>5, ShapedLen, NvramAssumption
<1>7. c = b
  BY <1>2, <1>3, <1>5, <1>6, ShapedLen
<1> QED
  BY <1>1, <1>5, <1>7, RoundTrip

-----------------------------------------------------------------------------
(* The variables of one bank. *)

\* NoHalfBank, of an environment and the banks written so far.
OfOneBank(env, W) ==
  \/ Unset(env, "boot-args") = <<>>
  \/ \E image \in Images \cup W :
        /\ Parse(Fresh, Capped(image)).ok
        /\ Unset(env, "boot-args") = Unset(Parse(Fresh, Capped(image)).nv.env, "boot-args")

LEMMA HalfBankForm == NoHalfBank <=> OfOneBank(nv.env, whole)
<1> DEFINE Others(env) == Unset(env, "boot-args")
           banks == {Parse(Fresh, Capped(image)) : image \in Images \cup whole}
           oks == {x \in banks : x.ok}
<1>1. NoHalfBank <=> Others(nv.env) \in {<<>>} \cup {Others(r.nv.env) : r \in oks}
  BY Zenon DEF NoHalfBank
<1>2. Others(nv.env) \in {<<>>} \cup {Others(r.nv.env) : r \in oks}
        <=> Others(nv.env) = <<>> \/ \E r \in oks : Others(nv.env) = Others(r.nv.env)
  BY Zenon
<1>3. (\E r \in oks : Others(nv.env) = Others(r.nv.env))
        <=> \E image \in Images \cup whole :
              /\ Parse(Fresh, Capped(image)).ok
              /\ Others(nv.env) = Others(Parse(Fresh, Capped(image)).nv.env)
  BY Zenon
<1> QED
  BY <1>1, <1>2, <1>3, Zenon DEF OfOneBank

LEMMA OfOneBankGrows ==
  ASSUME NEW env, NEW W, NEW V, W \subseteq V, OfOneBank(env, W)
  PROVE  OfOneBank(env, V)
BY Zenon DEF OfOneBank

LEMMA OfNoBank ==
  ASSUME NEW W
  PROVE  OfOneBank(<<>>, W)
<1>1. Free(<<>>, "boot-args")
  BY DEF Free
<1> QED
  BY <1>1, UnsetAbsent DEF OfOneBank

(* A commit changes nothing but boot-args (preos_bridge.c:395-401).        *)
LEMMA CommitKeepsOthers ==
  ASSUME NEW env \in Env, NEW value \in Seq(Char)
  PROVE  /\ EnvSet(env, "boot-args", value).env \in Env
         /\ Unset(EnvSet(env, "boot-args", value).env, "boot-args")
               = Unset(env, "boot-args")
<1>1. PICK v : v = [name |-> "boot-args", value |-> value]
  OBVIOUS
<1>2. v \in Var /\ v.name = "boot-args" /\ v.value = value
  BY <1>1, NvramAssumption DEF Var
<1>3. PICK r : r = EnvSet(env, "boot-args", value)
  OBVIOUS
<1>4. r.env \in Env
  BY <1>2, <1>3, EnvSetKeeps
<1>5. PICK rest : rest = Unset(env, "boot-args")
  OBVIOUS
<1>6. rest \in Env /\ Free(rest, "boot-args")
  BY <1>5, UnsetKeeps
<1>7. rest \in Seq(Var)
  BY <1>6 DEF Env
<1>8. CASE Len(rest) >= MaxEnv
  <2>1. r.env = rest
    BY <1>3, <1>5, <1>8 DEF EnvSet
  <2>2. Unset(rest, "boot-args") = rest
    BY <1>6, UnsetAbsent
  <2> QED
    BY <1>3, <1>4, <1>5, <2>1, <2>2
<1>9. CASE ~(Len(rest) >= MaxEnv)
  <2>1. r.env = Append(rest, v)
    BY <1>1, <1>3, <1>5, <1>9 DEF EnvSet
  <2>2. Unset(Append(rest, v), "boot-args") = rest
    BY <1>2, <1>6, <1>7, UnsetAppended
  <2> QED
    BY <1>3, <1>4, <1>5, <2>1, <2>2
<1> QED
  BY <1>8, <1>9

LEMMA TextTyped ==
  ASSUME NEW chars \in Seq(Char)
  PROVE  Text(chars) \in Seq(Char)
<1>1. PICK n \in Nat : n = Len(chars)
  OBVIOUS
<1>2. PICK F : F = {i \in 1..n : chars[i] = "nul"}
  OBVIOUS
<1>3. F \subseteq 1..n
  BY <1>2
<1>4. PICK k \in 0..n : (\A i \in 1..k : i \notin F) /\ (k < n => k + 1 \in F)
  BY <1>3, PrefixExists
<1>5. (\A i \in 1..k : chars[i] # "nul") /\ (k < n => chars[k + 1] = "nul")
  BY <1>2, <1>4
<1>6. PICK m : m = CHOOSE j \in 0..Len(chars) :
                      /\ \A i \in 1..j : chars[i] # "nul"
                      /\ j < Len(chars) => chars[j + 1] = "nul"
  OBVIOUS
<1>7. m \in 0..Len(chars)
  BY <1>1, <1>4, <1>5, <1>6
<1>8. Text(chars) = SubSeq(chars, 1, m)
  BY <1>6, Zenon DEF Text
<1> QED
  BY <1>7, <1>8

(* A load, of whatever image, over what was there.                         *)
LEMMA LoadFacts ==
  ASSUME NEW n, Sound(n), NEW d, Shaped(d), NEW W,
         OfOneBank(n.env, W),
         SumOk(Capped(d)) => \E image \in Images \cup W : Capped(image) = Capped(d)
  PROVE  /\ Sound(Load(n, d, Len(d)).nv)
         /\ OfOneBank(Load(n, d, Len(d)).nv.env, W)
<1>1. PICK c : c = Capped(d)
  OBVIOUS
<1>2. Shaped(c) /\ Len(c) <= MaxLen /\ Load(n, d, Len(d)) = Parse(n, c)
  BY <1>1, CappedShaped, NvramAssumption
<1>3. PICK r : r = Parse(n, c)
  OBVIOUS
<1>4. /\ r.ok => SumOk(c) /\ Sound(r.nv) /\ r = Parse(Fresh, c)
      /\ ~r.ok => r.nv \in {n, Zeroed}
  BY <1>2, <1>3, ParseFacts
<1>5. CASE r.ok
  <2>1. PICK image \in Images \cup W : Capped(image) = c
    BY <1>1, <1>4, <1>5
  <2>2. OfOneBank(r.nv.env, W)
    BY <1>4, <1>5, <2>1 DEF OfOneBank
  <2> QED
    BY <1>2, <1>3, <1>4, <1>5, <2>2
<1>6. CASE ~r.ok
  <2>1. CASE r.nv = n
    BY <1>2, <1>3, <2>1
  <2>2. CASE r.nv = Zeroed
    <3>1. Zeroed.env = <<>>
      BY DEF Zeroed
    <3> QED
      BY <1>2, <1>3, <2>2, <3>1, FreshSound, OfNoBank
  <2> QED
    BY <1>4, <1>6, <2>1, <2>2
<1> QED
  BY <1>5, <1>6

-----------------------------------------------------------------------------
(* The inductive invariant: the bridge keeps a sound bank of unique        *)
(* variables, and the image can be traced to one bank.                     *)

NvInv ==
  /\ Sound(nv)
  /\ staged \in Seq(Char)
  /\ Shaped(disk)
  /\ Traceable(disk, whole)
  /\ OfOneBank(nv.env, whole)
  /\ CoveredSaveReloads

LEMMA InitInv == Init => NvInv
<1> SUFFICES ASSUME Init PROVE NvInv
  OBVIOUS
<1>1. nv = Fresh /\ staged = <<>> /\ disk \in Images /\ whole = {disk} /\ saved = {}
  BY DEF Init
<1>2. Sound(nv) /\ nv.env = <<>>
  BY <1>1, FreshSound DEF Fresh
<1>3. staged \in Seq(Char)
  BY <1>1
<1>4. Shaped(disk)
  BY <1>1, ImageShaped
<1>5. Traceable(disk, whole)
  BY <1>1 DEF Traceable
<1>6. OfOneBank(nv.env, whole)
  BY <1>2, OfNoBank
<1>7. CoveredSaveReloads
  BY <1>1 DEF CoveredSaveReloads
<1> QED
  BY <1>2, <1>3, <1>4, <1>5, <1>6, <1>7 DEF NvInv

\* A step that leaves the image and its history alone.
LEMMA DiskStands ==
  ASSUME NvInv, UNCHANGED <<disk, whole, saved>>,
         Sound(nv'), staged' \in Seq(Char), OfOneBank(nv'.env, whole)
  PROVE  NvInv'
<1>1. Shaped(disk)' /\ Traceable(disk, whole)' /\ OfOneBank(nv'.env, whole')
  BY DEF NvInv
<1>2. CoveredSaveReloads'
  BY DEF NvInv, CoveredSaveReloads
<1> QED
  BY <1>1, <1>2 DEF NvInv

LEMMA StagedEmpty == <<>> \in Seq(Char)
OBVIOUS

LEMMA FreshStep ==
  ASSUME NEW W
  PROVE  Sound(Fresh) /\ OfOneBank(Fresh.env, W)
<1>1. Fresh.env = <<>>
  BY DEF Fresh
<1> QED
  BY <1>1, FreshSound, OfNoBank

LEMMA ResetStep == NvInv /\ MmioReset => NvInv'
<1> SUFFICES ASSUME NvInv, MmioReset PROVE NvInv'
  OBVIOUS
<1>1. nv' = Fresh /\ staged' = <<>> /\ UNCHANGED <<disk, whole, saved>>
  BY DEF MmioReset, Clear
<1> QED
  BY <1>1, FreshStep, StagedEmpty, DiskStands

LEMMA AppendStep ==
  ASSUME NvInv, NEW c \in Char, GuestAppend(c)
  PROVE  NvInv'
<1>1. nv' = nv /\ staged' = Append(staged, c) /\ UNCHANGED <<disk, whole, saved>>
  BY DEF GuestAppend
<1>2. staged' \in Seq(Char)
  BY <1>1 DEF NvInv
<1> QED
  BY <1>1, <1>2, DiskStands DEF NvInv

LEMMA CommitStep == NvInv /\ GuestCommit => NvInv'
<1> SUFFICES ASSUME NvInv, GuestCommit PROVE NvInv'
  OBVIOUS
<1>1. Sound(nv) /\ staged \in Seq(Char) /\ OfOneBank(nv.env, whole)
  BY DEF NvInv
<1>2. PICK r : r = EnvSet(nv.env, "boot-args", Text(staged))
  OBVIOUS
<1>3. /\ nv' = [nv EXCEPT !.env = r.env] /\ staged' \in {<<>>, staged}
      /\ UNCHANGED <<disk, whole, saved>>
  BY <1>2 DEF GuestCommit
<1>4. nv.env \in Env /\ Text(staged) \in Seq(Char)
  BY <1>1, TextTyped DEF Sound
<1>5. r.env \in Env /\ Unset(r.env, "boot-args") = Unset(nv.env, "boot-args")
  BY <1>2, <1>4, CommitKeepsOthers
<1>6. OfOneBank(r.env, whole)
  BY <1>1, <1>5 DEF OfOneBank
<1>7. PICK n : n = [nv EXCEPT !.env = r.env]
  OBVIOUS
<1>8. /\ n = [env |-> r.env, parts |-> nv.parts, len |-> nv.len, gen |-> nv.gen]
      /\ nv.parts \in Seq(Kept) /\ nv.len \in 0..MaxLen
  BY <1>1, <1>7 DEF Sound
<1>9. Sound(n) /\ n.env = r.env
  BY <1>5, <1>8 DEF Sound
<1>10. staged' \in Seq(Char)
  BY <1>1, <1>3, StagedEmpty
<1> QED
  BY <1>3, <1>6, <1>7, <1>9, <1>10, DiskStands

LEMMA IngestStep ==
  ASSUME NvInv, NEW bank \in Images, Ingest(bank)
  PROVE  NvInv'
<1>1. Sound(nv) /\ staged \in Seq(Char) /\ OfOneBank(nv.env, whole)
  BY DEF NvInv
<1>2. PICK r : r = Load(nv, bank, Len(bank))
  OBVIOUS
<1>3. nv' = r.nv /\ staged' \in {<<>>, staged} /\ UNCHANGED <<disk, whole, saved>>
  BY <1>2 DEF Ingest
<1>4. Sound(r.nv) /\ OfOneBank(r.nv.env, whole)
  <2>1. Shaped(bank)
    BY ImageShaped
  <2>2. \E image \in Images \cup whole : Capped(image) = Capped(bank)
    OBVIOUS
  <2> QED
    BY <1>1, <1>2, <2>1, <2>2, LoadFacts
<1>5. staged' \in Seq(Char)
  BY <1>1, <1>3, StagedEmpty
<1> QED
  BY <1>3, <1>4, <1>5, DiskStands

LEMMA AttachStep == NvInv /\ Attach => NvInv'
<1> SUFFICES ASSUME NvInv, Attach PROVE NvInv'
  OBVIOUS
<1>1. /\ Sound(nv) /\ staged \in Seq(Char) /\ OfOneBank(nv.env, whole)
      /\ Shaped(disk) /\ Traceable(disk, whole)
  BY DEF NvInv
<1>2. PICK r : r = Load(nv, disk, Len(disk))
  OBVIOUS
<1>3. nv' = r.nv /\ staged' \in {<<>>, staged} /\ UNCHANGED <<disk, whole, saved>>
  BY <1>2 DEF Attach
<1>4. Sound(r.nv) /\ OfOneBank(r.nv.env, whole)
  <2>1. SumOk(Capped(disk))
           => \E image \in Images \cup whole : Capped(image) = Capped(disk)
    BY <1>1 DEF Traceable
  <2> QED
    BY <1>1, <1>2, <2>1, LoadFacts
<1>5. staged' \in Seq(Char)
  BY <1>1, <1>3, StagedEmpty
<1> QED
  BY <1>3, <1>4, <1>5, DiskStands

LEMMA CloseStep == NvInv /\ (AttachFails \/ Detach) => NvInv'
BY DiskStands DEF AttachFails, Detach, NvInv

\* A save that reached the image with its first k cells.
LEMMA WriteStep ==
  ASSUME NvInv, Writes, NEW k \in 0..BankLen(nv),
         disk' = Overwritten(disk, Serialize(nv), k)
  PROVE  /\ Shaped(disk') /\ Traceable(disk', whole')
         /\ \A env : OfOneBank(env, whole) => OfOneBank(env, whole')
<1>1. Sound(nv) /\ Fits(nv) /\ whole' = whole \cup {Serialize(nv)}
  BY DEF NvInv, Writes
<1>2. Shaped(disk) /\ Traceable(disk, whole)
  BY DEF NvInv
<1> QED
  BY <1>1, <1>2, WriteTraceable, OfOneBankGrows

LEMMA SaveStep == NvInv /\ Save => NvInv'
<1> SUFFICES ASSUME NvInv, Save PROVE NvInv'
  OBVIOUS
<1>1. /\ Writes /\ disk' = Overwritten(disk, Serialize(nv), BankLen(nv))
      /\ saved' = {[env |-> nv.env, len |-> BankLen(nv)]}
      /\ nv' = nv /\ staged' = staged
  BY DEF Save
<1>2. Sound(nv) /\ Fits(nv) /\ Shaped(disk) /\ staged \in Seq(Char)
      /\ OfOneBank(nv.env, whole)
  BY <1>1 DEF NvInv, Writes
<1>3. BankLen(nv) \in 0..BankLen(nv)
  BY <1>2, SerializeShaped
<1>4. Shaped(disk') /\ Traceable(disk', whole') /\ OfOneBank(nv.env, whole')
  BY <1>1, <1>2, <1>3, WriteStep
<1>5. PICK o : o = disk'
  OBVIOUS
<1>6. BankLen(nv) >= Len(Capped(o)) =>
         Load(Fresh, o, Len(o)).ok /\ Load(Fresh, o, Len(o)).nv.env = nv.env
  BY <1>1, <1>2, <1>5, CoveredReloads
<1>7. CoveredSaveReloads'
  BY <1>1, <1>5, <1>6 DEF CoveredSaveReloads
<1> QED
  BY <1>1, <1>2, <1>4, <1>7 DEF NvInv

LEMMA SaveFailsStep ==
  ASSUME NvInv, NEW k \in 0..MaxLen, SaveFails(k)
  PROVE  NvInv'
<1>1. /\ Writes /\ disk' = Overwritten(disk, Serialize(nv), k) /\ k <= BankLen(nv)
      /\ saved' = {} /\ nv' = nv /\ staged' = staged
  BY DEF SaveFails
<1>2. Sound(nv) /\ Fits(nv) /\ staged \in Seq(Char) /\ OfOneBank(nv.env, whole)
  BY <1>1 DEF NvInv, Writes
<1>3. k \in 0..BankLen(nv)
  BY <1>1, <1>2, SerializeShaped
<1>4. Shaped(disk') /\ Traceable(disk', whole') /\ OfOneBank(nv.env, whole')
  BY <1>1, <1>2, <1>3, WriteStep
<1>5. CoveredSaveReloads'
  BY <1>1 DEF CoveredSaveReloads
<1> QED
  BY <1>1, <1>2, <1>4, <1>5 DEF NvInv

LEMMA CrashStep ==
  ASSUME NvInv, NEW k \in 0..MaxLen, Crash(k)
  PROVE  NvInv'
<1>1. /\ Writes /\ disk' = Overwritten(disk, Serialize(nv), k) /\ k < BankLen(nv)
      /\ saved' = {} /\ nv' = Fresh /\ staged' = <<>>
  BY DEF Crash, Clear
<1>2. Sound(nv) /\ Fits(nv)
  BY <1>1 DEF NvInv, Writes
<1>3. k \in 0..BankLen(nv)
  BY <1>1, <1>2, SerializeShaped
<1>4. Shaped(disk') /\ Traceable(disk', whole')
  BY <1>1, <1>3, WriteStep
<1>5. CoveredSaveReloads'
  BY <1>1 DEF CoveredSaveReloads
<1>6. Sound(nv') /\ OfOneBank(nv'.env, whole') /\ staged' \in Seq(Char)
  BY <1>1, FreshStep, StagedEmpty
<1> QED
  BY <1>4, <1>5, <1>6 DEF NvInv

LEMMA NextInv == NvInv /\ [Next]_nvVars => NvInv'
<1> SUFFICES ASSUME NvInv, [Next]_nvVars PROVE NvInv'
  OBVIOUS
<1>1. CASE UNCHANGED nvVars
  BY <1>1, DiskStands DEF nvVars, NvInv
<1>2. CASE \E c \in Char : GuestAppend(c)
  BY <1>2, AppendStep
<1>3. CASE \E bank \in Images : Ingest(bank)
  BY <1>3, IngestStep
<1>4. CASE \E k \in 0..MaxLen : SaveFails(k) \/ Crash(k)
  BY <1>4, SaveFailsStep, CrashStep
<1>5. CASE MmioReset \/ GuestCommit \/ Attach \/ AttachFails \/ Detach \/ Save
  BY <1>5, ResetStep, CommitStep, AttachStep, CloseStep, SaveStep
<1> QED
  BY <1>1, <1>2, <1>3, <1>4, <1>5 DEF Next

-----------------------------------------------------------------------------

(* For any number of saves that fail or are cut off at any cell, an image  *)
(* that loads is the first one or a bank some save set out to write        *)
(* (nvram_v1.c:429-435, 493-508, 550-579).                                 *)
THEOREM NothingMixed == Spec => []NoMixture
<1>1. NvInv => NoMixture
  <2> SUFFICES ASSUME NvInv, Parse(Fresh, Capped(disk)).ok
               PROVE  \E image \in whole : Capped(image) = Capped(disk)
    BY DEF NoMixture
  <2>1. Shaped(Capped(disk)) /\ Len(Capped(disk)) <= MaxLen
    BY CappedShaped, NvramAssumption DEF NvInv
  <2>2. SumOk(Capped(disk))
    BY <2>1, ParseFacts
  <2> QED
    BY <2>2 DEF NvInv, Traceable
<1> QED
  BY <1>1, InitInv, NextInv, PTL DEF Spec

(* The variables the guest did not commit itself are those of one bank,   *)
(* all of them, or none, for every bank and number of variables            *)
(* (nvram_v1.c:437-456).                                                   *)
THEOREM NoBankHalved == Spec => []NoHalfBank
<1>1. NvInv => NoHalfBank
  BY HalfBankForm DEF NvInv
<1> QED
  BY <1>1, InitInv, NextInv, PTL DEF Spec

(* What a covering save wrote is read back: the parser inverts the         *)
(* serializer on every bank the bridge can hold                            *)
(* (nvram_v1.c:493-508, 702-785).                                          *)
THEOREM CoveringSaveReloads == Spec => []CoveredSaveReloads
<1>1. NvInv => CoveredSaveReloads
  BY DEF NvInv
<1> QED
  BY <1>1, InitInv, NextInv, PTL DEF Spec
=============================================================================
