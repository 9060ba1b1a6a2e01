--------------------------- MODULE CpuPairProofs ---------------------------
(***************************************************************************)
(* The reference core, the native core beside it and the caller of both,   *)
(* for every program over every family of words, every memory size,        *)
(* budget, block length and set of regimes.                                *)
(*                                                                         *)
(* What the reference core keeps to comes first: the walker and the        *)
(* monitor (CoreInv), the timers and the machine graph (DeviceInv), levels *)
(* and exception banks (LevelsInv).  On these rests the simulation of the  *)
(* reference core by the native one (PairInv).                             *)
(***************************************************************************)
EXTENDS CpuPair, TLAPS

-----------------------------------------------------------------------------
(* A core is a record of many fields, and an operation changes a few: e is *)
(* d but for the fields of F.                                              *)

Keeps(e, d, F) ==
  /\ DOMAIN e = DOMAIN d
  /\ \A x \in DOMAIN d : x \notin F => e[x] = d[x]

LEMMA KeepsWithin ==
  ASSUME NEW e, NEW d, NEW F, NEW G, Keeps(e, d, F), F \subseteq G
  PROVE  Keeps(e, d, G)
BY DEF Keeps

LEMMA KeepsAfter ==
  ASSUME NEW f, NEW e, NEW d, NEW F, Keeps(e, d, F), Keeps(f, e, F)
  PROVE  Keeps(f, d, F)
BY DEF Keeps

Banked == {"spsr", "elr", "esr"}
Raised == Banked \cup {"pend", "target", "lower"}
Taken == Raised \cup {"spEl", "el", "ps", "sp", "pc", "vector"}
Polled == Taken \cup {"ext", "status"}

LEMMA RaiseKeeps ==
  ASSUME NEW d, NEW kind
  PROVE  Keeps(R!Raise(d, kind), d, Raised)
<1>1. Keeps(R!WriteBank(d, R!TargetEl(d.el), kind, d.pc), d, Banked)
  BY DEF Keeps, R!WriteBank, Banked
<1> QED
  BY <1>1 DEF Keeps, R!Raise, Raised, Banked

LEMMA SaveSpKeeps ==
  ASSUME NEW d
  PROVE  Keeps(R!SaveSp(d), d, {"spEl"})
BY DEF Keeps, R!SaveSp

LEMMA TakeKeeps ==
  ASSUME NEW d
  PROVE  Keeps(R!Take(d), d, Taken)
<1>1. PICK s : s = R!SaveSp(d)
  OBVIOUS
<1>2. Keeps(s, d, {"spEl"})
  BY <1>1, SaveSpKeeps
<1>3. PICK b : b = R!WriteBank(s, d.target, d.pend, d.elr[d.target])
  OBVIOUS
<1>4. Keeps(b, s, Banked)
  BY <1>3 DEF Keeps, R!WriteBank, Banked
<1>5. PICK at : at = d.vbar[d.target] + R!Offset(d.pend, d.el, d.ps)
  OBVIOUS
<1>6. PICK e : e = R!Enter(b, d.target, at)
  OBVIOUS
<1>7. Keeps(e, b, {"el", "ps", "sp", "pc", "vector", "pend", "target", "lower"})
  BY <1>6 DEF Keeps, R!Enter
<1>8. R!Take(d) = e
  BY <1>1, <1>3, <1>5, <1>6 DEF R!Take
<1> QED
  BY <1>2, <1>4, <1>7, <1>8 DEF Keeps, Taken, Raised, Banked

(* A poll that lets the run go on changes nothing; one that stops it       *)
(* changes the exception state and the routed bit only (arch.rs).          *)
LEMMA PollCases ==
  ASSUME NEW d, d.status = "run", "status" \in DOMAIN d
  PROVE  /\ Keeps(R!Poll(d), d, Polled)
         /\ R!Poll(d).status = "run" => R!Poll(d) = d
         /\ R!Poll(d).status \in {"run"} \cup Kinds
<1>1. PICK kind : kind = R!Eligible(d)
  OBVIOUS
<1>2. kind \in {"none", "FiqInterrupt", "TimerInterrupt", "ExternalInterrupt"}
  BY <1>1 DEF R!Eligible
<1>3. PICK x : x = IF kind = "ExternalInterrupt" THEN [d EXCEPT !.ext = FALSE] ELSE d
  OBVIOUS
<1>4. Keeps(x, d, {"ext"})
  BY <1>3 DEF Keeps
<1>5. PICK trap : trap = [R!Raise(d, "SystemRegisterTrap") EXCEPT !.status = "SystemRegisterTrap"]
  OBVIOUS
<1>6. Keeps(trap, d, Polled) /\ trap.status = "SystemRegisterTrap"
  <2>1. PICK y : y = R!Raise(d, "SystemRegisterTrap")
    OBVIOUS
  <2>2. Keeps(y, d, Raised)
    BY <2>1, RaiseKeeps
  <2>3. trap = [y EXCEPT !.status = "SystemRegisterTrap"]
    BY <1>5, <2>1
  <2> QED
    BY <2>2, <2>3 DEF Keeps, Polled, Taken
<1>7. PICK irq : irq = [R!Take(R!Raise(x, kind)) EXCEPT !.status = kind]
  OBVIOUS
<1>8. Keeps(irq, d, Polled) /\ irq.status = kind
  <2>1. PICK y : y = R!Raise(x, kind)
    OBVIOUS
  <2>2. PICK z : z = R!Take(y)
    OBVIOUS
  <2>3. Keeps(y, x, Raised) /\ Keeps(z, y, Taken)
    BY <2>1, <2>2, RaiseKeeps, TakeKeeps
  <2>4. irq = [z EXCEPT !.status = kind]
    BY <1>7, <2>1, <2>2
  <2>5. Keeps(z, d, Polled)
    BY <1>4, <2>3 DEF Keeps, Polled, Taken
  <2> QED
    BY <2>4, <2>5 DEF Keeps, Polled
<1>9. R!Poll(d) = d \/ R!Poll(d) = trap \/ (kind # "none" /\ R!Poll(d) = irq)
  <2>1. \E stop \in BOOLEAN : R!Poll(d) = IF d.pend # "none" THEN d
                        ELSE IF stop THEN trap ELSE IF kind = "none" THEN d ELSE irq
    <3>1. PICK stop \in BOOLEAN :
            stop <=> /\ d.irq \/ d.fiq \/ d.ext \/ \E t \in R!Timer : R!Pending(d, t)
                     /\ R!Routed(d)
      OBVIOUS
    <3> QED
      BY <1>1, <1>3, <1>5, <1>7, <3>1, Zenon DEF R!Poll
  <2> QED
    BY <2>1
<1>10. Keeps(d, d, Polled)
  BY DEF Keeps
<1> QED
  BY <1>2, <1>6, <1>8, <1>9, <1>10 DEF Kinds, Interrupts

-----------------------------------------------------------------------------
(* Instructions. *)

\* What an instruction that is no system register access may change.
Worked == {"pc", "sp", "spEl", "ps", "el", "waiting", "excl", "g"}
Ran == {"run", "Halt", "Wait"}
\* The exceptions an instruction raises.
Faults == Kinds \ Interrupts

MemoryWords == {"ldxr", "stxr", "clrex", "str", "stp"}
DeviceWords == {"mmio_cmp", "mmio_ctl", "mmio_cnt", "mmio_show"}
OtherWords == {"undef", "svc", "addsp", "b", "hlt", "wfi", "eret", "daifset", "daifclr",
               "spsel", "nop", "tlbi", "dmb"}

LEMMA Next4Keeps ==
  ASSUME NEW d
  PROVE  R!Next4(d).how = "run" /\ Keeps(R!Next4(d).core, d, {"pc"})
BY DEF R!Next4, R!Done, Keeps

LEMMA Next4After ==
  ASSUME NEW e, NEW d, NEW F, Keeps(e, d, F), "pc" \in F
  PROVE  R!Next4(e).how = "run" /\ Keeps(R!Next4(e).core, d, F)
<1>1. R!Next4(e).how = "run" /\ Keeps(R!Next4(e).core, e, {"pc"})
  BY Next4Keeps
<1> QED
  BY <1>1 DEF Keeps

\* An instruction that ran and changed F only, or an exception and no change.
Outcome(x, d, F) ==
  \/ x.how \in Ran /\ Keeps(x.core, d, F)
  \/ x.how \in Faults /\ x.core = d

LEMMA OutcomeWithin ==
  ASSUME NEW x, NEW d, NEW F, NEW G, Outcome(x, d, F), F \subseteq G
  PROVE  Outcome(x, d, G)
BY KeepsWithin DEF Outcome

LEMMA DoneFault ==
  ASSUME NEW d, NEW kind \in Faults, NEW F
  PROVE  Outcome(R!Done(d, kind), d, F)
BY DEF R!Done, Outcome

LEMMA EretOutcome ==
  ASSUME NEW d
  PROVE  Outcome(R!Eret(d), d, {"spEl", "ps", "pc", "el", "sp"})
<1>1. PICK ps : ps = d.spsr[d.el]
  OBVIOUS
<1>2. PICK s : s = R!SaveSp(d)
  OBVIOUS
<1>3. Keeps(s, d, {"spEl"})
  BY <1>2, SaveSpKeeps
<1>4. PICK e : e = [s EXCEPT !.ps = ps, !.pc = d.elr[d.el], !.el = ps.lvl,
                              !.sp = s.spEl[ps.lvl]]
  OBVIOUS
<1>5. Keeps(e, s, {"ps", "pc", "el", "sp"})
  BY <1>4 DEF Keeps
<1>6. Keeps(e, d, {"spEl", "ps", "pc", "el", "sp"})
  BY <1>3, <1>5 DEF Keeps
<1>7. R!Eret(d) = IF ~R!Restorable(ps) THEN R!Done(d, "UndefinedInstruction")
                  ELSE R!Done(e, "run")
  BY <1>1, <1>2, <1>4, Zenon DEF R!Eret
<1>8. CASE ~R!Restorable(ps)
  <2>1. "UndefinedInstruction" \in Faults
    BY DEF Faults, Kinds, Interrupts
  <2>2. R!Eret(d) = R!Done(d, "UndefinedInstruction")
    BY <1>7, <1>8
  <2> QED
    BY <2>1, <2>2, DoneFault
<1>9. CASE R!Restorable(ps)
  <2>1. R!Eret(d) = R!Done(e, "run")
    BY <1>7, <1>9
  <2> QED
    BY <1>6, <2>1 DEF R!Done, Outcome, Ran
<1> QED
  BY <1>8, <1>9

LEMMA SetPstateKeeps ==
  ASSUME NEW d, NEW w, w.op \in {"daifset", "daifclr", "spsel"}
  PROVE  Keeps(R!SetPstate(d, w), d, {"ps", "spEl", "sp"})
<1>1. CASE w.op = "daifset"
  BY <1>1 DEF R!SetPstate, Keeps
<1>2. CASE w.op = "daifclr"
  BY <1>2 DEF R!SetPstate, Keeps
<1>3. CASE w.op = "spsel"
  <2>1. PICK s : s = R!SaveSp(d)
    OBVIOUS
  <2>2. Keeps(s, d, {"spEl"})
    BY <2>1, SaveSpKeeps
  <2>3. PICK e : e = [s EXCEPT !.ps.h = w.a]
    OBVIOUS
  <2>4. R!SetPstate(d, w) = [e EXCEPT !.sp = e.spEl[R!SpIndex(e.el, e.ps)]]
    BY <1>3, <2>1, <2>3 DEF R!SetPstate
  <2> QED
    BY <2>2, <2>3, <2>4 DEF Keeps
<1> QED
  BY <1>1, <1>2, <1>3

LEMMA ClearKeeps ==
  ASSUME NEW d, NEW addr, NEW size
  PROVE  Keeps(R!ClearOnStore(d, addr, size), d, {"excl"})
BY DEF R!ClearOnStore, Keeps

(* Stores, exclusives and CLREX touch the monitor only (arch.rs).          *)
LEMMA StoreOutcome ==
  ASSUME NEW d, NEW w
  PROVE  /\ Outcome(R!Store(d, w), d, {"pc", "excl"})
         /\ Outcome(R!StorePair(d, w), d, {"pc", "excl"})
         /\ Outcome(R!ExclusiveStep(d, w), d, {"pc", "excl"})
<1>1. Outcome(R!Store(d, w), d, {"pc", "excl"})
  <2>1. PICK f : f = R!StoreFault(d, w)
    OBVIOUS
  <2>2. f \in Faults \cup {"none"}
    BY <2>1 DEF R!StoreFault, Faults, Kinds, Interrupts
  <2>3. CASE f # "none"
    <3>1. R!Store(d, w) = R!Done(d, f)
      BY <2>1, <2>3 DEF R!Store
    <3> QED
      BY <2>2, <2>3, <3>1, DoneFault
  <2>4. CASE f = "none"
    <3>1. PICK e : e = R!ClearOnStore(d, R!Physical(d, w.a), w.b)
      OBVIOUS
    <3>2. Keeps(e, d, {"pc", "excl"})
      BY <3>1, ClearKeeps, KeepsWithin
    <3>3. R!Store(d, w) = R!Next4(e)
      BY <2>1, <2>4, <3>1 DEF R!Store
    <3> QED
      BY <3>2, <3>3, Next4After DEF Outcome, Ran
  <2> QED
    BY <2>3, <2>4
<1>2. Outcome(R!StorePair(d, w), d, {"pc", "excl"})
  <2>1. PICK f : f = R!PairFault(d, w)
    OBVIOUS
  <2>2. f \in Faults \cup {"none"}
    BY <2>1 DEF R!PairFault, Faults, Kinds, Interrupts
  <2>3. CASE f # "none"
    <3>1. R!StorePair(d, w) = R!Done(d, f)
      BY <2>1, <2>3 DEF R!StorePair
    <3> QED
      BY <2>2, <2>3, <3>1, DoneFault
  <2>4. CASE f = "none"
    <3>1. PICK e : e = R!ClearOnStore(d, w.a, w.b)
      OBVIOUS
    <3>2. PICK h : h = R!ClearOnStore(e, w.a + w.b, w.b)
      OBVIOUS
    <3>3. Keeps(e, d, {"excl"}) /\ Keeps(h, e, {"excl"})
      BY <3>1, <3>2, ClearKeeps
    <3>4. Keeps(h, d, {"pc", "excl"})
      BY <3>3 DEF Keeps
    <3>5. R!StorePair(d, w) = R!Next4(h)
      BY <2>1, <2>4, <3>1, <3>2 DEF R!StorePair, R!PairCleared
    <3> QED
      BY <3>4, <3>5, Next4After DEF Outcome, Ran
  <2> QED
    BY <2>3, <2>4
<1>3. Outcome(R!ExclusiveStep(d, w), d, {"pc", "excl"})
  <2>1. PICK f : f = R!ExclusiveFault(d, w)
    OBVIOUS
  <2>2. f \in Faults \cup {"none"}
    BY <2>1 DEF R!ExclusiveFault, Faults, Kinds, Interrupts
  <2>3. CASE f # "none"
    <3>1. R!ExclusiveStep(d, w) = R!Done(d, f)
      BY <2>1, <2>3 DEF R!ExclusiveStep
    <3> QED
      BY <2>2, <2>3, <3>1, DoneFault
  <2>4. CASE f = "none"
    <3>1. PICK e : e = IF w.op = "ldxr"
                       THEN [d EXCEPT !.excl = [valid |-> TRUE, addr |-> R!Physical(d, w.a),
                                                size |-> w.b]]
                       ELSE [d EXCEPT !.excl.valid = FALSE]
      OBVIOUS
    <3>2. Keeps(e, d, {"pc", "excl"})
      BY <3>1 DEF Keeps
    <3>3. R!ExclusiveStep(d, w) = R!Next4(e)
      BY <2>1, <2>4, <3>1 DEF R!ExclusiveStep
    <3> QED
      BY <3>2, <3>3, Next4After DEF Outcome, Ran
  <2> QED
    BY <2>3, <2>4
<1> QED
  BY <1>1, <1>2, <1>3

(* A device access touches the graph only (m1.rs).                         *)
LEMMA MmioOutcome ==
  ASSUME NEW d, NEW w
  PROVE  Outcome(R!Mmio(d, w), d, {"pc", "g"})
<1>1. PICK f : f = R!MmioFault(d, w)
  OBVIOUS
<1>2. f \in Faults \cup {"none"}
  BY <1>1 DEF R!MmioFault, Faults, Kinds, Interrupts
<1>3. CASE f # "none"
  <2>1. R!Mmio(d, w) = R!Done(d, f)
    BY <1>1, <1>3 DEF R!Mmio
  <2> QED
    BY <1>2, <1>3, <2>1, DoneFault
<1>4. CASE f = "none"
  <2>1. PICK e : e = R!MmioWritten(d, w)
    OBVIOUS
  <2>2. Keeps(e, d, {"pc", "g"})
    BY <2>1 DEF Keeps, R!MmioWritten
  <2>3. R!Mmio(d, w) = R!Next4(e)
    BY <1>1, <1>4, <2>1 DEF R!Mmio
  <2> QED
    BY <2>2, <2>3, Next4After DEF Outcome, Ran
<1> QED
  BY <1>3, <1>4

\* The fields a system register write changes.
Target(op) ==
  CASE op = "msr_plat" -> {"ovI", "ovF"}
    [] op = "msr_hcr" -> {"hcr"}
    [] op = "msr_sctlr" -> {"m"}
    [] op = "msr_ttbr" -> {"ttbr"}
    [] op = "msr_tcr" -> {"tcr"}
    [] op = "msr_vbar" -> {"vbar"}
    [] op = "msr_elr" -> {"elr"}
    [] op = "msr_spsr" -> {"spsr"}
    [] op \in {"msr_ctl", "msr_cval", "msr_tval"} -> {"tim"}
    [] OTHER -> {}

LEMMA WrittenKeeps ==
  ASSUME NEW d, NEW w
  PROVE  Keeps(R!Written(d, w), d, Target(w.op))
<1>1. Keeps(R!WriteCtl(d, w.t, w.a), d, {"tim"})
  <2>1. PICK e : e = [d EXCEPT !.tim[w.t].en = R!Ctl(w.a).en, !.tim[w.t].im = R!Ctl(w.a).im]
    OBVIOUS
  <2>2. R!WriteCtl(d, w.t, w.a) = [e EXCEPT !.tim[w.t].is = R!Pending(e, w.t)]
    BY <2>1 DEF R!WriteCtl
  <2> QED
    BY <2>1, <2>2 DEF Keeps
<1>2. CASE w.op = "msr_ctl"
  BY <1>1, <1>2 DEF R!Written, Target
<1>3. CASE w.op \in {"msr_plat", "msr_hcr", "msr_sctlr"}
  BY <1>3 DEF R!Written, Keeps, Target
<1>4. CASE w.op \in {"msr_ttbr", "msr_tcr", "msr_vbar", "msr_elr"}
  BY <1>4 DEF R!Written, Keeps, Target
<1>5. CASE w.op \in {"msr_spsr", "msr_cval", "msr_tval"}
  BY <1>5 DEF R!Written, Keeps, Target
<1>6. CASE w.op \notin {"msr_plat", "msr_hcr", "msr_sctlr", "msr_ttbr", "msr_tcr", "msr_vbar",
                        "msr_elr", "msr_spsr", "msr_cval", "msr_tval", "msr_ctl"}
  BY <1>6 DEF R!Written, Keeps, Target
<1> QED
  BY <1>2, <1>3, <1>4, <1>5, <1>6

LEMMA SyncKeeps ==
  ASSUME NEW d
  PROVE  Keeps(R!SyncMmu(d), d, {"mmu"})
BY DEF R!SyncMmu, Keeps

(* The three ends of a system register access (arch.rs).                   *)
LEMMA SysregCases ==
  ASSUME NEW d, NEW w
  PROVE  \/ R!Sysreg(d, w).how \in Faults /\ R!Sysreg(d, w).core = d
         \/ /\ R!SysregFault(d, w) = "none" /\ R!Synced(d, w)
            /\ R!Sysreg(d, w).how \in Faults
            /\ R!Sysreg(d, w).core = R!SyncMmu(d)
         \/ /\ R!SysregFault(d, w) = "none" /\ ~R!Synced(d, w)
            /\ R!Sysreg(d, w) = R!Next4(R!Written(d, w))
         \/ /\ R!SysregFault(d, w) = "none" /\ R!Synced(d, w)
            /\ ~R!SyncFails(R!Written(d, w))
            /\ R!Sysreg(d, w) = R!Next4(R!SyncMmu(R!Written(d, w)))
<1>1. PICK f : f = R!SysregFault(d, w)
  OBVIOUS
<1>2. f \in Faults \cup {"none"}
  BY <1>1 DEF R!SysregFault, Faults, Kinds, Interrupts
<1>3. CASE f # "none"
  <2>1. R!Sysreg(d, w) = R!Done(d, f)
    BY <1>1, <1>3 DEF R!Sysreg
  <2> QED
    BY <1>2, <1>3, <2>1 DEF R!Done
<1>4. CASE f = "none"
  <2>1. CASE ~R!Synced(d, w)
    BY <1>1, <1>4, <2>1 DEF R!Sysreg
  <2>2. CASE R!Synced(d, w) /\ R!SyncFails(R!Written(d, w))
    <3>1. R!Sysreg(d, w) = R!Done(R!SyncMmu(d), "SystemRegisterTrap")
      BY <1>1, <1>4, <2>2 DEF R!Sysreg, R!Refused
    <3>2. R!Sysreg(d, w).core = R!SyncMmu(d) /\ R!Sysreg(d, w).how \in Faults
      BY <3>1 DEF R!Done, Faults, Kinds, Interrupts
    <3> QED
      BY <1>1, <1>4, <2>2, <3>2
  <2>3. CASE R!Synced(d, w) /\ ~R!SyncFails(R!Written(d, w))
    BY <1>1, <1>4, <2>3 DEF R!Sysreg
  <2> QED
    BY <2>1, <2>2, <2>3
<1> QED
  BY <1>3, <1>4

(* What an instruction does, by its kind.                                  *)
LEMMA ExecuteCases ==
  ASSUME NEW d, NEW w
  PROVE  /\ w.op \in OtherWords =>
              Outcome(R!ExecuteOne(d, w), d, {"pc", "sp", "spEl", "ps", "el", "waiting"})
         /\ w.op \in MemoryWords => Outcome(R!ExecuteOne(d, w), d, {"pc", "excl"})
         /\ w.op \in DeviceWords => R!ExecuteOne(d, w) = R!Mmio(d, w)
         /\ w.op \notin OtherWords \cup MemoryWords \cup DeviceWords =>
              R!ExecuteOne(d, w) = R!Sysreg(d, w)
<1> USE DEF R!Privileged, R!Immediate, R!Exclusive, R!Device
<1>1. ASSUME w.op \in OtherWords
      PROVE  Outcome(R!ExecuteOne(d, w), d, {"pc", "sp", "spEl", "ps", "el", "waiting"})
  <2>0. /\ "PrivilegedInstruction" \in Faults /\ "UndefinedInstruction" \in Faults
        /\ "SupervisorCall" \in Faults
    BY DEF Faults, Kinds, Interrupts
  <2>1. CASE d.el = 0 /\ w.op \in R!Privileged
    <3>1. R!ExecuteOne(d, w) = R!Done(d, "PrivilegedInstruction")
      BY <2>1 DEF R!ExecuteOne
    <3> QED
      BY <2>0, <3>1, DoneFault
  <2>2. CASE ~(d.el = 0 /\ w.op \in R!Privileged) /\ w.op \in {"undef", "svc"}
    <3>1. R!ExecuteOne(d, w) \in {R!Done(d, "UndefinedInstruction"), R!Done(d, "SupervisorCall")}
      BY <2>2 DEF R!ExecuteOne
    <3> QED
      BY <2>0, <3>1, DoneFault
  <2>3. CASE ~(d.el = 0 /\ w.op \in R!Privileged) /\ w.op \in {"b", "hlt", "wfi"}
    <3>1. PICK e : /\ e \in {[d EXCEPT !.pc = @ + 8], [d EXCEPT !.pc = @ + 4],
                             [d EXCEPT !.pc = @ + 4, !.waiting = TRUE]}
                   /\ \E how \in Ran : R!ExecuteOne(d, w) = R!Done(e, how)
      BY <2>3 DEF R!ExecuteOne, Ran
    <3>2. Keeps(e, d, {"pc", "sp", "spEl", "ps", "el", "waiting"})
      BY <3>1 DEF Keeps
    <3> QED
      BY <3>1, <3>2 DEF R!Done, Outcome
  <2>4. CASE ~(d.el = 0 /\ w.op \in R!Privileged) /\ w.op = "eret"
    <3>1. R!ExecuteOne(d, w) = R!Eret(d)
      BY <2>4 DEF R!ExecuteOne
    <3> QED
      BY <3>1, EretOutcome, OutcomeWithin
  <2>5. CASE ~(d.el = 0 /\ w.op \in R!Privileged) /\ w.op \in R!Immediate
    <3>1. R!ExecuteOne(d, w) = R!Next4(R!SetPstate(d, w))
      BY <2>5 DEF R!ExecuteOne
    <3>2. Keeps(R!SetPstate(d, w), d, {"pc", "sp", "spEl", "ps", "el", "waiting"})
      BY <2>5, SetPstateKeeps, KeepsWithin
    <3> QED
      BY <3>1, <3>2, Next4After DEF Outcome, Ran
  <2>6. CASE ~(d.el = 0 /\ w.op \in R!Privileged) /\ w.op \in {"addsp", "nop", "tlbi", "dmb"}
    <3>1. PICK e : e \in {d, [d EXCEPT !.sp = @ + w.a]} /\ R!ExecuteOne(d, w) = R!Next4(e)
      BY <2>6 DEF R!ExecuteOne
    <3>2. Keeps(e, d, {"pc", "sp", "spEl", "ps", "el", "waiting"})
      BY <3>1 DEF Keeps
    <3> QED
      BY <3>1, <3>2, Next4After DEF Outcome, Ran
  <2> QED
    BY <1>1, <2>1, <2>2, <2>3, <2>4, <2>5, <2>6 DEF OtherWords
<1>2. ASSUME w.op \in MemoryWords PROVE Outcome(R!ExecuteOne(d, w), d, {"pc", "excl"})
  <2>1. CASE w.op \in R!Exclusive
    <3>1. R!ExecuteOne(d, w) = R!ExclusiveStep(d, w)
      BY <2>1 DEF R!ExecuteOne
    <3> QED
      BY <3>1, StoreOutcome
  <2>2. CASE w.op = "clrex"
    <3>1. R!ExecuteOne(d, w) = R!Next4([d EXCEPT !.excl.valid = FALSE])
      BY <2>2 DEF R!ExecuteOne
    <3>2. Keeps([d EXCEPT !.excl.valid = FALSE], d, {"pc", "excl"})
      BY DEF Keeps
    <3> QED
      BY <3>1, <3>2, Next4After DEF Outcome, Ran
  <2>3. CASE w.op = "str"
    <3>1. R!ExecuteOne(d, w) = R!Store(d, w)
      BY <2>3 DEF R!ExecuteOne
    <3> QED
      BY <3>1, StoreOutcome
  <2>4. CASE w.op = "stp"
    <3>1. R!ExecuteOne(d, w) = R!StorePair(d, w)
      BY <2>4 DEF R!ExecuteOne
    <3> QED
      BY <3>1, StoreOutcome
  <2> QED
    BY <1>2, <2>1, <2>2, <2>3, <2>4 DEF MemoryWords
<1>3. ASSUME w.op \in DeviceWords PROVE R!ExecuteOne(d, w) = R!Mmio(d, w)
  BY <1>3 DEF DeviceWords, R!ExecuteOne
<1>4. ASSUME w.op \notin OtherWords \cup MemoryWords \cup DeviceWords
      PROVE  R!ExecuteOne(d, w) = R!Sysreg(d, w)
  BY <1>4 DEF OtherWords, MemoryWords, DeviceWords, R!ExecuteOne
<1> QED
  BY <1>1, <1>2, <1>3, <1>4

-----------------------------------------------------------------------------
(* A step of the loop. *)

Fields == {"el", "ps", "pc", "sp", "spEl", "spsr", "elr", "esr", "vbar", "pend", "target",
           "lower", "vector", "cnt", "tim", "prof", "ovI", "ovF", "irq", "fiq", "ext",
           "hcr", "m", "ttbr", "tcr", "mmu", "excl", "bus", "g", "waiting", "retired",
           "status"}

IsCore(d) == DOMAIN d = Fields

Retired == {"retired", "cnt", "tim", "g", "ext"}

LEMMA AfterKeeps ==
  ASSUME NEW d, NEW w
  PROVE  Keeps(R!AfterInstruction(d, w), d, {"tim", "g", "ext"})
<1>1. PICK a : a = R!TakeProgram(d, w)
  OBVIOUS
<1>2. Keeps(a, d, {"tim"})
  BY <1>1 DEF R!TakeProgram, Keeps
<1>3. PICK b : b = R!SyncGuestTimer(a)
  OBVIOUS
<1>4. Keeps(b, a, {"g"})
  BY <1>3 DEF R!SyncGuestTimer, Keeps
<1>5. PICK c0 : c0 = R!RouteExternal(b)
  OBVIOUS
<1>6. Keeps(c0, b, {"ext"})
  BY <1>5 DEF R!RouteExternal, Keeps
<1>7. Keeps(c0, d, {"tim", "g", "ext"}) /\ Keeps(d, d, {"tim", "g", "ext"})
  BY <1>2, <1>4, <1>6 DEF Keeps
<1>8. R!AfterInstruction(d, w) \in {d, c0}
  BY <1>1, <1>3, <1>5 DEF R!AfterInstruction
<1> QED
  BY <1>7, <1>8

LEMMA AdvanceKeeps ==
  ASSUME NEW d
  PROVE  Keeps(R!AdvanceCounter(d), d, {"cnt", "tim"})
<1>1. PICK e : e = [d EXCEPT !.cnt = @ + 1]
  OBVIOUS
<1>2. R!AdvanceCounter(d) =
        [e EXCEPT !.tim = [t \in R!Timer |-> [e.tim[t] EXCEPT !.is = R!Pending(e, t)]]]
  BY <1>1 DEF R!AdvanceCounter
<1> QED
  BY <1>1, <1>2 DEF Keeps

LEMMA RetireKeeps ==
  ASSUME NEW d, NEW w, IsCore(d)
  PROVE  /\ Keeps(R!Retire(d, w), d, Retired)
         /\ R!Retire(d, w).retired = d.retired + 1
<1>1. PICK a : a = [d EXCEPT !.retired = @ + 1]
  OBVIOUS
<1>2. Keeps(a, d, {"retired"}) /\ a.retired = d.retired + 1
  BY <1>1 DEF Keeps, IsCore, Fields
<1>3. PICK b : b = R!AdvanceCounter(a)
  OBVIOUS
<1>4. Keeps(b, a, {"cnt", "tim"})
  BY <1>3, AdvanceKeeps
<1>5. PICK e : e = R!AfterInstruction(b, w)
  OBVIOUS
<1>6. Keeps(e, b, {"tim", "g", "ext"})
  BY <1>5, AfterKeeps
<1>7. R!Retire(d, w) = e
  BY <1>1, <1>3, <1>5 DEF R!Retire
<1>8. Keeps(e, d, Retired)
  BY <1>2, <1>4, <1>6 DEF Keeps, Retired
<1>9. e.retired = a.retired
  BY <1>2, <1>4, <1>6 DEF Keeps, IsCore, Fields
<1> QED
  BY <1>2, <1>7, <1>8, <1>9

\* The four ways a step can go: the budget is spent, an interrupt is entered or
\* refused, the instruction raises an exception, it retires.
Spent(d, e) == e = [d EXCEPT !.status = "Budget"]
Stopped(d, e) == Keeps(e, d, Polled) /\ e.status \in Kinds /\ e = R!Poll(d)
Faulted(e, x) == x.how \in Kinds /\ e = [R!Raise(x.core, x.how) EXCEPT !.status = x.how]
Completed(e, x, w) == x.how \notin Kinds /\ e = [R!Retire(x.core, w) EXCEPT !.status = x.how]

LEMMA SameKinds == R!Kinds = Kinds /\ R!Interrupts = Interrupts
BY DEF R!Kinds, Kinds, R!Interrupts, Interrupts

LEMMA StepCases ==
  ASSUME NEW d, IsCore(d), d.status = "run", NEW w, NEW e, e = R!Step(d, w)
  PROVE  \/ d.retired >= Budget /\ Spent(d, e)
         \/ ~(d.retired >= Budget) /\ Stopped(d, e)
         \/ ~(d.retired >= Budget) /\ Faulted(e, R!ExecuteOne(d, w))
         \/ ~(d.retired >= Budget) /\ Completed(e, R!ExecuteOne(d, w), w)
<1>1. "status" \in DOMAIN d
  BY DEF IsCore, Fields
<1>2. CASE d.retired >= Budget
  BY <1>2 DEF R!Step, Spent
<1>3. CASE ~(d.retired >= Budget)
  <2>1. PICK p : p = R!Poll(d)
    OBVIOUS
  <2>2. /\ Keeps(p, d, Polled) /\ (p.status = "run" => p = d)
        /\ p.status \in {"run"} \cup Kinds
    BY <1>1, <2>1, PollCases
  <2>3. CASE p.status # "run"
    <3>1. e = p
      BY <1>3, <2>1, <2>3 DEF R!Step
    <3> QED
      BY <1>3, <2>1, <2>2, <2>3, <3>1 DEF Stopped
  <2>4. CASE p.status = "run"
    <3>1. PICK x : x = R!ExecuteOne(d, w)
      OBVIOUS
    <3>2. e = R!Complete(x, w)
      BY <1>3, <2>1, <2>2, <2>4, <3>1 DEF R!Step
    <3>3. e = IF x.how \in Kinds THEN [R!Raise(x.core, x.how) EXCEPT !.status = x.how]
              ELSE [R!Retire(x.core, w) EXCEPT !.status = x.how]
      BY <3>2, SameKinds DEF R!Complete
    <3> QED
      BY <1>3, <3>1, <3>3 DEF Faulted, Completed
  <2> QED
    BY <2>3, <2>4
<1> QED
  BY <1>2, <1>3

LEMMA SpentKeeps ==
  ASSUME NEW d, NEW e, Spent(d, e)
  PROVE  Keeps(e, d, Polled)
BY DEF Spent, Keeps, Polled

LEMMA FaultedKeeps ==
  ASSUME NEW e, NEW x, Faulted(e, x)
  PROVE  Keeps(e, x.core, Polled)
<1>1. PICK a : a = R!Raise(x.core, x.how)
  OBVIOUS
<1>2. Keeps(a, x.core, Raised)
  BY <1>1, RaiseKeeps
<1>3. e = [a EXCEPT !.status = x.how]
  BY <1>1 DEF Faulted
<1> QED
  BY <1>2, <1>3 DEF Keeps, Polled, Taken

LEMMA CompletedKeeps ==
  ASSUME NEW e, NEW x, NEW w, Completed(e, x, w), IsCore(x.core)
  PROVE  /\ Keeps(e, x.core, Retired \cup {"status"})
         /\ e.retired = x.core.retired + 1
         /\ e.status = x.how
<1>1. PICK a : a = R!Retire(x.core, w)
  OBVIOUS
<1>2. Keeps(a, x.core, Retired) /\ a.retired = x.core.retired + 1
  BY <1>1, RetireKeeps
<1>3. e = [a EXCEPT !.status = x.how]
  BY <1>1 DEF Completed
<1>4. "retired" \in DOMAIN a /\ "status" \in DOMAIN a
  BY <1>2 DEF Keeps, IsCore, Fields
<1> QED
  BY <1>2, <1>3, <1>4 DEF Keeps

LEMMA CoreKept ==
  ASSUME NEW d, NEW e, NEW F, IsCore(d), Keeps(e, d, F)
  PROVE  IsCore(e)
BY DEF IsCore, Keeps

-----------------------------------------------------------------------------
(* The walker follows the registers. *)

MmuInv(d) ==
  /\ IsCore(d)
  /\ d.m \in BOOLEAN
  /\ d.ttbr \in Nat /\ d.tcr \in Nat
  /\ d.mmu \in [on : BOOLEAN, ttbr : Nat, tcr : Nat]
  /\ d.mmu.on <=> d.m
  /\ d.m => d.mmu.ttbr = d.ttbr /\ d.mmu.tcr = d.tcr

LEMMA MmuKept ==
  ASSUME NEW d, NEW e, NEW F, MmuInv(d), Keeps(e, d, F),
         "m" \notin F, "ttbr" \notin F, "tcr" \notin F, "mmu" \notin F
  PROVE  MmuInv(e)
<1>1. IsCore(e)
  BY CoreKept DEF MmuInv
<1>2. e.m = d.m /\ e.ttbr = d.ttbr /\ e.tcr = d.tcr /\ e.mmu = d.mmu
  BY DEF MmuInv, Keeps, IsCore, Fields
<1> QED
  BY <1>1, <1>2, Zenon DEF MmuInv

LEMMA SyncMmuInv ==
  ASSUME NEW d, IsCore(d), d.m \in BOOLEAN, d.ttbr \in Nat, d.tcr \in Nat,
         d.mmu \in [on : BOOLEAN, ttbr : Nat, tcr : Nat],
         ~R!SyncFails(d) \/ MmuInv(d)
  PROVE  MmuInv(R!SyncMmu(d))
<1>1. CASE ~d.m
  <2>1. PICK e : e = [d EXCEPT !.mmu.on = FALSE]
    OBVIOUS
  <2>2. R!SyncMmu(d) = e
    BY <1>1, <2>1 DEF R!SyncMmu
  <2>3. IsCore(e) /\ e.m = d.m /\ e.ttbr = d.ttbr /\ e.tcr = d.tcr
    BY <2>1 DEF IsCore, Fields
  <2>4. e.mmu = [d.mmu EXCEPT !.on = FALSE]
    BY <2>1 DEF IsCore, Fields
  <2>5. e.mmu \in [on : BOOLEAN, ttbr : Nat, tcr : Nat] /\ e.mmu.on = FALSE
    BY <2>4
  <2> QED
    BY <1>1, <2>2, <2>3, <2>5 DEF MmuInv
<1>2. CASE d.m /\ R!SyncFails(d)
  BY <1>2 DEF R!SyncMmu
<1>3. CASE d.m /\ ~R!SyncFails(d)
  <2>1. PICK u : u = [on |-> TRUE, ttbr |-> d.ttbr, tcr |-> d.tcr]
    OBVIOUS
  <2>2. PICK e : e = [d EXCEPT !.mmu = u]
    OBVIOUS
  <2>3. R!SyncMmu(d) = e
    BY <1>3, <2>1, <2>2 DEF R!SyncMmu
  <2>4. IsCore(e) /\ e.m = d.m /\ e.ttbr = d.ttbr /\ e.tcr = d.tcr /\ e.mmu = u
    BY <2>2 DEF IsCore, Fields
  <2>5. /\ u \in [on : BOOLEAN, ttbr : Nat, tcr : Nat]
        /\ u.on = TRUE /\ u.ttbr = d.ttbr /\ u.tcr = d.tcr
    BY <2>1
  <2> QED
    BY <1>3, <2>3, <2>4, <2>5 DEF MmuInv
<1> QED
  BY <1>1, <1>2, <1>3

LEMMA WrittenMmu ==
  ASSUME NEW d, MmuInv(d), NEW w \in Word, NEW e, e = R!Written(d, w)
  PROVE  /\ IsCore(e) /\ e.m \in BOOLEAN /\ e.ttbr \in Nat /\ e.tcr \in Nat
         /\ e.mmu = d.mmu
         /\ ~R!Synced(d, w) => MmuInv(e)
<1>1. w.a \in Nat
  BY DEF Word
<1>2. Keeps(e, d, Target(w.op)) /\ IsCore(e)
  BY WrittenKeeps, CoreKept DEF MmuInv
<1>3. e.mmu = d.mmu
  BY <1>2 DEF Keeps, Target, MmuInv, IsCore, Fields
<1>4. CASE w.op = "msr_sctlr"
  <2>1. PICK b \in BOOLEAN : b = (w.a = 1)
    OBVIOUS
  <2>2. e = [d EXCEPT !.m = b]
    BY <1>4, <2>1 DEF R!Written
  <2>3. e.m = b /\ e.ttbr = d.ttbr /\ e.tcr = d.tcr
    BY <2>2 DEF MmuInv, IsCore, Fields
  <2> QED
    BY <1>2, <1>3, <1>4, <2>3 DEF MmuInv, R!Synced
<1>5. CASE w.op = "msr_ttbr"
  <2>1. e = [d EXCEPT !.ttbr = w.a]
    BY <1>5 DEF R!Written
  <2>2. e.m = d.m /\ e.ttbr = w.a /\ e.tcr = d.tcr
    BY <2>1 DEF MmuInv, IsCore, Fields
  <2> QED
    BY <1>1, <1>2, <1>3, <1>5, <2>2 DEF MmuInv, R!Synced
<1>6. CASE w.op = "msr_tcr"
  <2>1. e = [d EXCEPT !.tcr = w.a]
    BY <1>6 DEF R!Written
  <2>2. e.m = d.m /\ e.ttbr = d.ttbr /\ e.tcr = w.a
    BY <2>1 DEF MmuInv, IsCore, Fields
  <2> QED
    BY <1>1, <1>2, <1>3, <1>6, <2>2 DEF MmuInv, R!Synced
<1>7. CASE w.op \notin {"msr_sctlr", "msr_ttbr", "msr_tcr"}
  <2>1. /\ "m" \notin Target(w.op) /\ "ttbr" \notin Target(w.op)
        /\ "tcr" \notin Target(w.op) /\ "mmu" \notin Target(w.op)
    BY <1>7 DEF Target
  <2>2. MmuInv(e)
    BY <1>2, <2>1, MmuKept
  <2> QED
    BY <1>2, <1>3, <2>2 DEF MmuInv
<1> QED
  BY <1>4, <1>5, <1>6, <1>7

LEMMA ExecuteMmu ==
  ASSUME NEW d, MmuInv(d), NEW w \in Word, NEW x, x = R!ExecuteOne(d, w)
  PROVE  MmuInv(x.core)
<1>1. CASE w.op \in OtherWords
  <2>1. Outcome(x, d, {"pc", "sp", "spEl", "ps", "el", "waiting"})
    BY <1>1, ExecuteCases
  <2> QED
    BY <2>1, MmuKept DEF Outcome
<1>2. CASE w.op \in MemoryWords
  <2>1. Outcome(x, d, {"pc", "excl"})
    BY <1>2, ExecuteCases
  <2> QED
    BY <2>1, MmuKept DEF Outcome
<1>3. CASE w.op \in DeviceWords
  <2>1. Outcome(x, d, {"pc", "g"})
    BY <1>3, ExecuteCases, MmioOutcome
  <2> QED
    BY <2>1, MmuKept DEF Outcome
<1>4. CASE w.op \notin OtherWords \cup MemoryWords \cup DeviceWords
  <2>1. x = R!Sysreg(d, w)
    BY <1>4, ExecuteCases
  <2>2. CASE x.core = d
    BY <2>2
  <2>3. CASE x.core = R!SyncMmu(d)
    BY <2>3, SyncMmuInv DEF MmuInv
  <2>4. PICK e : e = R!Written(d, w)
    OBVIOUS
  <2>5. /\ IsCore(e) /\ e.m \in BOOLEAN /\ e.ttbr \in Nat /\ e.tcr \in Nat
        /\ e.mmu \in [on : BOOLEAN, ttbr : Nat, tcr : Nat]
        /\ ~R!Synced(d, w) => MmuInv(e)
    BY <2>4, WrittenMmu DEF MmuInv
  <2>6. CASE ~R!Synced(d, w) /\ x = R!Next4(e)
    <3>1. Keeps(x.core, e, {"pc"})
      BY <2>6, Next4Keeps
    <3> QED
      BY <2>5, <2>6, <3>1, MmuKept
  <2>7. CASE ~R!SyncFails(e) /\ x = R!Next4(R!SyncMmu(e))
    <3>1. MmuInv(R!SyncMmu(e))
      BY <2>5, <2>7, SyncMmuInv
    <3>2. Keeps(x.core, R!SyncMmu(e), {"pc"})
      BY <2>7, Next4Keeps
    <3> QED
      BY <3>1, <3>2, MmuKept
  <2> QED
    BY <2>1, <2>2, <2>3, <2>4, <2>6, <2>7, SysregCases
<1> QED
  BY <1>1, <1>2, <1>3, <1>4

LEMMA StepMmu ==
  ASSUME NEW d, MmuInv(d), d.status = "run", NEW w \in Word
  PROVE  MmuInv(R!Step(d, w))
<1>1. PICK e : e = R!Step(d, w)
  OBVIOUS
<1>2. PICK x : x = R!ExecuteOne(d, w)
  OBVIOUS
<1>3. MmuInv(x.core) /\ IsCore(d) /\ IsCore(x.core)
  BY <1>2, ExecuteMmu DEF MmuInv
<1>4. /\ "m" \notin Polled /\ "ttbr" \notin Polled /\ "tcr" \notin Polled /\ "mmu" \notin Polled
  BY DEF Polled, Taken, Raised, Banked
<1>5. CASE Spent(d, e) \/ Stopped(d, e)
  BY <1>4, <1>5, <1>1, SpentKeeps, MmuKept DEF Stopped
<1>6. CASE Faulted(e, x)
  BY <1>1, <1>3, <1>4, <1>6, FaultedKeeps, MmuKept
<1>7. CASE Completed(e, x, w)
  <2>1. Keeps(e, x.core, Retired \cup {"status"})
    BY <1>3, <1>7, CompletedKeeps
  <2>2. /\ "m" \notin Retired \cup {"status"} /\ "ttbr" \notin Retired \cup {"status"}
        /\ "tcr" \notin Retired \cup {"status"} /\ "mmu" \notin Retired \cup {"status"}
    BY DEF Retired
  <2> QED
    BY <1>1, <1>3, <2>1, <2>2, MmuKept
<1> QED
  BY <1>1, <1>2, <1>3, <1>5, <1>6, <1>7, StepCases

-----------------------------------------------------------------------------
(* What a step means for the history: an instruction retires, or nothing  *)
(* but the exception state and the status changes.                         *)

Work(op) == {"pc", "sp", "spEl", "ps", "el", "waiting", "excl", "g", "mmu"} \cup Target(op)

LEMMA TargetRange ==
  ASSUME NEW op
  PROVE  Target(op) \subseteq {"ovI", "ovF", "hcr", "m", "ttbr", "tcr", "vbar", "elr",
                               "spsr", "tim"}
BY DEF Target

LEMMA ExecuteOutcome ==
  ASSUME NEW d, NEW w, NEW x, x = R!ExecuteOne(d, w)
  PROVE  \/ x.how \in Ran /\ Keeps(x.core, d, Work(w.op))
         \/ x.how \in Faults /\ Keeps(x.core, d, {"mmu"})
<1>0. \A F : Keeps(d, d, F)
  BY DEF Keeps
<1>1. ASSUME NEW F, Outcome(x, d, F), F \subseteq Work(w.op)
      PROVE  \/ x.how \in Ran /\ Keeps(x.core, d, Work(w.op))
             \/ x.how \in Faults /\ Keeps(x.core, d, {"mmu"})
  BY <1>0, <1>1, KeepsWithin DEF Outcome
<1>2. CASE w.op \in OtherWords
  <2>1. Outcome(x, d, {"pc", "sp", "spEl", "ps", "el", "waiting"})
    BY <1>2, ExecuteCases
  <2> QED
    BY <1>1, <2>1 DEF Work
<1>3. CASE w.op \in MemoryWords
  <2>1. Outcome(x, d, {"pc", "excl"})
    BY <1>3, ExecuteCases
  <2> QED
    BY <1>1, <2>1 DEF Work
<1>4. CASE w.op \in DeviceWords
  <2>1. Outcome(x, d, {"pc", "g"})
    BY <1>4, ExecuteCases, MmioOutcome
  <2> QED
    BY <1>1, <2>1 DEF Work
<1>5. CASE w.op \notin OtherWords \cup MemoryWords \cup DeviceWords
  <2>1. x = R!Sysreg(d, w)
    BY <1>5, ExecuteCases
  <2>2. PICK e : e = R!Written(d, w)
    OBVIOUS
  <2>3. Keeps(e, d, Work(w.op))
    BY <2>2, WrittenKeeps, KeepsWithin DEF Work
  <2>4. Keeps(R!SyncMmu(e), d, Work(w.op))
    <3>1. Keeps(R!SyncMmu(e), e, Work(w.op))
      BY SyncKeeps, KeepsWithin DEF Work
    <3> QED
      BY <2>3, <3>1, KeepsAfter
  <2>5. CASE x.how \in Faults /\ x.core \in {d, R!SyncMmu(d)}
    BY <1>0, <2>5, SyncKeeps
  <2>6. CASE x = R!Next4(e) \/ x = R!Next4(R!SyncMmu(e))
    <3>1. "pc" \in Work(w.op)
      BY DEF Work
    <3> QED
      BY <2>3, <2>4, <2>6, <3>1, Next4After DEF Ran
  <2> QED
    BY <2>1, <2>2, <2>5, <2>6, SysregCases
<1> QED
  BY <1>2, <1>3, <1>4, <1>5

LEMMA StepOutcome ==
  ASSUME NEW d, IsCore(d), d.retired \in Nat, d.status = "run", NEW w,
         NEW x, x = R!ExecuteOne(d, w), NEW e, e = R!Step(d, w)
  PROVE  \/ /\ ~Executes(d, e) /\ Keeps(e, d, Polled \cup {"mmu"}) /\ e.status # "run"
            /\ e.retired = d.retired
         \/ /\ Executes(d, e) /\ ~(d.retired >= Budget) /\ x.how \in Ran
            /\ IsCore(x.core) /\ Keeps(x.core, d, Work(w.op)) /\ Completed(e, x, w)
<1>1. "retired" \in DOMAIN d /\ "status" \in DOMAIN d
  BY DEF IsCore, Fields
<1>2. "retired" \notin Polled \cup {"mmu"} /\ "retired" \notin Work(w.op)
  BY TargetRange DEF Polled, Taken, Raised, Banked, Work
<1>3. ASSUME Keeps(e, d, Polled \cup {"mmu"}) PROVE ~Executes(d, e) /\ e.retired = d.retired
  BY <1>1, <1>2, <1>3 DEF Keeps, Executes
<1>4. CASE Spent(d, e)
  <2>1. Keeps(e, d, Polled \cup {"mmu"})
    BY <1>4, SpentKeeps, KeepsWithin
  <2>2. e.status # "run"
    BY <1>1, <1>4 DEF Spent
  <2> QED
    BY <1>3, <2>1, <2>2
<1>5. CASE Stopped(d, e)
  <2>1. Keeps(e, d, Polled \cup {"mmu"})
    BY <1>5, KeepsWithin DEF Stopped
  <2>2. e.status # "run"
    BY <1>5 DEF Stopped, Kinds, Interrupts
  <2> QED
    BY <1>3, <2>1, <2>2
<1>6. CASE Faulted(e, x)
  <2>0. "run" \notin Kinds /\ "Halt" \notin Kinds /\ "Wait" \notin Kinds
    BY DEF Kinds, Interrupts
  <2>1. Keeps(x.core, d, {"mmu"}) /\ x.how \in Faults
    BY <1>6, <2>0, ExecuteOutcome DEF Faulted, Ran
  <2>2. Keeps(e, x.core, Polled)
    BY <1>6, FaultedKeeps
  <2>3. Keeps(e, d, Polled \cup {"mmu"})
    BY <2>1, <2>2 DEF Keeps
  <2>4. e.status = x.how
    <3>1. PICK a : a = R!Raise(x.core, x.how)
      OBVIOUS
    <3>2. Keeps(a, x.core, Raised)
      BY <3>1, RaiseKeeps
    <3>3. "status" \in DOMAIN a
      BY <1>1, <2>1, <3>2 DEF Keeps
    <3>4. e = [a EXCEPT !.status = x.how]
      BY <1>6, <3>1 DEF Faulted
    <3> QED
      BY <3>3, <3>4
  <2> QED
    BY <1>3, <2>0, <2>1, <2>3, <2>4 DEF Faults
<1>7. CASE ~(d.retired >= Budget) /\ Completed(e, x, w)
  <2>1. x.how \in Ran /\ Keeps(x.core, d, Work(w.op))
    BY <1>7, ExecuteOutcome DEF Completed, Faults
  <2>2. IsCore(x.core)
    BY <2>1, CoreKept
  <2>3. e.retired = x.core.retired + 1
    BY <1>7, <2>2, CompletedKeeps
  <2>4. x.core.retired = d.retired
    BY <1>1, <1>2, <2>1 DEF Keeps
  <2> QED
    BY <1>7, <2>1, <2>2, <2>3, <2>4 DEF Executes
<1> QED
  BY <1>4, <1>5, <1>6, <1>7, StepCases

-----------------------------------------------------------------------------
(* The monitor. *)

MonitorInv(d, bytes) ==
  /\ d.excl \in [valid : BOOLEAN, addr : Nat, size : Nat]
  /\ d.excl.valid <=> bytes # {}
  /\ d.excl.valid => Bytes(d.excl.addr, d.excl.size) = bytes

LEMMA MonitorKept ==
  ASSUME NEW d, NEW e, NEW F, NEW bytes, IsCore(d), MonitorInv(d, bytes), Keeps(e, d, F),
         "excl" \notin F
  PROVE  MonitorInv(e, bytes)
<1>1. e.excl = d.excl
  BY DEF Keeps, IsCore, Fields
<1> QED
  BY <1>1, Zenon DEF MonitorInv

(* Two byte ranges overlap when the comparisons of clear_on_store say so.  *)
LEMMA OverlapIsCommonByte ==
  ASSUME NEW a \in Nat, NEW s \in Nat, NEW b \in Nat, NEW u \in Nat, s > 0, u > 0
  PROVE  (a < b + u /\ b < a + s) <=> Bytes(b, u) \cap Bytes(a, s) # {}
<1>1. ASSUME a < b + u, b < a + s PROVE Bytes(b, u) \cap Bytes(a, s) # {}
  <2>1. CASE a <= b
    <3>1. b \in Bytes(b, u) /\ b \in Bytes(a, s)
      BY <1>1, <2>1 DEF Bytes
    <3> QED
      BY <3>1
  <2>2. CASE b < a
    <3>1. a \in Bytes(b, u) /\ a \in Bytes(a, s)
      BY <1>1, <2>2 DEF Bytes
    <3> QED
      BY <3>1
  <2> QED
    BY <2>1, <2>2
<1>2. ASSUME NEW y \in Bytes(b, u) \cap Bytes(a, s) PROVE a < b + u /\ b < a + s
  <2>1. y \in b..(b + u - 1) /\ y \in a..(a + s - 1)
    BY DEF Bytes
  <2> QED
    BY <2>1
<1> QED
  BY <1>1, <1>2

LEMMA ClearExact ==
  ASSUME NEW d, IsCore(d), NEW bytes, MonitorInv(d, bytes),
         NEW addr \in Nat, NEW size \in Nat, size > 0, NEW left,
         left = IF Bytes(addr, size) \cap bytes # {} THEN {} ELSE bytes
  PROVE  MonitorInv(R!ClearOnStore(d, addr, size), left)
<1>1. PICK m : m = d.excl
  OBVIOUS
<1>2. m \in [valid : BOOLEAN, addr : Nat, size : Nat]
  BY <1>1 DEF MonitorInv
<1>3. PICK v \in BOOLEAN : v <=> m.valid /\ ~R!Overlaps(m, addr, size)
  OBVIOUS
<1>4. v = (m.valid /\ ~R!Overlaps(m, addr, size))
  BY <1>2, <1>3
<1>5. R!ClearOnStore(d, addr, size) = [d EXCEPT !.excl = [m EXCEPT !.valid = v]]
  BY <1>1, <1>4 DEF R!ClearOnStore
<1>6. PICK n : n = [m EXCEPT !.valid = v]
  OBVIOUS
<1>7. R!ClearOnStore(d, addr, size).excl = n
  BY <1>5, <1>6 DEF IsCore, Fields
<1>8. /\ n \in [valid : BOOLEAN, addr : Nat, size : Nat]
      /\ n.valid = v /\ n.addr = m.addr /\ n.size = m.size
  BY <1>2, <1>6
<1>9. CASE ~m.valid
  <2>1. bytes = {} /\ left = {} /\ ~v
    BY <1>1, <1>3, <1>9 DEF MonitorInv
  <2> QED
    BY <1>7, <1>8, <2>1 DEF MonitorInv
<1>10. CASE m.valid
  <2>1. bytes # {} /\ Bytes(m.addr, m.size) = bytes
    BY <1>1, <1>10 DEF MonitorInv
  <2>2. m.size > 0
    BY <1>2, <2>1 DEF Bytes
  <2>3. R!Overlaps(m, addr, size) <=> Bytes(addr, size) \cap bytes # {}
    <3>1. R!Overlaps(m, addr, size) <=> (m.addr < addr + size /\ addr < m.addr + m.size)
      BY DEF R!Overlaps
    <3> QED
      BY <1>2, <2>1, <2>2, <3>1, OverlapIsCommonByte
  <2>4. CASE Bytes(addr, size) \cap bytes # {}
    BY <1>3, <1>7, <1>8, <2>3, <2>4 DEF MonitorInv
  <2>5. CASE Bytes(addr, size) \cap bytes = {}
    BY <1>3, <1>7, <1>8, <1>10, <2>1, <2>3, <2>5 DEF MonitorInv
  <2> QED
    BY <2>4, <2>5
<1> QED
  BY <1>9, <1>10

\* What the instruction does to a reservation of bytes.
Reserved(d, w, bytes) ==
  IF w.op = "ldxr" THEN Bytes(R!Physical(d, w.a), w.b)
  ELSE IF w.op \in {"stxr", "clrex"} \/ StoredBytes(d, w) \cap bytes # {} THEN {}
  ELSE bytes

LEMMA PhysicalTyped ==
  ASSUME NEW d, NEW w \in Word
  PROVE  R!Physical(d, w.a) \in Nat /\ w.a \in Nat /\ w.b \in Nat
<1>1. w.a \in Nat /\ w.b \in Nat
  BY DEF Word
<1>2. w.a % RamBytes \in Nat
  BY <1>1, CpuPairAssumption
<1> QED
  BY <1>1, <1>2 DEF R!Physical

LEMMA LoadReserves ==
  ASSUME NEW d, IsCore(d), NEW bytes, MonitorInv(d, bytes), NEW w \in Word,
         w.op = "ldxr", NEW x, x = R!ExecuteOne(d, w), x.how \in Ran
  PROVE  /\ MonitorInv(x.core, Reserved(d, w, bytes))
         /\ Reserved(d, w, bytes) \subseteq 0..(RamBytes - 1)
<1>1. x = R!ExclusiveStep(d, w)
  BY DEF R!ExecuteOne, R!Exclusive, R!Privileged, R!Immediate, R!Device
<1>2. R!ExclusiveFault(d, w) = "none"
  <2>1. PICK f : f = R!ExclusiveFault(d, w)
    OBVIOUS
  <2>2. f # "none" => x.how = f /\ f \in {"AlignmentFault", "TranslationFault", "DataAbort"}
    BY <1>1, <2>1 DEF R!ExclusiveStep, R!Done, R!ExclusiveFault
  <2> QED
    BY <2>1, <2>2 DEF Ran
<1>3. PICK p \in Nat : p = R!Physical(d, w.a)
  BY PhysicalTyped
<1>4. PICK m : m = [valid |-> TRUE, addr |-> p, size |-> w.b]
  OBVIOUS
<1>5. PICK e : e = [d EXCEPT !.excl = m]
  OBVIOUS
<1>6. x.core.excl = m
  <2>1. x = R!Next4(e)
    BY <1>1, <1>2, <1>3, <1>4, <1>5 DEF R!ExclusiveStep
  <2>2. e.excl = m /\ "excl" \in DOMAIN e
    BY <1>5 DEF IsCore, Fields
  <2> QED
    BY <2>1, <2>2, Next4Keeps DEF Keeps
<1>7. w.b \in Nat /\ w.b > 0
  BY DEF Word, Exclusive
<1>8. Reserved(d, w, bytes) = Bytes(p, w.b)
  BY <1>3 DEF Reserved
<1>9. Bytes(p, w.b) # {}
  <2>1. p \in Bytes(p, w.b)
    BY <1>7 DEF Bytes
  <2> QED
    BY <2>1
<1>10. /\ m \in [valid : BOOLEAN, addr : Nat, size : Nat]
       /\ m.valid = TRUE /\ m.addr = p /\ m.size = w.b
  BY <1>4, <1>7
<1>11. p + w.b <= RamBytes
  BY <1>2, <1>3 DEF R!ExclusiveFault, R!InRam
<1>12. Bytes(p, w.b) \subseteq 0..(RamBytes - 1)
  BY <1>7, <1>11, CpuPairAssumption DEF Bytes
<1> QED
  BY <1>6, <1>8, <1>9, <1>10, <1>12 DEF MonitorInv

LEMMA ReservationLost ==
  ASSUME NEW d, IsCore(d), NEW bytes, MonitorInv(d, bytes), NEW w \in Word,
         w.op \in {"stxr", "clrex"}, NEW x, x = R!ExecuteOne(d, w), x.how \in Ran
  PROVE  MonitorInv(x.core, {})
<1>0. PICK e : e = [d EXCEPT !.excl.valid = FALSE]
  OBVIOUS
<1>1. x = R!Next4(e)
  <2>1. CASE w.op = "clrex"
    BY <1>0, <2>1 DEF R!ExecuteOne, R!Exclusive, R!Privileged, R!Immediate, R!Device
  <2>2. CASE w.op = "stxr"
    <3>1. x = R!ExclusiveStep(d, w)
      BY <2>2 DEF R!ExecuteOne, R!Exclusive, R!Privileged, R!Immediate, R!Device
    <3>2. PICK f : f = R!ExclusiveFault(d, w)
      OBVIOUS
    <3>3. f # "none" => x.how = f /\ f \in {"AlignmentFault", "TranslationFault", "DataAbort"}
      BY <3>1, <3>2 DEF R!ExclusiveStep, R!Done, R!ExclusiveFault
    <3>4. f = "none"
      BY <3>3 DEF Ran
    <3> QED
      BY <1>0, <2>2, <3>1, <3>2, <3>4 DEF R!ExclusiveStep
  <2> QED
    BY <2>1, <2>2
<1>2. x.core.excl = [d.excl EXCEPT !.valid = FALSE]
  <2>1. PICK m : m = [d.excl EXCEPT !.valid = FALSE]
    OBVIOUS
  <2>2. e.excl = m /\ "excl" \in DOMAIN e
    BY <1>0, <2>1 DEF IsCore, Fields
  <2>3. x.core.excl = m
    BY <1>1, <2>2, Next4Keeps DEF Keeps
  <2> QED
    BY <2>1, <2>3
<1>3. d.excl \in [valid : BOOLEAN, addr : Nat, size : Nat]
  BY DEF MonitorInv
<1>4. /\ x.core.excl \in [valid : BOOLEAN, addr : Nat, size : Nat]
      /\ x.core.excl.valid = FALSE
  BY <1>2, <1>3
<1> QED
  BY <1>4 DEF MonitorInv

(* A single store and both elements of a pair clear what they hit.         *)
LEMMA StoreClears ==
  ASSUME NEW d, IsCore(d), NEW bytes, MonitorInv(d, bytes), NEW w \in Word,
         w.op \in {"str", "stp"}, NEW x, x = R!ExecuteOne(d, w), x.how \in Ran
  PROVE  MonitorInv(x.core, IF StoredBytes(d, w) \cap bytes # {} THEN {} ELSE bytes)
<1>1. w.b \in Nat /\ w.b > 0 /\ w.a \in Nat
  BY DEF Word
<1>2. CASE w.op = "str"
  <2>1. x = R!Store(d, w)
    BY <1>2 DEF R!ExecuteOne, R!Exclusive, R!Privileged, R!Immediate, R!Device
  <2>2. PICK f : f = R!StoreFault(d, w)
    OBVIOUS
  <2>3. f # "none" => x.how = f /\ f \in Kinds
    BY <2>1, <2>2 DEF R!Store, R!Done, R!StoreFault, Kinds
  <2>4. f = "none"
    BY <2>3 DEF Ran, Kinds, Interrupts
  <2>5. PICK p \in Nat : p = R!Physical(d, w.a)
    BY PhysicalTyped
  <2>6. PICK e : e = R!ClearOnStore(d, p, w.b)
    OBVIOUS
  <2>7. x = R!Next4(e)
    BY <2>1, <2>2, <2>4, <2>5, <2>6 DEF R!Store
  <2>8. StoredBytes(d, w) = Bytes(p, w.b)
    BY <1>2, <2>5 DEF StoredBytes
  <2>9. MonitorInv(e, IF Bytes(p, w.b) \cap bytes # {} THEN {} ELSE bytes)
    BY <1>1, <2>6, ClearExact
  <2>10. Keeps(x.core, e, {"pc"}) /\ IsCore(e)
    BY <2>6, <2>7, Next4Keeps, ClearKeeps, CoreKept
  <2> QED
    BY <2>8, <2>9, <2>10, MonitorKept
<1>3. CASE w.op = "stp"
  <2>1. x = R!StorePair(d, w)
    BY <1>3 DEF R!ExecuteOne, R!Exclusive, R!Privileged, R!Immediate, R!Device
  <2>2. PICK f : f = R!PairFault(d, w)
    OBVIOUS
  <2>3. f # "none" => x.how = f /\ f \in Kinds
    BY <2>1, <2>2 DEF R!StorePair, R!Done, R!PairFault, Kinds
  <2>4. f = "none"
    BY <2>3 DEF Ran, Kinds, Interrupts
  <2>5. PICK e : e = R!ClearOnStore(d, w.a, w.b)
    OBVIOUS
  <2>6. PICK h : h = R!ClearOnStore(e, w.a + w.b, w.b)
    OBVIOUS
  <2>7. x = R!Next4(h)
    BY <2>1, <2>2, <2>4, <2>5, <2>6 DEF R!StorePair, R!PairCleared
  <2>8. PICK mid : mid = IF Bytes(w.a, w.b) \cap bytes # {} THEN {} ELSE bytes
    OBVIOUS
  <2>9. MonitorInv(e, mid) /\ IsCore(e)
    BY <1>1, <2>5, <2>8, ClearExact, ClearKeeps, CoreKept
  <2>10. PICK left : left = IF Bytes(w.a + w.b, w.b) \cap mid # {} THEN {} ELSE mid
    OBVIOUS
  <2>11. MonitorInv(h, left) /\ IsCore(h)
    BY <1>1, <2>6, <2>9, <2>10, ClearExact, ClearKeeps, CoreKept
  <2>12. Bytes(w.a, 2 * w.b) = Bytes(w.a, w.b) \cup Bytes(w.a + w.b, w.b)
    BY <1>1 DEF Bytes
  <2>13. left = IF StoredBytes(d, w) \cap bytes # {} THEN {} ELSE bytes
    <3>1. StoredBytes(d, w) = Bytes(w.a, w.b) \cup Bytes(w.a + w.b, w.b)
      BY <1>3, <2>12 DEF StoredBytes
    <3> QED
      BY <2>8, <2>10, <3>1
  <2>14. Keeps(x.core, h, {"pc"})
    BY <2>7, Next4Keeps
  <2> QED
    BY <2>11, <2>13, <2>14, MonitorKept
<1> QED
  BY <1>2, <1>3

LEMMA ExecuteMonitor ==
  ASSUME NEW d, IsCore(d), NEW bytes, MonitorInv(d, bytes), bytes \subseteq 0..(RamBytes - 1),
         NEW w \in Word, NEW x, x = R!ExecuteOne(d, w), x.how \in Ran
  PROVE  /\ MonitorInv(x.core, Reserved(d, w, bytes))
         /\ Reserved(d, w, bytes) \subseteq 0..(RamBytes - 1)
<1>1. CASE w.op = "ldxr"
  BY <1>1, LoadReserves
<1>2. CASE w.op \in {"stxr", "clrex"}
  BY <1>2, ReservationLost DEF Reserved
<1>3. CASE w.op \in {"str", "stp"}
  BY <1>3, StoreClears DEF Reserved
<1>4. CASE w.op \notin MemoryWords
  <2>1. StoredBytes(d, w) = {}
    BY <1>4 DEF StoredBytes, MemoryWords
  <2>2. Reserved(d, w, bytes) = bytes
    BY <1>4, <2>1 DEF Reserved, MemoryWords
  <2>3. x.core.excl = d.excl
    <3>0. "excl" \in DOMAIN d /\ "run" \notin Kinds /\ "Halt" \notin Kinds /\ "Wait" \notin Kinds
      BY DEF IsCore, Fields, Kinds, Interrupts
    <3>1. CASE w.op \in OtherWords
      BY <3>0, <3>1, ExecuteCases DEF Outcome, Keeps, Ran
    <3>2. CASE w.op \in DeviceWords
      BY <3>0, <3>2, ExecuteCases, MmioOutcome DEF Outcome, Keeps, Ran
    <3>3. CASE w.op \notin OtherWords \cup MemoryWords \cup DeviceWords
      <4>1. x = R!Sysreg(d, w)
        BY <3>3, ExecuteCases
      <4>2. PICK e : e = R!Written(d, w)
        OBVIOUS
      <4>3. e.excl = d.excl /\ "excl" \in DOMAIN e
        BY <3>0, <4>2, WrittenKeeps, TargetRange DEF Keeps
      <4>4. R!SyncMmu(e).excl = d.excl /\ "excl" \in DOMAIN R!SyncMmu(e)
        BY <4>3, SyncKeeps DEF Keeps
      <4>5. x = R!Next4(e) \/ x = R!Next4(R!SyncMmu(e))
        BY <3>0, <4>1, <4>2, SysregCases DEF Ran, Faults
      <4> QED
        BY <4>3, <4>4, <4>5, Next4Keeps DEF Keeps
    <3> QED
      BY <1>4, <3>1, <3>2, <3>3
  <2> QED
    BY <2>2, <2>3, Zenon DEF MonitorInv
<1> QED
  BY <1>1, <1>2, <1>3, <1>4 DEF MemoryWords

LEMMA StepMonitor ==
  ASSUME NEW d, IsCore(d), d.retired \in Nat, d.status = "run", NEW w \in Word,
         NEW e, e = R!Step(d, w),
         MonitorInv(d, ideal), ideal \subseteq 0..(RamBytes - 1)
  PROVE  /\ MonitorInv(e, NextIdeal(d, e, w))
         /\ NextIdeal(d, e, w) \subseteq 0..(RamBytes - 1)
<1>1. PICK x : x = R!ExecuteOne(d, w)
  OBVIOUS
<1>2. CASE ~Executes(d, e) /\ Keeps(e, d, Polled \cup {"mmu"})
  <2>1. "excl" \notin Polled \cup {"mmu"}
    BY DEF Polled, Taken, Raised, Banked
  <2>2. NextIdeal(d, e, w) = ideal
    BY <1>2 DEF NextIdeal
  <2> QED
    BY <1>2, <2>1, <2>2, MonitorKept
<1>3. CASE Executes(d, e) /\ x.how \in Ran /\ IsCore(x.core) /\ Completed(e, x, w)
  <2>1. PICK now : now = Reserved(d, w, ideal)
    OBVIOUS
  <2>2. NextIdeal(d, e, w) = now
    BY <1>3, <2>1 DEF NextIdeal, Reserved
  <2>3. MonitorInv(x.core, now) /\ now \subseteq 0..(RamBytes - 1)
    BY <1>1, <1>3, <2>1, ExecuteMonitor
  <2>4. Keeps(e, x.core, Retired \cup {"status"})
    BY <1>3, CompletedKeeps
  <2>5. "excl" \notin Retired \cup {"status"}
    BY DEF Retired
  <2> QED
    BY <1>3, <2>2, <2>3, <2>4, <2>5, MonitorKept
<1> QED
  BY <1>1, <1>2, <1>3, StepOutcome

-----------------------------------------------------------------------------
(* The caller's operations. *)

Restarted == {"irq", "fiq", "status", "retired", "pc", "pend", "target", "lower", "vector",
              "waiting"}

Again(d, irq, fiq) == R!Rerun([d EXCEPT !.irq = irq, !.fiq = fiq])

LEMMA RerunKeeps ==
  ASSUME NEW d, IsCore(d), NEW irq, NEW fiq, NEW e, e = Again(d, irq, fiq)
  PROVE  /\ Keeps(e, d, Restarted)
         /\ e.retired = 0 \/ (e.status = "Input" /\ e.retired = d.retired)
<1>1. PICK a : a = [d EXCEPT !.irq = irq, !.fiq = fiq]
  OBVIOUS
<1>2. Keeps(a, d, {"irq", "fiq"}) /\ a.retired = d.retired /\ IsCore(a)
  BY <1>1 DEF Keeps, IsCore, Fields
<1>3. PICK b : b = [a EXCEPT !.status = "Input"]
  OBVIOUS
<1>4. Keeps(b, a, Restarted) /\ b.retired = a.retired /\ b.status = "Input"
  BY <1>2, <1>3 DEF Keeps, Restarted, IsCore, Fields
<1>5. PICK f : f = [a EXCEPT !.retired = 0, !.pc = 0, !.pend = "none", !.target = 0,
                             !.lower = FALSE, !.vector = 0, !.waiting = FALSE, !.status = "run"]
  OBVIOUS
<1>6. Keeps(f, a, Restarted) /\ f.retired = 0
  BY <1>2, <1>5 DEF Keeps, Restarted, IsCore, Fields
<1>7. e \in {b, f}
  BY <1>1, <1>3, <1>5 DEF R!Rerun, Again
<1>8. Keeps(a, d, Restarted)
  BY <1>2, KeepsWithin DEF Restarted
<1> QED
  BY <1>2, <1>4, <1>6, <1>7, <1>8, KeepsAfter

LEMMA BootKeeps ==
  ASSUME NEW el, NEW bus, NEW b, NEW d, d = R!Reset(el, bus), NEW e, e = Booted(d, b)
  PROVE  /\ IsCore(d)
         /\ Keeps(e, d, {"ps", "prof", "irq", "fiq", "spEl", "sp", "vbar"})
<1>1. IsCore(d)
  BY DEF R!Reset, IsCore, Fields
<1>2. Keeps(e, d, {"ps", "prof", "irq", "fiq", "spEl", "sp", "vbar"})
  BY DEF Booted, Keeps
<1> QED
  BY <1>1, <1>2

-----------------------------------------------------------------------------
(* The walker and the monitor, of the specification. *)

MonitorOf(d, bytes) == MonitorInv(d, bytes) /\ bytes \subseteq 0..(RamBytes - 1)

CoreInv ==
  /\ fam \in DOMAIN Families
  /\ r.retired \in Nat
  /\ MmuInv(r)
  /\ MonitorOf(r, ideal)

LEMMA InitCore == Init => CoreInv
<1> SUFFICES ASSUME Init PROVE CoreInv
  OBVIOUS
<1>1. PICK b \in Families[fam].boots : r = Booted(R!Reset(b.el, b.bus), b)
  BY DEF Init
<1>2. PICK d : d = R!Reset(b.el, b.bus)
  OBVIOUS
<1>3. IsCore(d) /\ Keeps(r, d, {"ps", "prof", "irq", "fiq", "spEl", "sp", "vbar"})
  BY <1>1, <1>2, BootKeeps
<1>4. /\ d.retired = 0 /\ d.m = FALSE /\ d.ttbr = 0 /\ d.tcr = 0
      /\ d.mmu = [on |-> FALSE, ttbr |-> 0, tcr |-> 0]
      /\ d.excl = [valid |-> FALSE, addr |-> 0, size |-> 0]
  BY <1>2 DEF R!Reset
<1>5. MmuInv(d)
  <2>1. d.mmu \in [on : BOOLEAN, ttbr : Nat, tcr : Nat] /\ d.mmu.on = FALSE
    BY <1>4
  <2>2. ~d.m /\ ~d.mmu.on /\ d.m \in BOOLEAN
    BY <1>4, <2>1
  <2>3. d.ttbr \in Nat /\ d.tcr \in Nat
    BY <1>4
  <2> QED
    BY <1>3, <2>1, <2>2, <2>3, Zenon DEF MmuInv
<1>6. MonitorInv(d, {})
  BY <1>4 DEF MonitorInv
<1>7. r.retired = 0
  BY <1>3, <1>4 DEF Keeps, IsCore, Fields
<1>8. fam \in DOMAIN Families /\ ideal = {}
  BY DEF Init
<1>9. MmuInv(r) /\ MonitorInv(r, ideal)
  BY <1>3, <1>5, <1>6, <1>8, MmuKept, MonitorKept
<1> QED
  BY <1>7, <1>8, <1>9 DEF CoreInv, MonitorOf

LEMMA NextCore == CoreInv /\ [Next]_vars => CoreInv'
<1> SUFFICES ASSUME CoreInv, [Next]_vars PROVE CoreInv'
  OBVIOUS
<1>0. IsCore(r) /\ MmuInv(r) /\ MonitorInv(r, ideal) /\ r.retired \in Nat
  BY DEF CoreInv, MmuInv, MonitorOf
<1>1. ASSUME NEW w \in Families[fam].words, Step(w) PROVE CoreInv'
  <2>1. w \in Word
    BY CpuPairAssumption DEF CoreInv
  <2>2. r.status = "run" /\ r' = R!Step(r, w) /\ ideal' = NextIdeal(r, r', w) /\ fam' = fam
    BY <1>1 DEF Step
  <2>3. MmuInv(r')
    BY <1>0, <2>1, <2>2, StepMmu
  <2>4. MonitorOf(r', ideal')
    BY <1>0, <2>1, <2>2, StepMonitor DEF CoreInv, MonitorOf
  <2>5. r'.retired \in Nat
    BY <1>0, <2>2, StepOutcome DEF Executes
  <2> QED
    BY <2>2, <2>3, <2>4, <2>5 DEF CoreInv
<1>2. ASSUME TakePending PROVE CoreInv'
  <2>1. r' = R!Take(r) /\ ideal' = ideal /\ fam' = fam
    BY <1>2 DEF TakePending
  <2>2. Keeps(r', r, Taken)
    BY <2>1, TakeKeeps
  <2>3. /\ "m" \notin Taken /\ "ttbr" \notin Taken /\ "tcr" \notin Taken /\ "mmu" \notin Taken
        /\ "excl" \notin Taken /\ "retired" \notin Taken
    BY DEF Taken, Raised, Banked
  <2>4. r'.retired = r.retired
    BY <1>0, <2>2, <2>3 DEF Keeps, IsCore, Fields
  <2>5. MmuInv(r') /\ MonitorInv(r', ideal')
    BY <1>0, <2>1, <2>2, <2>3, MmuKept, MonitorKept
  <2> QED
    BY <2>1, <2>4, <2>5 DEF CoreInv, MonitorOf
<1>3. ASSUME NEW l \in Families[fam].lines, RunAgain(l[1], l[2]) PROVE CoreInv'
  <2>1. r' = Again(r, l[1], l[2]) /\ ideal' = ideal /\ fam' = fam
    BY <1>3 DEF RunAgain, Again
  <2>2. Keeps(r', r, Restarted) /\ (r'.retired = 0 \/ r'.retired = r.retired)
    BY <1>0, <2>1, RerunKeeps
  <2>3. /\ "m" \notin Restarted /\ "ttbr" \notin Restarted /\ "tcr" \notin Restarted
        /\ "mmu" \notin Restarted /\ "excl" \notin Restarted
    BY DEF Restarted
  <2>4. MmuInv(r') /\ MonitorInv(r', ideal')
    BY <1>0, <2>1, <2>2, <2>3, MmuKept, MonitorKept
  <2> QED
    BY <1>0, <2>1, <2>2, <2>4 DEF CoreInv, MonitorOf
<1>4. ASSUME NEW on \in BOOLEAN, SetSource(on) PROVE CoreInv'
  <2>1. r' = [r EXCEPT !.g.aicO = on] /\ ideal' = ideal /\ fam' = fam
    BY <1>4 DEF SetSource
  <2>2. Keeps(r', r, {"g"})
    BY <2>1 DEF Keeps
  <2>3. r'.retired = r.retired
    BY <1>0, <2>2 DEF Keeps, IsCore, Fields
  <2>4. MmuInv(r') /\ MonitorInv(r', ideal')
    BY <1>0, <2>1, <2>2, MmuKept, MonitorKept
  <2> QED
    BY <1>0, <2>1, <2>3, <2>4 DEF CoreInv, MonitorOf
<1>5. ASSUME UNCHANGED vars PROVE CoreInv'
  <2>1. r' = r /\ ideal' = ideal /\ fam' = fam
    BY <1>5 DEF vars
  <2> QED
    BY <2>1, Zenon DEF CoreInv
<1> QED
  BY <1>1, <1>2, <1>3, <1>4, <1>5 DEF Next, Ended

(* The walker is on exactly when the guest has set SCTLR.M, with the       *)
(* tables the guest reads back, whatever write it has refused (arch.rs,    *)
(* sync_mmu and its undo).                                                 *)
THEOREM WalkerFollowsRegisters == Spec => []MmuFollowsRegisters
<1>1. CoreInv => MmuFollowsRegisters
  <2> SUFFICES ASSUME CoreInv PROVE MmuFollowsRegisters
    OBVIOUS
  <2>1. /\ r.m \in BOOLEAN /\ r.mmu.on \in BOOLEAN /\ (r.mmu.on <=> r.m)
        /\ r.m => r.mmu.ttbr = r.ttbr /\ r.mmu.tcr = r.tcr
    BY DEF CoreInv, MmuInv
  <2>2. r.mmu.on = r.m
    <3>1. CASE r.m = TRUE
      BY <2>1, <3>1
    <3>2. CASE r.m = FALSE
      BY <2>1, <3>2
    <3> QED
      BY <2>1, <3>1, <3>2
  <2> QED
    BY <2>1, <2>2, Zenon DEF MmuFollowsRegisters
<1> QED
  BY <1>1, InitCore, NextCore, PTL DEF Spec

(* A reservation lives exactly as long as no retired store, through        *)
(* whatever alias, width or pair, has written one of its bytes             *)
(* (arch.rs, ExclusiveMonitor).                                            *)
THEOREM ReservationIsExact == Spec => []MonitorExact
<1>1. CoreInv => MonitorExact
  BY DEF CoreInv, MonitorOf, MonitorInv, MonitorExact
<1> QED
  BY <1>1, InitCore, NextCore, PTL DEF Spec

-----------------------------------------------------------------------------
(* The timers and the machine graph. *)

TimerRec == [en : BOOLEAN, im : BOOLEAN, is : BOOLEAN, cval : Nat]
GraphRec == [cnt : Nat, cmp : Nat, en : BOOLEAN, im : BOOLEAN, aicT : BOOLEAN, aicO : BOOLEAN]
AskedRec == [en : BOOLEAN, im : BOOLEAN, cval : Nat]

Timed(d) ==
  /\ IsCore(d)
  /\ d.cnt \in Nat
  /\ d.tim \in [Timer -> TimerRec]
  /\ d.g \in GraphRec
  /\ d.ext \in BOOLEAN
  /\ d.bus \in {"ram", "m1"}

\* The program q is that of the processor's timer p, of the device g.
OfTimer(q, p) == q.en = p.en /\ q.im = p.im /\ q.cval = p.cval
OfDevice(q, g) == q.en = g.en /\ q.im = g.im /\ q.cval = g.cmp

Mirrored(d) ==
  /\ d.g.cnt = d.cnt /\ d.g.cmp = d.tim["P"].cval
  /\ d.g.en = d.tim["P"].en /\ d.g.im = d.tim["P"].im
  /\ d.g.aicT <=> R!Pending(d, "P")

\* A source that is up while the guest runs has been routed.
RoutedUp(d) == d.bus = "m1" /\ d.status = "run" /\ d.retired > 0 /\ d.g.aicO => d.ext

GraphInv(d, q) ==
  /\ Timed(d) /\ q \in AskedRec /\ OfTimer(q, d.tim["P"])
  /\ d.bus = "m1" => Mirrored(d)

LEMMA TimedKept ==
  ASSUME NEW d, NEW e, NEW F, Timed(d), Keeps(e, d, F), e.ext \in BOOLEAN,
         "cnt" \notin F, "tim" \notin F, "g" \notin F, "bus" \notin F
  PROVE  /\ Timed(e) /\ e.cnt = d.cnt /\ e.tim = d.tim /\ e.g = d.g /\ e.bus = d.bus
         /\ \A q : GraphInv(d, q) => GraphInv(e, q)
<1>1. e.cnt = d.cnt /\ e.tim = d.tim /\ e.g = d.g /\ e.bus = d.bus
  BY DEF Timed, Keeps, IsCore, Fields
<1>2. IsCore(e)
  BY CoreKept DEF Timed
<1>3. Timed(e)
  BY <1>1, <1>2 DEF Timed
<1>4. Mirrored(d) => Mirrored(e)
  BY <1>1, Zenon DEF Mirrored, R!Pending
<1> QED
  BY <1>1, <1>3, <1>4, Zenon DEF GraphInv

LEMMA PendingTyped ==
  ASSUME NEW d, d.cnt \in Nat, d.tim \in [Timer -> TimerRec], NEW t \in Timer
  PROVE  /\ R!Pending(d, t) \in BOOLEAN
         /\ d.tim[t] \in TimerRec
BY DEF R!Pending, TimerRec

(* The counter advances; what is programmed stays.                         *)
LEMMA AdvanceTimed ==
  ASSUME NEW d, Timed(d), NEW e, e = R!AdvanceCounter(d)
  PROVE  Timed(e) /\ \A q : OfTimer(q, e.tim["P"]) <=> OfTimer(q, d.tim["P"])
<1>1. PICK a : a = [d EXCEPT !.cnt = @ + 1]
  OBVIOUS
<1>2. a.cnt \in Nat /\ a.tim = d.tim /\ "tim" \in DOMAIN a /\ "cnt" \in DOMAIN a
  BY <1>1 DEF Timed, IsCore, Fields
<1>3. PICK T : T = [t \in Timer |-> [a.tim[t] EXCEPT !.is = R!Pending(a, t)]]
  OBVIOUS
<1>4. e = [a EXCEPT !.tim = T]
  BY <1>1, <1>3 DEF R!AdvanceCounter, R!Timer, Timer
<1>5. ASSUME NEW t \in Timer
      PROVE  /\ T[t] \in TimerRec
             /\ T[t].en = d.tim[t].en /\ T[t].im = d.tim[t].im /\ T[t].cval = d.tim[t].cval
  <2>1. PICK b \in BOOLEAN : b = R!Pending(a, t)
    BY <1>2, PendingTyped DEF Timed
  <2>2. T[t] = [d.tim[t] EXCEPT !.is = b]
    BY <1>2, <1>3, <2>1
  <2>3. d.tim[t] \in TimerRec
    BY DEF Timed
  <2> QED
    BY <2>2, <2>3 DEF TimerRec
<1>6. T \in [Timer -> TimerRec]
  BY <1>3, <1>5
<1>7. e.tim = T /\ e.cnt = a.cnt
  BY <1>2, <1>4
<1>8. Keeps(e, d, {"cnt", "tim"})
  BY AdvanceKeeps
<1>9. e.g = d.g /\ e.ext = d.ext /\ e.bus = d.bus
  BY <1>8 DEF Timed, Keeps, IsCore, Fields
<1>10. IsCore(e)
  BY <1>8, CoreKept DEF Timed
<1>11. Timed(e)
  BY <1>2, <1>6, <1>7, <1>9, <1>10 DEF Timed
<1>12. "P" \in Timer
  BY DEF Timer
<1> QED
  BY <1>5, <1>7, <1>11, <1>12 DEF OfTimer

(* The device's program is taken, then the mirror is written (m1.rs).      *)
LEMMA TakeProgramTimed ==
  ASSUME NEW d, Timed(d), NEW w, NEW q \in AskedRec,
         IF R!TimerDirty(w) THEN OfDevice(q, d.g) ELSE OfTimer(q, d.tim["P"]),
         NEW e, e = R!TakeProgram(d, w)
  PROVE  Timed(e) /\ OfTimer(q, e.tim["P"]) /\ Keeps(e, d, {"tim"})
<1>1. Keeps(e, d, {"tim"})
  BY DEF R!TakeProgram, Keeps
<1>2. CASE ~R!TimerDirty(w)
  <2>1. e = d
    BY <1>2 DEF R!TakeProgram
  <2> QED
    BY <1>1, <1>2, <2>1
<1>3. CASE R!TimerDirty(w)
  <2>1. PICK p : p = [en |-> d.g.en, im |-> d.g.im, is |-> FALSE, cval |-> d.g.cmp]
    OBVIOUS
  <2>2. p \in TimerRec /\ p.en = d.g.en /\ p.im = d.g.im /\ p.cval = d.g.cmp
    BY <2>1 DEF Timed, GraphRec, TimerRec
  <2>3. e = [d EXCEPT !.tim["P"] = p]
    BY <1>3, <2>1 DEF R!TakeProgram
  <2>4. PICK T : T = [d.tim EXCEPT !["P"] = p]
    OBVIOUS
  <2>5. e.tim = T
    BY <2>3, <2>4 DEF Timed, IsCore, Fields
  <2>6. T \in [Timer -> TimerRec] /\ T["P"] = p
    BY <2>2, <2>4 DEF Timed, Timer
  <2>7. e.g = d.g /\ e.ext = d.ext /\ e.bus = d.bus /\ e.cnt = d.cnt
    BY <1>1 DEF Timed, Keeps, IsCore, Fields
  <2>8. IsCore(e)
    BY <1>1, CoreKept DEF Timed
  <2>9. OfTimer(q, e.tim["P"])
    BY <1>3, <2>2, <2>5, <2>6 DEF OfDevice, OfTimer
  <2> QED
    BY <1>1, <2>5, <2>6, <2>7, <2>8, <2>9 DEF Timed
<1> QED
  BY <1>2, <1>3

LEMMA SyncTimed ==
  ASSUME NEW d, Timed(d), NEW e, e = R!SyncGuestTimer(d)
  PROVE  Timed(e) /\ Mirrored(e) /\ Keeps(e, d, {"g"}) /\ e.tim = d.tim
<1>1. PICK p : p = d.tim["P"]
  OBVIOUS
<1>2. p \in TimerRec
  BY <1>1 DEF Timed, Timer
<1>3. PICK a : a = [d.g EXCEPT !.cnt = d.cnt, !.cmp = p.cval, !.en = p.en, !.im = p.im]
  OBVIOUS
<1>4. /\ a \in GraphRec /\ a.cnt = d.cnt /\ a.cmp = p.cval /\ a.en = p.en /\ a.im = p.im
  BY <1>2, <1>3 DEF Timed, GraphRec, TimerRec
<1>5. PICK b \in BOOLEAN : b = R!GraphPending(a)
  BY <1>4 DEF R!GraphPending, GraphRec
<1>6. PICK f : f = [a EXCEPT !.aicT = b]
  OBVIOUS
<1>7. /\ f \in GraphRec /\ f.cnt = d.cnt /\ f.cmp = p.cval /\ f.en = p.en /\ f.im = p.im
      /\ f.aicT = b
  BY <1>4, <1>6 DEF GraphRec
<1>8. e = [d EXCEPT !.g = f]
  BY <1>1, <1>3, <1>5, <1>6, Zenon DEF R!SyncGuestTimer
<1>9. Keeps(e, d, {"g"}) /\ e.g = f
  BY <1>8 DEF Keeps, Timed, IsCore, Fields
<1>10. e.tim = d.tim /\ e.ext = d.ext /\ e.bus = d.bus /\ e.cnt = d.cnt
  BY <1>9 DEF Timed, Keeps, IsCore, Fields
<1>11. Timed(e)
  BY <1>7, <1>9, <1>10, CoreKept DEF Timed
<1>12. b <=> R!Pending(e, "P")
  BY <1>1, <1>4, <1>5, <1>10 DEF R!GraphPending, R!Pending
<1> QED
  BY <1>1, <1>7, <1>9, <1>10, <1>11, <1>12 DEF Mirrored

LEMMA RouteTimed ==
  ASSUME NEW d, Timed(d), NEW e, e = R!RouteExternal(d)
  PROVE  Timed(e) /\ Keeps(e, d, {"ext"}) /\ (e.g.aicO => e.ext)
<1>1. PICK b \in BOOLEAN : b = (d.ext \/ d.g.aicO)
  OBVIOUS
<1>2. e = [d EXCEPT !.ext = b]
  BY <1>1 DEF R!RouteExternal
<1>3. Keeps(e, d, {"ext"}) /\ e.ext = b
  BY <1>2 DEF Keeps, Timed, IsCore, Fields
<1>4. Timed(e) /\ e.g = d.g
  BY <1>3, TimedKept
<1> QED
  BY <1>1, <1>3, <1>4

(* What the end of an instruction leaves.                                  *)
LEMMA RetireGraph ==
  ASSUME NEW d, Timed(d), NEW w, NEW q \in AskedRec,
         IF R!TimerDirty(w) THEN d.bus = "m1" /\ OfDevice(q, d.g) ELSE OfTimer(q, d.tim["P"]),
         NEW e, e = R!Retire(d, w)
  PROVE  GraphInv(e, q) /\ (e.bus = "m1" /\ e.g.aicO => e.ext)
<1>1. PICK a : a = [d EXCEPT !.retired = @ + 1]
  OBVIOUS
<1>2. Keeps(a, d, {"retired"}) /\ a.ext = d.ext
  BY <1>1 DEF Keeps, Timed, IsCore, Fields
<1>3. Timed(a) /\ a.tim = d.tim /\ a.g = d.g /\ a.bus = d.bus
  BY <1>2, TimedKept DEF Timed
<1>4. PICK b : b = R!AdvanceCounter(a)
  OBVIOUS
<1>5. Timed(b) /\ (OfTimer(q, b.tim["P"]) <=> OfTimer(q, d.tim["P"]))
  BY <1>3, <1>4, AdvanceTimed
<1>6. b.g = d.g /\ b.bus = d.bus
  BY <1>3, <1>4, AdvanceKeeps DEF Keeps, Timed, IsCore, Fields
<1>7. e = R!AfterInstruction(b, w)
  BY <1>1, <1>4 DEF R!Retire
<1>8. CASE d.bus = "ram"
  <2>1. e = b
    BY <1>6, <1>7, <1>8 DEF R!AfterInstruction
  <2>2. OfTimer(q, e.tim["P"])
    BY <1>5, <1>8, <2>1
  <2> QED
    BY <1>5, <1>6, <1>8, <2>1, <2>2 DEF GraphInv
<1>9. CASE d.bus = "m1"
  <2>1. PICK f : f = R!TakeProgram(b, w)
    OBVIOUS
  <2>2. Timed(f) /\ OfTimer(q, f.tim["P"])
    BY <1>5, <1>6, <2>1, TakeProgramTimed
  <2>3. PICK h : h = R!SyncGuestTimer(f)
    OBVIOUS
  <2>4. Timed(h) /\ Mirrored(h) /\ h.tim = f.tim
    BY <2>2, <2>3, SyncTimed
  <2>5. e = R!RouteExternal(h)
    BY <1>6, <1>7, <1>9, <2>1, <2>3 DEF R!AfterInstruction
  <2>6. Timed(e) /\ Keeps(e, h, {"ext"}) /\ (e.g.aicO => e.ext)
    BY <2>4, <2>5, RouteTimed
  <2>7. e.ext \in BOOLEAN
    BY <2>6 DEF Timed
  <2>8. GraphInv(h, q)
    BY <2>2, <2>4 DEF GraphInv
  <2>9. GraphInv(e, q)
    BY <2>4, <2>6, <2>7, <2>8, TimedKept
  <2> QED
    BY <2>6, <2>9
<1> QED
  BY <1>8, <1>9 DEF Timed

-----------------------------------------------------------------------------
(* What an instruction programs. *)

\* The program after the instruction w executed on d.
Program(d, w, q) ==
  IF w.t # "P" THEN q
  ELSE IF w.op \in {"msr_ctl", "mmio_ctl"}
  THEN [q EXCEPT !.en = Ctl(w.a).en, !.im = Ctl(w.a).im]
  ELSE IF w.op \in {"msr_cval", "mmio_cmp"} THEN [q EXCEPT !.cval = w.a]
  ELSE IF w.op = "msr_tval" THEN [q EXCEPT !.cval = d.cnt + w.a]
  ELSE q

Programs(x, w, q) ==
  IF R!TimerDirty(w) THEN x.bus = "m1" /\ OfDevice(q, x.g) ELSE OfTimer(q, x.tim["P"])

LEMMA CtlTyped ==
  ASSUME NEW n \in Nat
  PROVE  \E en, im \in BOOLEAN : /\ Ctl(n).en = en /\ Ctl(n).im = im
                                 /\ R!Ctl(n).en = en /\ R!Ctl(n).im = im
<1>1. PICK en \in BOOLEAN : en = (n % 2 = 1)
  OBVIOUS
<1>2. PICK im \in BOOLEAN : im = (n \div 2 % 2 = 1)
  OBVIOUS
<1>3. Ctl(n) = [en |-> en, im |-> im] /\ R!Ctl(n) = [en |-> en, im |-> im]
  BY <1>1, <1>2 DEF Ctl, R!Ctl
<1> QED
  BY <1>3

LEMMA ProgramTimerTyped ==
  ASSUME NEW g \in GraphRec, NEW cmp \in Nat, NEW ctl,
         ctl.en \in BOOLEAN, ctl.im \in BOOLEAN, NEW f, f = R!ProgramTimer(g, cmp, ctl)
  PROVE  f \in GraphRec /\ f.cmp = cmp /\ f.en = ctl.en /\ f.im = ctl.im
<1>1. PICK a : a = [g EXCEPT !.cmp = cmp, !.en = ctl.en, !.im = ctl.im]
  OBVIOUS
<1>2. a \in GraphRec /\ a.cmp = cmp /\ a.en = ctl.en /\ a.im = ctl.im
  BY <1>1 DEF GraphRec
<1>3. PICK b \in BOOLEAN : b = (a.aicT /\ R!GraphPending(a))
  OBVIOUS
<1>4. f = [a EXCEPT !.aicT = b]
  BY <1>1, <1>3 DEF R!ProgramTimer
<1> QED
  BY <1>2, <1>4 DEF GraphRec

SetTimer(d, t, p) == [d EXCEPT !.tim = [d.tim EXCEPT ![t] = p]]

LEMMA TimerSet ==
  ASSUME NEW d, Timed(d), NEW t \in Timer, NEW p \in TimerRec, NEW e,
         e = SetTimer(d, t, p)
  PROVE  Timed(e) /\ e.tim[t] = p /\ (t # "P" => e.tim["P"] = d.tim["P"])
<1>1. PICK T : T = [d.tim EXCEPT ![t] = p]
  OBVIOUS
<1>2. T \in [Timer -> TimerRec] /\ T[t] = p /\ (t # "P" => T["P"] = d.tim["P"])
  BY <1>1 DEF Timed, Timer
<1>3. e = [d EXCEPT !.tim = T]
  BY <1>1 DEF SetTimer
<1>4. e.tim = T /\ e.g = d.g /\ e.ext = d.ext /\ e.bus = d.bus /\ e.cnt = d.cnt /\ IsCore(e)
  BY <1>3 DEF Timed, IsCore, Fields
<1> QED
  BY <1>2, <1>4 DEF Timed

LEMMA WriteCtlTimed ==
  ASSUME NEW d, Timed(d), NEW t \in Timer, NEW n \in Nat, NEW e, e = R!WriteCtl(d, t, n)
  PROVE  /\ Timed(e) /\ (t # "P" => e.tim["P"] = d.tim["P"])
         /\ e.tim[t].en = Ctl(n).en /\ e.tim[t].im = Ctl(n).im
         /\ e.tim[t].cval = d.tim[t].cval
<1>1. PICK en, im \in BOOLEAN : /\ Ctl(n).en = en /\ Ctl(n).im = im
                                /\ R!Ctl(n).en = en /\ R!Ctl(n).im = im
  BY CtlTyped
<1>2. d.tim[t] \in TimerRec /\ "tim" \in DOMAIN d /\ t \in DOMAIN d.tim
  BY DEF Timed, IsCore, Fields
<1>3. PICK p : p = [d.tim[t] EXCEPT !.en = en, !.im = im]
  OBVIOUS
<1>4. p \in TimerRec /\ p.en = en /\ p.im = im /\ p.cval = d.tim[t].cval
  BY <1>2, <1>3 DEF TimerRec
<1>5. PICK a : a = SetTimer(d, t, p)
  OBVIOUS
<1>6. Timed(a) /\ a.tim[t] = p /\ (t # "P" => a.tim["P"] = d.tim["P"])
  BY <1>4, <1>5, TimerSet
<1>7. PICK b \in BOOLEAN : b = R!Pending(a, t)
  BY <1>6, PendingTyped DEF Timed
<1>8. PICK u : u = [p EXCEPT !.is = b]
  OBVIOUS
<1>9. u \in TimerRec /\ u.en = en /\ u.im = im /\ u.cval = p.cval
  BY <1>4, <1>8 DEF TimerRec
<1>10. PICK f : f = SetTimer(a, t, u)
  OBVIOUS
<1>11. Timed(f) /\ f.tim[t] = u /\ (t # "P" => f.tim["P"] = a.tim["P"])
  BY <1>6, <1>9, <1>10, TimerSet
<1>12. e = f
  <2>1. [d EXCEPT !.tim[t].en = R!Ctl(n).en, !.tim[t].im = R!Ctl(n).im] = a
    BY <1>1, <1>2, <1>3, <1>5 DEF SetTimer
  <2>2. e = [a EXCEPT !.tim[t].is = R!Pending(a, t)]
    BY <2>1 DEF R!WriteCtl
  <2> QED
    BY <1>6, <1>7, <1>8, <1>10, <2>2 DEF SetTimer
<1> QED
  BY <1>1, <1>4, <1>6, <1>9, <1>11, <1>12

(* A write of a system register programs the timer it names (arch.rs).     *)
LEMMA WrittenTimed ==
  ASSUME NEW d, NEW q, GraphInv(d, q), NEW w \in Word, w.op \notin DeviceWords,
         NEW e, e = R!Written(d, w)
  PROVE  Timed(e) /\ Program(d, w, q) \in AskedRec /\ OfTimer(Program(d, w, q), e.tim["P"])
<1>1. /\ Timed(d) /\ q \in AskedRec /\ OfTimer(q, d.tim["P"]) /\ d.cnt \in Nat
      /\ d.tim["P"] \in TimerRec
  BY DEF GraphInv, Timed, Timer
<1>2. w.a \in Nat /\ w.t \in Timer /\ d.tim[w.t] \in TimerRec
      /\ (w.op \notin {"msr_ctl", "msr_cval"} => w.t = "P")
  BY <1>1 DEF Word, Timed
<1>3. PICK s : s = Program(d, w, q)
  OBVIOUS
<1>4. CASE w.op = "msr_ctl"
  <2>1. e = R!WriteCtl(d, w.t, w.a)
    BY <1>4 DEF R!Written
  <2>2. /\ Timed(e) /\ (w.t # "P" => e.tim["P"] = d.tim["P"])
        /\ e.tim[w.t].en = Ctl(w.a).en /\ e.tim[w.t].im = Ctl(w.a).im
        /\ e.tim[w.t].cval = d.tim[w.t].cval
    BY <1>1, <1>2, <2>1, WriteCtlTimed
  <2>3. CASE w.t # "P"
    <3>1. s = q
      BY <1>3, <2>3 DEF Program
    <3> QED
      BY <1>1, <1>3, <2>2, <2>3, <3>1
  <2>4. CASE w.t = "P"
    <3>1. PICK en, im \in BOOLEAN : Ctl(w.a).en = en /\ Ctl(w.a).im = im
      BY <1>2, CtlTyped
    <3>2. s = [q EXCEPT !.en = en, !.im = im]
      BY <1>3, <1>4, <2>4, <3>1 DEF Program
    <3>3. s \in AskedRec /\ s.en = en /\ s.im = im /\ s.cval = q.cval
      BY <1>1, <3>2 DEF AskedRec
    <3> QED
      BY <1>1, <1>3, <2>2, <2>4, <3>1, <3>3 DEF OfTimer
  <2> QED
    BY <2>3, <2>4
<1>5. ASSUME NEW t \in Timer, NEW n \in Nat, e = [d EXCEPT !.tim[t].cval = n]
      PROVE  /\ Timed(e) /\ (t # "P" => e.tim["P"] = d.tim["P"])
             /\ e.tim[t].en = d.tim[t].en /\ e.tim[t].im = d.tim[t].im
             /\ e.tim[t].cval = n
  <2>1. PICK p : p = [d.tim[t] EXCEPT !.cval = n]
    OBVIOUS
  <2>2. p \in TimerRec /\ p.en = d.tim[t].en /\ p.im = d.tim[t].im /\ p.cval = n
    BY <1>1, <1>5, <2>1 DEF Timed, TimerRec
  <2>3. e = SetTimer(d, t, p)
    BY <1>1, <1>5, <2>1 DEF Timed, IsCore, Fields, SetTimer
  <2> QED
    BY <1>1, <2>2, <2>3, TimerSet
<1>6. CASE w.op = "msr_cval"
  <2>1. e = [d EXCEPT !.tim[w.t].cval = w.a]
    BY <1>6 DEF R!Written
  <2>2. s = IF w.t # "P" THEN q ELSE [q EXCEPT !.cval = w.a]
    BY <1>3, <1>6 DEF Program
  <2>3. s \in AskedRec /\ s.en = q.en /\ s.im = q.im
        /\ (w.t = "P" => s.cval = w.a) /\ (w.t # "P" => s.cval = q.cval)
    BY <1>1, <1>2, <2>2 DEF AskedRec
  <2> QED
    BY <1>1, <1>2, <1>3, <1>5, <2>1, <2>3 DEF OfTimer
<1>7. CASE w.op = "msr_tval"
  <2>1. PICK n \in Nat : n = d.cnt + w.a
    BY <1>1, <1>2
  <2>2. e = [d EXCEPT !.tim["P"].cval = n]
    BY <1>7, <2>1 DEF R!Written
  <2>3. s = [q EXCEPT !.cval = n]
    BY <1>2, <1>3, <1>7, <2>1 DEF Program
  <2>4. s \in AskedRec /\ s.en = q.en /\ s.im = q.im /\ s.cval = n
    BY <1>1, <2>3 DEF AskedRec
  <2>5. "P" \in Timer
    BY DEF Timer
  <2> QED
    BY <1>1, <1>3, <1>5, <2>2, <2>4, <2>5 DEF OfTimer
<1>8. CASE w.op \notin {"msr_ctl", "msr_cval", "msr_tval"}
  <2>1. s = q
    BY <1>3, <1>8 DEF Program, DeviceWords
  <2>2. Keeps(e, d, Target(w.op))
    BY WrittenKeeps
  <2>3. "tim" \notin Target(w.op) /\ "cnt" \notin Target(w.op) /\ "g" \notin Target(w.op)
        /\ "bus" \notin Target(w.op) /\ "ext" \notin Target(w.op)
    BY <1>8 DEF Target
  <2>4. e.ext \in BOOLEAN
    BY <1>1, <2>2, <2>3 DEF Keeps, Timed, IsCore, Fields
  <2>5. Timed(e) /\ e.tim = d.tim
    BY <1>1, <2>2, <2>3, <2>4, TimedKept
  <2> QED
    BY <1>1, <1>3, <2>1, <2>5
<1> QED
  BY <1>4, <1>6, <1>7, <1>8

(* A store to the device programs the device, with the mirror as the rest  *)
(* of the program (m1.rs).                                                 *)
LEMMA MmioTimed ==
  ASSUME NEW d, NEW q, GraphInv(d, q), NEW w \in Word, w.op \in DeviceWords,
         NEW x, x = R!Mmio(d, w), x.how \in Ran
  PROVE  Timed(x.core) /\ Program(d, w, q) \in AskedRec /\ Programs(x.core, w, Program(d, w, q))
<1>1. /\ Timed(d) /\ q \in AskedRec /\ OfTimer(q, d.tim["P"]) /\ d.g \in GraphRec
  BY DEF GraphInv, Timed
<1>2. w.a \in Nat /\ w.t = "P"
  BY DEF Word, DeviceWords
<1>3. R!MmioFault(d, w) = "none"
  <2>1. PICK f : f = R!MmioFault(d, w)
    OBVIOUS
  <2>2. f # "none" => x.how = f /\ f \in Kinds
    BY <2>1 DEF R!Mmio, R!Done, R!MmioFault, Kinds
  <2> QED
    BY <2>1, <2>2 DEF Ran, Kinds, Interrupts
<1>4. d.bus # "ram" /\ w.op # "mmio_cnt"
  BY <1>3 DEF R!MmioFault
<1>5. d.bus = "m1" /\ Mirrored(d)
  BY <1>1, <1>4 DEF GraphInv, Timed
<1>6. OfDevice(q, d.g)
  BY <1>1, <1>5 DEF OfDevice, OfTimer, Mirrored
<1>7. PICK e : e = R!MmioWritten(d, w)
  OBVIOUS
<1>8. x = R!Next4(e)
  BY <1>3, <1>7 DEF R!Mmio
<1>9. PICK s : s = Program(d, w, q)
  OBVIOUS
<1>10. ASSUME NEW f \in GraphRec, e = [d EXCEPT !.g = f]
       PROVE  /\ Timed(x.core) /\ x.core.g = f /\ x.core.bus = "m1" /\ x.core.tim = d.tim
  <2>1. /\ e.g = f /\ e.tim = d.tim /\ e.ext = d.ext /\ e.bus = d.bus /\ e.cnt = d.cnt
        /\ IsCore(e)
    BY <1>1, <1>10 DEF Timed, IsCore, Fields
  <2>2. Timed(e) /\ e.ext \in BOOLEAN
    BY <1>1, <1>10, <2>1 DEF Timed
  <2>3. Keeps(x.core, e, {"pc"})
    BY <1>8, Next4Keeps
  <2>4. x.core.ext \in BOOLEAN
    BY <2>2, <2>3 DEF Keeps, Timed, IsCore, Fields
  <2> QED
    BY <1>5, <2>1, <2>2, <2>3, <2>4, TimedKept
<1>11. CASE w.op = "mmio_cmp"
  <2>1. PICK ctl : ctl = [en |-> d.g.en, im |-> d.g.im]
    OBVIOUS
  <2>2. ctl.en = d.g.en /\ ctl.im = d.g.im /\ ctl.en \in BOOLEAN /\ ctl.im \in BOOLEAN
    BY <1>1, <2>1 DEF GraphRec
  <2>3. PICK f : f = R!ProgramTimer(d.g, w.a, ctl)
    OBVIOUS
  <2>4. f \in GraphRec /\ f.cmp = w.a /\ f.en = d.g.en /\ f.im = d.g.im
    BY <1>1, <1>2, <2>2, <2>3, ProgramTimerTyped
  <2>5. e = [d EXCEPT !.g = f]
    BY <1>7, <1>11, <2>1, <2>3 DEF R!MmioWritten
  <2>6. s = [q EXCEPT !.cval = w.a]
    BY <1>2, <1>9, <1>11 DEF Program
  <2>7. s \in AskedRec /\ s.en = q.en /\ s.im = q.im /\ s.cval = w.a
    BY <1>1, <1>2, <2>6 DEF AskedRec
  <2>8. R!TimerDirty(w)
    BY <1>11 DEF R!TimerDirty
  <2>9. Timed(x.core) /\ x.core.g = f /\ x.core.bus = "m1"
    BY <1>10, <2>4, <2>5
  <2> QED
    BY <1>6, <1>9, <2>4, <2>7, <2>8, <2>9 DEF Programs, OfDevice
<1>12. CASE w.op = "mmio_ctl"
  <2>1. PICK ctl : ctl = R!Ctl(w.a)
    OBVIOUS
  <2>2. PICK en, im \in BOOLEAN : Ctl(w.a).en = en /\ Ctl(w.a).im = im /\ ctl.en = en /\ ctl.im = im
    BY <1>2, <2>1, CtlTyped
  <2>3. PICK f : f = R!ProgramTimer(d.g, d.g.cmp, ctl)
    OBVIOUS
  <2>4. f \in GraphRec /\ f.cmp = d.g.cmp /\ f.en = en /\ f.im = im
    <3>1. d.g.cmp \in Nat
      BY <1>1 DEF GraphRec
    <3> QED
      BY <1>1, <2>2, <2>3, <3>1, ProgramTimerTyped
  <2>5. e = [d EXCEPT !.g = f]
    BY <1>7, <1>12, <2>1, <2>3 DEF R!MmioWritten
  <2>6. s = [q EXCEPT !.en = en, !.im = im]
    BY <1>2, <1>9, <1>12, <2>2 DEF Program
  <2>7. s \in AskedRec /\ s.en = en /\ s.im = im /\ s.cval = q.cval
    BY <1>1, <1>2, <2>6 DEF AskedRec
  <2>8. R!TimerDirty(w)
    BY <1>12 DEF R!TimerDirty
  <2>9. Timed(x.core) /\ x.core.g = f /\ x.core.bus = "m1"
    BY <1>10, <2>4, <2>5
  <2> QED
    BY <1>6, <1>9, <2>4, <2>7, <2>8, <2>9 DEF Programs, OfDevice
<1>13. CASE w.op = "mmio_show"
  <2>1. PICK f : f = [d.g EXCEPT !.aicO = TRUE]
    OBVIOUS
  <2>2. f \in GraphRec
    BY <1>1, <2>1 DEF GraphRec
  <2>3. e = [d EXCEPT !.g = f]
    BY <1>1, <1>7, <1>13, <2>1 DEF R!MmioWritten, Timed, IsCore, Fields
  <2>4. s = q
    BY <1>9, <1>13 DEF Program
  <2>5. ~R!TimerDirty(w)
    BY <1>13 DEF R!TimerDirty
  <2>6. Timed(x.core) /\ x.core.tim = d.tim
    BY <1>10, <2>2, <2>3
  <2> QED
    BY <1>1, <1>9, <2>4, <2>5, <2>6 DEF Programs
<1> QED
  BY <1>4, <1>11, <1>12, <1>13 DEF DeviceWords

LEMMA ExecuteTimed ==
  ASSUME NEW d, NEW q, GraphInv(d, q), NEW w \in Word,
         NEW x, x = R!ExecuteOne(d, w), x.how \in Ran
  PROVE  Timed(x.core) /\ Program(d, w, q) \in AskedRec /\ Programs(x.core, w, Program(d, w, q))
<1>1. Timed(d) /\ q \in AskedRec /\ OfTimer(q, d.tim["P"]) /\ IsCore(d) /\ d.ext \in BOOLEAN
  BY DEF GraphInv, Timed
<1>0. "run" \notin Kinds /\ "Halt" \notin Kinds /\ "Wait" \notin Kinds
  BY DEF Kinds, Interrupts
<1>2. CASE w.op \in DeviceWords
  BY <1>2, ExecuteCases, MmioTimed
<1>3. ASSUME w.op \notin DeviceWords PROVE ~R!TimerDirty(w)
  BY <1>3 DEF R!TimerDirty, DeviceWords
<1>4. CASE w.op \in OtherWords \cup MemoryWords
  <2>1. Keeps(x.core, d, {"pc", "sp", "spEl", "ps", "el", "waiting", "excl"})
    <3>1. CASE w.op \in OtherWords
      <4>1. Outcome(x, d, {"pc", "sp", "spEl", "ps", "el", "waiting"})
        BY <3>1, ExecuteCases
      <4> QED
        BY <1>0, <4>1, KeepsWithin DEF Outcome, Ran, Faults
    <3>2. CASE w.op \in MemoryWords
      <4>1. Outcome(x, d, {"pc", "excl"})
        BY <3>2, ExecuteCases
      <4> QED
        BY <1>0, <4>1, KeepsWithin DEF Outcome, Ran, Faults
    <3> QED
      BY <1>4, <3>1, <3>2
  <2>2. x.core.ext = d.ext
    BY <1>1, <2>1 DEF Keeps, IsCore, Fields
  <2>3. Timed(x.core) /\ x.core.tim = d.tim
    BY <1>1, <2>1, <2>2, TimedKept
  <2>4. Program(d, w, q) = q
    BY <1>4 DEF Program, OtherWords, MemoryWords
  <2>5. ~R!TimerDirty(w)
    BY <1>4 DEF R!TimerDirty, OtherWords, MemoryWords
  <2> QED
    BY <1>1, <2>3, <2>4, <2>5 DEF Programs
<1>5. CASE w.op \notin OtherWords \cup MemoryWords \cup DeviceWords
  <2>1. x = R!Sysreg(d, w)
    BY <1>5, ExecuteCases
  <2>2. PICK e : e = R!Written(d, w)
    OBVIOUS
  <2>3. PICK s : s = Program(d, w, q)
    OBVIOUS
  <2>4. Timed(e) /\ s \in AskedRec /\ OfTimer(s, e.tim["P"])
    BY <1>5, <2>2, <2>3, WrittenTimed
  <2>5. x = R!Next4(e) \/ x = R!Next4(R!SyncMmu(e))
    BY <1>0, <2>1, <2>2, SysregCases DEF Ran, Faults
  <2>6. Keeps(x.core, e, {"pc", "mmu"})
    <3>1. Keeps(e, e, {"pc", "mmu"})
      BY DEF Keeps
    <3>2. Keeps(R!SyncMmu(e), e, {"pc", "mmu"})
      BY SyncKeeps, KeepsWithin
    <3> QED
      BY <2>5, <3>1, <3>2, Next4After
  <2>7. x.core.ext = e.ext /\ e.ext \in BOOLEAN
    BY <2>4, <2>6 DEF Keeps, Timed, IsCore, Fields
  <2>8. Timed(x.core) /\ x.core.tim = e.tim
    BY <2>4, <2>6, <2>7, TimedKept
  <2> QED
    BY <1>3, <1>5, <2>3, <2>4, <2>8 DEF Programs
<1> QED
  BY <1>2, <1>4, <1>5

(* An exception entry leaves the routed bit alone or consumes it.          *)
LEMMA PollExt ==
  ASSUME NEW d, IsCore(d), d.ext \in BOOLEAN
  PROVE  R!Poll(d).ext \in BOOLEAN
<1>0. "ext" \in DOMAIN d
  BY DEF IsCore, Fields
<1>1. PICK kind : kind = R!Eligible(d)
  OBVIOUS
<1>2. PICK x : x = IF kind = "ExternalInterrupt" THEN [d EXCEPT !.ext = FALSE] ELSE d
  OBVIOUS
<1>3. x.ext \in BOOLEAN /\ "ext" \in DOMAIN x
  BY <1>0, <1>2
<1>4. PICK a : a = R!Raise(d, "SystemRegisterTrap")
  OBVIOUS
<1>5. a.ext = d.ext
  BY <1>0, <1>4, RaiseKeeps DEF Keeps, Raised, Banked
<1>6. PICK b : b = R!Raise(x, kind)
  OBVIOUS
<1>7. b.ext = x.ext /\ "ext" \in DOMAIN b
  BY <1>3, <1>6, RaiseKeeps DEF Keeps, Raised, Banked
<1>8. R!Take(b).ext = x.ext
  BY <1>7, TakeKeeps DEF Keeps, Taken, Raised, Banked
<1>9. PICK p : p = R!Poll(d)
  OBVIOUS
<1>10. p \in {d, [a EXCEPT !.status = "SystemRegisterTrap"], [R!Take(b) EXCEPT !.status = kind]}
  <2>1. PICK stop \in BOOLEAN :
            stop <=> /\ d.irq \/ d.fiq \/ d.ext \/ \E t \in R!Timer : R!Pending(d, t)
                     /\ R!Routed(d)
    OBVIOUS
  <2>2. p = IF d.pend # "none" THEN d
            ELSE IF stop THEN [a EXCEPT !.status = "SystemRegisterTrap"]
            ELSE IF kind = "none" THEN d ELSE [R!Take(b) EXCEPT !.status = kind]
    BY <1>1, <1>2, <1>4, <1>6, <1>9, <2>1, Zenon DEF R!Poll
  <2> QED
    BY <2>2
<1>11. CASE p = d
  BY <1>9, <1>11
<1>12. CASE p = [a EXCEPT !.status = "SystemRegisterTrap"]
  <2>1. p.ext = d.ext
    BY <1>5, <1>12
  <2> QED
    BY <1>9, <2>1
<1>13. CASE p = [R!Take(b) EXCEPT !.status = kind]
  <2>1. p.ext = x.ext
    BY <1>8, <1>13
  <2> QED
    BY <1>3, <1>9, <2>1
<1> QED
  BY <1>10, <1>11, <1>12, <1>13

LEMMA StepGraph ==
  ASSUME NEW d, d.retired \in Nat, d.status = "run", NEW w \in Word,
         NEW e, e = R!Step(d, w), GraphInv(d, asked)
  PROVE  GraphInv(e, NextAsked(d, e, w)) /\ RoutedUp(e)
<1>1. PICK x : x = R!ExecuteOne(d, w)
  OBVIOUS
<1>2. IsCore(d) /\ Timed(d) /\ d.ext \in BOOLEAN /\ "ext" \in DOMAIN d
  BY DEF GraphInv, Timed, IsCore, Fields
<1>3. CASE ~Executes(d, e) /\ Keeps(e, d, Polled \cup {"mmu"}) /\ e.status # "run"
  <2>1. /\ "cnt" \notin Polled \cup {"mmu"} /\ "tim" \notin Polled \cup {"mmu"}
        /\ "g" \notin Polled \cup {"mmu"} /\ "bus" \notin Polled \cup {"mmu"}
    BY DEF Polled, Taken, Raised, Banked
  <2>2. NextAsked(d, e, w) = asked
    BY <1>3 DEF NextAsked
  <2>3. e.ext \in BOOLEAN
    <3>1. CASE Spent(d, e)
      BY <1>2, <3>1 DEF Spent
    <3>2. CASE Stopped(d, e)
      BY <1>2, <3>2, PollExt DEF Stopped
    <3>3. CASE Faulted(e, x)
      <4>1. x.core.ext = d.ext /\ "ext" \in DOMAIN x.core
        BY <1>1, <1>2, <3>3, ExecuteOutcome DEF Keeps, Faulted, Ran, Kinds, Interrupts
      <4>2. PICK a : a = R!Raise(x.core, x.how)
        OBVIOUS
      <4>3. a.ext = d.ext
        BY <4>1, <4>2, RaiseKeeps DEF Keeps, Raised, Banked
      <4>4. e = [a EXCEPT !.status = x.how]
        BY <3>3, <4>2 DEF Faulted
      <4> QED
        BY <1>2, <4>3, <4>4
    <3>4. CASE Completed(e, x, w)
      <4>1. Keeps(x.core, d, Work(w.op)) /\ IsCore(x.core)
        BY <1>1, <1>2, <3>4, ExecuteOutcome, CoreKept DEF Completed, Faults
      <4>2. e.retired = x.core.retired + 1
        BY <3>4, <4>1, CompletedKeeps
      <4>3. x.core.retired = d.retired
        BY <1>2, <4>1, TargetRange DEF Keeps, Work, IsCore, Fields
      <4> QED
        BY <1>3, <4>2, <4>3 DEF Executes
    <3> QED
      BY <1>1, <1>2, <3>1, <3>2, <3>3, <3>4, StepCases
  <2>4. GraphInv(e, asked)
    BY <1>2, <1>3, <2>1, <2>3, TimedKept
  <2> QED
    BY <1>3, <2>2, <2>4 DEF RoutedUp
<1>4. CASE Executes(d, e) /\ x.how \in Ran /\ IsCore(x.core) /\ Completed(e, x, w)
  <2>1. PICK q : q = Program(d, w, asked)
    OBVIOUS
  <2>2. NextAsked(d, e, w) = q
    BY <1>4, <2>1 DEF NextAsked, Program
  <2>3. Timed(x.core) /\ q \in AskedRec /\ Programs(x.core, w, q)
    BY <1>1, <1>4, <2>1, ExecuteTimed
  <2>4. PICK a : a = R!Retire(x.core, w)
    OBVIOUS
  <2>5. GraphInv(a, q) /\ (a.bus = "m1" /\ a.g.aicO => a.ext)
    BY <2>3, <2>4, RetireGraph DEF Programs
  <2>6. e = [a EXCEPT !.status = x.how]
    BY <1>4, <2>4 DEF Completed
  <2>7. Keeps(e, a, {"status"}) /\ e.ext = a.ext /\ e.ext \in BOOLEAN
    BY <2>5, <2>6 DEF Keeps, GraphInv, Timed, IsCore, Fields
  <2>8. GraphInv(e, q) /\ e.g = a.g /\ e.bus = a.bus
    BY <2>5, <2>7, TimedKept DEF GraphInv
  <2> QED
    BY <2>2, <2>5, <2>7, <2>8 DEF RoutedUp
<1> QED
  BY <1>1, <1>2, <1>3, <1>4, StepOutcome

-----------------------------------------------------------------------------
(* The machine graph, of the specification. *)

DeviceInv == GraphInv(r, asked) /\ RoutedUp(r)

LEMMA InitDevice == Init => DeviceInv
<1> SUFFICES ASSUME Init PROVE DeviceInv
  OBVIOUS
<1>1. PICK b \in Families[fam].boots : r = Booted(R!Reset(b.el, b.bus), b)
  BY DEF Init
<1>2. PICK d : d = R!Reset(b.el, b.bus)
  OBVIOUS
<1>3. IsCore(d) /\ Keeps(r, d, {"ps", "prof", "irq", "fiq", "spEl", "sp", "vbar"})
  BY <1>1, <1>2, BootKeeps
<1>4. PICK off : off = R!TimerOff
  OBVIOUS
<1>5. off \in TimerRec /\ off.en = FALSE /\ off.im = FALSE /\ off.cval = 0
  BY <1>4 DEF R!TimerOff, TimerRec
<1>6. /\ d.retired = 0 /\ d.cnt = 0 /\ d.ext = FALSE /\ d.bus = b.bus
      /\ d.tim = [t \in Timer |-> off]
      /\ d.g = [cnt |-> 0, cmp |-> 0, en |-> FALSE, im |-> FALSE, aicT |-> FALSE, aicO |-> FALSE]
  BY <1>2, <1>4 DEF R!Reset, R!Timer, Timer
<1>7. b.bus \in {"ram", "m1"}
  BY CpuPairAssumption DEF Init, BootState
<1>8. d.g \in GraphRec /\ d.g.cnt = 0 /\ d.g.cmp = 0 /\ d.g.en = FALSE /\ d.g.im = FALSE
      /\ d.g.aicT = FALSE
  BY <1>6 DEF GraphRec
<1>9. d.tim \in [Timer -> TimerRec] /\ d.tim["P"] = off
  BY <1>5, <1>6 DEF Timer
<1>10. Timed(d)
  <2>1. d.cnt = 0 /\ d.ext = FALSE /\ d.bus = b.bus
    BY <1>6
  <2>2. d.cnt \in Nat
    BY <2>1
  <2>3. d.ext \in BOOLEAN /\ d.bus \in {"ram", "m1"}
    BY <1>7, <2>1, Zenon
  <2> QED
    BY <1>3, <1>8, <1>9, <2>2, <2>3, Zenon DEF Timed
<1>11. ~R!Pending(d, "P") /\ ~d.g.aicT
  BY <1>5, <1>8, <1>9 DEF R!Pending
<1>12. Mirrored(d)
  BY <1>5, <1>6, <1>8, <1>9, <1>11 DEF Mirrored
<1>13. asked \in AskedRec /\ OfTimer(asked, d.tim["P"])
  BY <1>5, <1>9 DEF Init, AskedRec, OfTimer
<1>14. GraphInv(d, asked)
  BY <1>10, <1>12, <1>13 DEF GraphInv
<1>15. r.ext = d.ext /\ r.retired = 0
  BY <1>3, <1>6 DEF Keeps, IsCore, Fields
<1>16. GraphInv(r, asked)
  BY <1>3, <1>6, <1>10, <1>14, <1>15, TimedKept
<1> QED
  BY <1>15, <1>16 DEF DeviceInv, RoutedUp

LEMMA NextDevice == CoreInv /\ DeviceInv /\ [Next]_vars => DeviceInv'
<1> SUFFICES ASSUME CoreInv, DeviceInv, [Next]_vars PROVE DeviceInv'
  OBVIOUS
<1>0. /\ GraphInv(r, asked) /\ Timed(r) /\ IsCore(r) /\ r.retired \in Nat /\ r.ext \in BOOLEAN
      /\ "ext" \in DOMAIN r /\ "status" \in DOMAIN r
  BY DEF CoreInv, DeviceInv, GraphInv, Timed, IsCore, Fields
<1>1. ASSUME NEW w \in Families[fam].words, Step(w) PROVE DeviceInv'
  <2>1. w \in Word
    BY CpuPairAssumption DEF CoreInv
  <2>2. r.status = "run" /\ r' = R!Step(r, w) /\ asked' = NextAsked(r, r', w)
    BY <1>1 DEF Step
  <2>3. GraphInv(r', asked') /\ RoutedUp(r')
    BY <1>0, <2>1, <2>2, StepGraph
  <2> QED
    BY <2>3 DEF DeviceInv
<1>2. ASSUME TakePending PROVE DeviceInv'
  <2>1. r' = R!Take(r) /\ asked' = asked /\ r.status # "run"
    BY <1>2 DEF TakePending
  <2>2. Keeps(r', r, Taken)
    BY <2>1, TakeKeeps
  <2>3. /\ "cnt" \notin Taken /\ "tim" \notin Taken /\ "g" \notin Taken /\ "bus" \notin Taken
        /\ "ext" \notin Taken /\ "status" \notin Taken
    BY DEF Taken, Raised, Banked
  <2>4. r'.status = r.status /\ r'.ext = r.ext
    BY <1>0, <2>2, <2>3 DEF Keeps
  <2>5. GraphInv(r', asked')
    BY <1>0, <2>1, <2>2, <2>3, <2>4, TimedKept
  <2> QED
    BY <2>1, <2>4, <2>5 DEF DeviceInv, RoutedUp
<1>3. ASSUME NEW l \in Families[fam].lines, RunAgain(l[1], l[2]) PROVE DeviceInv'
  <2>1. r' = Again(r, l[1], l[2]) /\ asked' = asked
    BY <1>3 DEF RunAgain, Again
  <2>2. Keeps(r', r, Restarted) /\ (r'.retired = 0 \/ r'.status = "Input")
    BY <1>0, <2>1, RerunKeeps
  <2>3. /\ "cnt" \notin Restarted /\ "tim" \notin Restarted /\ "g" \notin Restarted
        /\ "bus" \notin Restarted /\ "ext" \notin Restarted
    BY DEF Restarted
  <2>4. r'.ext = r.ext
    BY <1>0, <2>2, <2>3 DEF Keeps
  <2>5. GraphInv(r', asked')
    BY <1>0, <2>1, <2>2, <2>3, <2>4, TimedKept
  <2> QED
    BY <2>2, <2>5 DEF DeviceInv, RoutedUp
<1>4. ASSUME NEW on \in BOOLEAN, SetSource(on) PROVE DeviceInv'
  <2>1. r' = [r EXCEPT !.g.aicO = on] /\ asked' = asked /\ r.status # "run"
    BY <1>4 DEF SetSource
  <2>2. PICK f : f = [r.g EXCEPT !.aicO = on]
    OBVIOUS
  <2>3. /\ r'.g = f /\ r'.tim = r.tim /\ r'.ext = r.ext /\ r'.bus = r.bus /\ r'.cnt = r.cnt
        /\ IsCore(r') /\ r'.status = r.status
    BY <1>0, <2>1, <2>2 DEF IsCore, Fields
  <2>4. /\ f \in GraphRec /\ f.cnt = r.g.cnt /\ f.cmp = r.g.cmp /\ f.en = r.g.en
        /\ f.im = r.g.im /\ f.aicT = r.g.aicT
    BY <1>0, <2>2 DEF Timed, GraphRec
  <2>5. Timed(r')
    BY <1>0, <2>3, <2>4 DEF Timed
  <2>6. Mirrored(r) => Mirrored(r')
    BY <2>3, <2>4, Zenon DEF Mirrored, R!Pending
  <2>7. GraphInv(r', asked')
    BY <1>0, <2>1, <2>3, <2>5, <2>6 DEF GraphInv
  <2> QED
    BY <2>1, <2>3, <2>7 DEF DeviceInv, RoutedUp
<1>5. ASSUME UNCHANGED vars PROVE DeviceInv'
  <2>1. r' = r /\ asked' = asked
    BY <1>5 DEF vars
  <2> QED
    BY <2>1, Zenon DEF DeviceInv
<1> QED
  BY <1>1, <1>2, <1>3, <1>4, <1>5 DEF Next, Ended

(* The processor's timer is the one programmed last by either way, the     *)
(* device mirrors it between instructions, and a source that is up while   *)
(* the guest runs has reached the processor (m1.rs, program_timer and      *)
(* sync_guest_timer).                                                      *)
THEOREM GraphFollowsProcessor == Spec => []GraphFollowsCpu
<1>1. DeviceInv => GraphFollowsCpu
  <2> SUFFICES ASSUME DeviceInv PROVE GraphFollowsCpu
    OBVIOUS
  <2>1. /\ Timed(r) /\ asked \in AskedRec /\ OfTimer(asked, r.tim["P"])
        /\ r.bus = "m1" => Mirrored(r)
    BY DEF DeviceInv, GraphInv
  <2>2. PICK p : p = r.tim["P"]
    OBVIOUS
  <2>3. asked = [en |-> p.en, im |-> p.im, cval |-> p.cval]
    BY <2>1, <2>2 DEF AskedRec, OfTimer
  <2>4. ASSUME r.bus = "m1"
        PROVE  /\ r.g.cnt = r.cnt /\ r.g.cmp = p.cval /\ r.g.en = p.en /\ r.g.im = p.im
               /\ r.g.aicT = R!Pending(r, "P")
               /\ (r.status = "run" /\ r.retired > 0 /\ r.g.aicO) => r.ext
    <3>1. Mirrored(r)
      BY <2>1, <2>4
    <3>2. r.g.aicT \in BOOLEAN /\ R!Pending(r, "P") \in BOOLEAN
      BY <2>1, PendingTyped DEF Timed, GraphRec, Timer
    <3>3. r.g.aicT = R!Pending(r, "P")
      <4>1. CASE r.g.aicT = TRUE
        BY <3>1, <3>2, <4>1 DEF Mirrored
      <4>2. CASE r.g.aicT = FALSE
        BY <3>1, <3>2, <4>2 DEF Mirrored
      <4> QED
        BY <3>2, <4>1, <4>2
    <3> QED
      BY <2>2, <2>4, <3>1, <3>3 DEF Mirrored, DeviceInv, RoutedUp
  <2> QED
    BY <2>2, <2>3, <2>4, Zenon DEF GraphFollowsCpu
<1> QED
  BY <1>1, InitCore, NextCore, InitDevice, NextDevice, PTL DEF Spec

-----------------------------------------------------------------------------
(* Levels, banks and pending exceptions. *)

LevelInv(d) ==
  /\ d.el \in El /\ d.ps \in Psr /\ ModeValid(d.el, d.ps)
  /\ d.spEl \in [El -> Nat] /\ d.sp \in Nat /\ d.pc \in Nat /\ d.vector \in Nat

BankInv(d) ==
  /\ d.spsr \in [Bank -> Psr] /\ d.elr \in [Bank -> Nat] /\ d.vbar \in [Bank -> Nat]
  /\ d.esr \in [Bank -> Kinds \cup {"none"}]

Idle(d) == d.pend = "none" /\ d.target = 0 /\ d.lower = FALSE

\* A pending exception has stopped the run, and its bank holds where.
Waits(d) ==
  /\ d.pend \in Kinds /\ d.target \in Bank /\ d.lower \in BOOLEAN
  /\ d.lower => d.el < d.target
  /\ d.elr[d.target] = d.pc
  /\ d.status # "run"

CountInv(d) == d.cnt \in Nat /\ d.retired \in 0..Budget

Level == {"el", "ps", "spEl", "sp", "pc", "vector"}
Banks == {"spsr", "elr", "vbar", "esr"}
Pends == {"pend", "target", "lower"}

LEMMA LevelKept ==
  ASSUME NEW d, IsCore(d), NEW e, NEW F, Keeps(e, d, F)
  PROVE  /\ LevelInv(d) /\ F \cap Level = {} => LevelInv(e)
         /\ BankInv(d) /\ F \cap Banks = {} => BankInv(e)
         /\ Idle(d) /\ F \cap Pends = {} => Idle(e)
         /\ CountInv(d) /\ F \cap {"cnt", "retired"} = {} => CountInv(e)
<1>1. ASSUME F \cap Level = {}
      PROVE  /\ e.el = d.el /\ e.ps = d.ps /\ e.spEl = d.spEl /\ e.sp = d.sp /\ e.pc = d.pc
             /\ e.vector = d.vector
  BY <1>1 DEF Keeps, IsCore, Fields, Level
<1>2. ASSUME F \cap Banks = {}
      PROVE  e.spsr = d.spsr /\ e.elr = d.elr /\ e.vbar = d.vbar /\ e.esr = d.esr
  BY <1>2 DEF Keeps, IsCore, Fields, Banks
<1>3. ASSUME F \cap Pends = {}
      PROVE  e.pend = d.pend /\ e.target = d.target /\ e.lower = d.lower
  BY <1>3 DEF Keeps, IsCore, Fields, Pends
<1>4. ASSUME F \cap {"cnt", "retired"} = {}
      PROVE  e.cnt = d.cnt /\ e.retired = d.retired
  BY <1>4 DEF Keeps, IsCore, Fields
<1>5. LevelInv(d) /\ F \cap Level = {} => LevelInv(e)
  BY <1>1, Zenon DEF LevelInv
<1>6. BankInv(d) /\ F \cap Banks = {} => BankInv(e)
  BY <1>2, Zenon DEF BankInv
<1>7. Idle(d) /\ F \cap Pends = {} => Idle(e)
  BY <1>3, Zenon DEF Idle
<1>8. CountInv(d) /\ F \cap {"cnt", "retired"} = {} => CountInv(e)
  BY <1>4, Zenon DEF CountInv
<1> QED
  BY <1>5, <1>6, <1>7, <1>8

LEMMA SameLevels ==
  ASSUME NEW el, NEW ps
  PROVE  /\ R!SpIndex(el, ps) = SpIndex(el, ps) /\ R!TargetEl(el) = TargetEl(el)
         /\ R!ModeValid(el, ps) <=> ModeValid(el, ps)
         /\ R!El = El /\ R!Bank = Bank /\ R!Bits = Bits
BY DEF R!SpIndex, SpIndex, R!TargetEl, TargetEl, R!ModeValid, ModeValid, R!El, El, R!Bank, Bank,
       R!Bits, Bits

LEMMA LevelRange ==
  ASSUME NEW el \in El, NEW ps
  PROVE  SpIndex(el, ps) \in El /\ TargetEl(el) \in Bank /\ (el # TargetEl(el) => el < TargetEl(el))
BY DEF SpIndex, TargetEl, El, Bank

(* What a bank holds once it is written.                                   *)
LEMMA BankWritten ==
  ASSUME NEW d, IsCore(d), BankInv(d), d.ps \in Psr, NEW to \in Bank, NEW kind \in Kinds,
         NEW pc \in Nat, NEW e, e = R!WriteBank(d, to, kind, pc)
  PROVE  /\ Keeps(e, d, Banked) /\ BankInv(e)
         /\ e.spsr[to] = d.ps /\ e.elr[to] = pc
<1>1. PICK esr : esr = IF kind \in R!Interrupts THEN d.esr[to] ELSE kind
  OBVIOUS
<1>2. esr \in Kinds \cup {"none"}
  BY <1>1 DEF BankInv
<1>3. PICK s : s = [d.spsr EXCEPT ![to] = d.ps]
  OBVIOUS
<1>4. PICK l : l = [d.elr EXCEPT ![to] = pc]
  OBVIOUS
<1>5. PICK y : y = [d.esr EXCEPT ![to] = esr]
  OBVIOUS
<1>6. e = [d EXCEPT !.spsr[to] = d.ps, !.elr[to] = pc,
                    !.esr[to] = IF kind \in R!Interrupts THEN @ ELSE kind]
  BY DEF R!WriteBank
<1>7. e.spsr = s /\ e.elr = l
  BY <1>3, <1>4, <1>6 DEF IsCore, Fields
<1>8. e.esr = y
  BY <1>1, <1>5, <1>6 DEF IsCore, Fields
<1>9. Keeps(e, d, Banked)
  BY <1>6 DEF Keeps, Banked
<1>10. e.vbar = d.vbar
  BY <1>9 DEF Keeps, Banked, IsCore, Fields
<1>11. s \in [Bank -> Psr] /\ s[to] = d.ps
  BY <1>3 DEF BankInv
<1>12. l \in [Bank -> Nat] /\ l[to] = pc
  BY <1>4 DEF BankInv
<1>13. y \in [Bank -> Kinds \cup {"none"}]
  BY <1>2, <1>5 DEF BankInv
<1>14. d.vbar \in [Bank -> Nat]
  BY DEF BankInv
<1> QED
  BY <1>7, <1>8, <1>9, <1>10, <1>11, <1>12, <1>13, <1>14, Zenon DEF BankInv

LEMMA RaiseTyped ==
  ASSUME NEW d, IsCore(d), LevelInv(d), BankInv(d), Idle(d), NEW kind \in Kinds,
         NEW e, e = R!Raise(d, kind)
  PROVE  /\ IsCore(e) /\ LevelInv(e) /\ BankInv(e) /\ Keeps(e, d, Raised)
         /\ e.pend = kind /\ e.target = TargetEl(d.el) /\ e.lower \in BOOLEAN
         /\ e.lower => e.el < e.target
         /\ e.spsr[e.target] = d.ps /\ e.elr[e.target] = d.pc
<1>1. PICK to \in Bank : to = TargetEl(d.el) /\ (d.el # to => d.el < to)
  BY LevelRange DEF LevelInv
<1>2. R!TargetEl(d.el) = to
  BY <1>1, SameLevels
<1>3. PICK b : b = R!WriteBank(d, to, kind, d.pc)
  OBVIOUS
<1>4. Keeps(b, d, Banked) /\ BankInv(b) /\ b.spsr[to] = d.ps /\ b.elr[to] = d.pc
  BY <1>3, BankWritten DEF LevelInv
<1>5. PICK low \in BOOLEAN : low = (d.el # to)
  OBVIOUS
<1>6. e = [b EXCEPT !.pend = kind, !.target = to, !.lower = low]
  BY <1>2, <1>3, <1>5 DEF R!Raise, Idle
<1>7. IsCore(b)
  BY <1>4, CoreKept
<1>8. e.pend = kind /\ e.target = to /\ e.lower = low /\ Keeps(e, b, Pends)
  BY <1>6, <1>7 DEF IsCore, Fields, Keeps, Pends
<1>9. BankInv(e) /\ e.spsr = b.spsr /\ e.elr = b.elr
  <2>1. e.spsr = b.spsr /\ e.elr = b.elr
    BY <1>7, <1>8 DEF Keeps, Pends, IsCore, Fields
  <2>2. Pends \cap Banks = {}
    BY DEF Pends, Banks
  <2> QED
    BY <1>4, <1>7, <1>8, <2>1, <2>2, LevelKept
<1>10. Keeps(e, d, Raised)
  BY RaiseKeeps
<1>11. Raised \cap Level = {}
  BY DEF Raised, Banked, Level
<1>12. LevelInv(e) /\ IsCore(e) /\ e.el = d.el
  <2>1. e.el = d.el
    BY <1>10 DEF Keeps, Raised, Banked, IsCore, Fields
  <2> QED
    BY <1>10, <1>11, <2>1, LevelKept, CoreKept
<1> QED
  BY <1>1, <1>4, <1>5, <1>8, <1>9, <1>10, <1>12

LEMMA SaveSpTyped ==
  ASSUME NEW d, IsCore(d), LevelInv(d), NEW e, e = R!SaveSp(d)
  PROVE  /\ IsCore(e) /\ LevelInv(e) /\ Keeps(e, d, {"spEl"})
         /\ e.spEl = [d.spEl EXCEPT ![SpIndex(d.el, d.ps)] = d.sp]
<1>1. PICK i \in El : i = SpIndex(d.el, d.ps)
  BY LevelRange DEF LevelInv
<1>2. e = [d EXCEPT !.spEl[i] = d.sp]
  BY <1>1, SameLevels DEF R!SaveSp
<1>3. PICK b : b = [d.spEl EXCEPT ![i] = d.sp]
  OBVIOUS
<1>4. b \in [El -> Nat]
  BY <1>3 DEF LevelInv
<1>5. e.spEl = b
  BY <1>2, <1>3 DEF IsCore, Fields
<1>6. Keeps(e, d, {"spEl"})
  BY SaveSpKeeps
<1>7. e.el = d.el /\ e.ps = d.ps /\ e.sp = d.sp /\ e.pc = d.pc /\ e.vector = d.vector
  BY <1>6 DEF Keeps, IsCore, Fields
<1>8. LevelInv(e)
  BY <1>4, <1>5, <1>7, Zenon DEF LevelInv
<1> QED
  BY <1>1, <1>3, <1>5, <1>6, <1>8, CoreKept

\* e is in a handler at level "to" that returns to ps and pc.
InHandler(e, to, ps, pc) ==
  /\ e.el = to /\ to \in Bank /\ e.ps.h = 1
  /\ e.spsr[to] = ps /\ e.elr[to] = pc
  /\ e.sp = e.spEl[to]

LEMMA OffsetTyped ==
  ASSUME NEW kind, NEW from, NEW ps
  PROVE  R!Offset(kind, from, ps) \in Nat
<1>1. PICK a \in Nat : a = IF from = 0 THEN 1024 ELSE IF ps.h = 1 THEN 512 ELSE 0
  OBVIOUS
<1>2. PICK b \in Nat : b = CASE kind \in {"TimerInterrupt", "ExternalInterrupt"} -> 128
                             [] kind = "FiqInterrupt" -> 256
                             [] OTHER -> 0
  OBVIOUS
<1>3. R!Offset(kind, from, ps) = a + b
  BY <1>1, <1>2 DEF R!Offset
<1> QED
  BY <1>3

LEMMA TakeTyped ==
  ASSUME NEW d, IsCore(d), LevelInv(d), BankInv(d), NEW to \in Bank, d.target = to, d.pend \in Kinds,
         NEW e, e = R!Take(d)
  PROVE  /\ IsCore(e) /\ LevelInv(e) /\ BankInv(e) /\ Idle(e) /\ Keeps(e, d, Taken)
         /\ InHandler(e, to, d.ps, d.elr[to])
         /\ e.spEl = [d.spEl EXCEPT ![SpIndex(d.el, d.ps)] = d.sp]
<1>1. PICK s : s = R!SaveSp(d)
  OBVIOUS
<1>2. PICK sps : sps = [d.spEl EXCEPT ![SpIndex(d.el, d.ps)] = d.sp]
  OBVIOUS
<1>3. IsCore(s) /\ LevelInv(s) /\ Keeps(s, d, {"spEl"}) /\ s.spEl = sps
  BY <1>1, <1>2, SaveSpTyped
<1>4. BankInv(s) /\ s.ps = d.ps
  <2>1. {"spEl"} \cap Banks = {}
    BY DEF Banks
  <2>2. s.ps = d.ps
    BY <1>3 DEF Keeps, IsCore, Fields
  <2> QED
    BY <1>3, <2>1, <2>2, LevelKept
<1>5. PICK pc \in Nat : pc = d.elr[to]
  BY DEF BankInv
<1>6. PICK b : b = R!WriteBank(s, to, d.pend, pc)
  OBVIOUS
<1>7. /\ Keeps(b, s, Banked) /\ BankInv(b) /\ b.spsr[to] = d.ps /\ b.elr[to] = pc
  BY <1>3, <1>4, <1>5, <1>6, BankWritten DEF LevelInv
<1>8. IsCore(b) /\ b.spEl = sps /\ b.ps = d.ps
  <2>1. b.spEl = s.spEl /\ b.ps = s.ps
    BY <1>3, <1>7 DEF Keeps, Banked, IsCore, Fields
  <2> QED
    BY <1>3, <1>4, <1>7, <2>1, CoreKept
<1>9. PICK at \in Nat : at = d.vbar[to] + R!Offset(d.pend, d.el, d.ps)
  <2>1. d.vbar[to] \in Nat /\ R!Offset(d.pend, d.el, d.ps) \in Nat
    BY OffsetTyped DEF BankInv
  <2> QED
    BY <2>1
<1>10. PICK ps : ps = [R!WithMode(d.ps, to) EXCEPT !.mask = R!Bits]
  OBVIOUS
<1>11. ps = [lvl |-> to, h |-> 1, mask |-> Bits]
  BY <1>10, SameLevels DEF R!WithMode, R!ModeOf, Bank
<1>12. e = [b EXCEPT !.el = to, !.ps = ps, !.sp = sps[to], !.pc = at, !.vector = at,
                     !.pend = "none", !.target = 0, !.lower = FALSE]
  BY <1>1, <1>5, <1>6, <1>8, <1>9, <1>10 DEF R!Take, R!Enter
<1>13. /\ e.el = to /\ e.ps = ps /\ e.sp = sps[to] /\ e.pc = at /\ e.vector = at
       /\ e.pend = "none" /\ e.target = 0 /\ e.lower = FALSE
       /\ e.spEl = sps /\ e.spsr = b.spsr /\ e.elr = b.elr /\ e.vbar = b.vbar /\ e.esr = b.esr
  BY <1>8, <1>12 DEF IsCore, Fields
<1>14. Keeps(e, d, Taken) /\ IsCore(e)
  BY TakeKeeps, CoreKept
<1>15. BankInv(e)
  BY <1>7, <1>13, Zenon DEF BankInv
<1>16. sps \in [El -> Nat] /\ sps[to] \in Nat
  BY <1>3 DEF LevelInv, El, Bank
<1>17. ps \in Psr /\ ps.lvl = to /\ ps.h = 1 /\ to \in El /\ to # 0
  BY <1>11 DEF Psr, El, Bank
<1>18. LevelInv(e)
  BY <1>9, <1>13, <1>16, <1>17 DEF LevelInv, ModeValid
<1>19. InHandler(e, to, d.ps, d.elr[to])
  BY <1>5, <1>7, <1>13, <1>17 DEF InHandler
<1>20. Idle(e)
  BY <1>13, Zenon DEF Idle
<1> QED
  BY <1>2, <1>13, <1>14, <1>15, <1>18, <1>19, <1>20

(* An exception return restores what the bank holds (arch.rs).             *)
LEMMA EretTyped ==
  ASSUME NEW d, IsCore(d), LevelInv(d), BankInv(d), d.el # 0,
         NEW x, x = R!Eret(d), x.how \in Ran
  PROVE  /\ IsCore(x.core) /\ LevelInv(x.core) /\ x.how = "run"
         /\ x.core.el = d.spsr[d.el].lvl /\ x.core.ps = d.spsr[d.el]
         /\ x.core.pc = d.elr[d.el]
         /\ x.core.sp = [d.spEl EXCEPT ![SpIndex(d.el, d.ps)] = d.sp][d.spsr[d.el].lvl]
<1>0. d.el \in Bank /\ d.el \in El
  BY DEF LevelInv, El, Bank
<1>1. PICK ps \in Psr : ps = d.spsr[d.el]
  BY <1>0 DEF BankInv
<1>2. PICK s : s = R!SaveSp(d)
  OBVIOUS
<1>3. PICK sps : sps = [d.spEl EXCEPT ![SpIndex(d.el, d.ps)] = d.sp]
  OBVIOUS
<1>4. IsCore(s) /\ LevelInv(s) /\ s.spEl = sps
  BY <1>2, <1>3, SaveSpTyped
<1>5. PICK pc \in Nat : pc = d.elr[d.el]
  BY <1>0 DEF BankInv
<1>6. PICK e : e = [s EXCEPT !.ps = ps, !.pc = pc, !.el = ps.lvl, !.sp = sps[ps.lvl]]
  OBVIOUS
<1>7. x = IF ~R!Restorable(ps) THEN R!Done(d, "UndefinedInstruction") ELSE R!Done(e, "run")
  BY <1>1, <1>2, <1>4, <1>5, <1>6, Zenon DEF R!Eret
<1>8. R!Restorable(ps) /\ x.core = e /\ x.how = "run"
  BY <1>7 DEF R!Done, Ran
<1>9. ps.lvl \in El /\ ModeValid(ps.lvl, ps)
  BY <1>8, SameLevels DEF R!Restorable
<1>10. /\ e.ps = ps /\ e.pc = pc /\ e.el = ps.lvl /\ e.sp = sps[ps.lvl] /\ e.spEl = sps
       /\ e.vector = s.vector /\ IsCore(e)
  BY <1>4, <1>6 DEF IsCore, Fields
<1>11. sps[ps.lvl] \in Nat /\ sps \in [El -> Nat] /\ s.vector \in Nat
  BY <1>4, <1>9 DEF LevelInv
<1>12. LevelInv(e)
  BY <1>1, <1>5, <1>9, <1>10, <1>11 DEF LevelInv
<1> QED
  BY <1>1, <1>3, <1>5, <1>8, <1>10, <1>12, Zenon

LEMMA PstateTyped ==
  ASSUME NEW d, IsCore(d), LevelInv(d), d.el # 0, NEW w \in Word,
         w.op \in {"daifset", "daifclr", "spsel"}, NEW e, e = R!SetPstate(d, w)
  PROVE  IsCore(e) /\ LevelInv(e)
<1>1. IsCore(e)
  BY SetPstateKeeps, CoreKept
<1>2. d.ps \in Psr /\ d.ps.mask \in SUBSET Bits /\ d.ps.lvl = d.el
  BY DEF LevelInv, Psr, ModeValid
<1>3. CASE w.op \in {"daifset", "daifclr"}
  <2>1. PICK bits : bits = IF w.op = "daifset" THEN d.ps.mask \cup R!MaskBits(w.a)
                           ELSE d.ps.mask \ R!MaskBits(w.a)
    OBVIOUS
  <2>2. R!MaskBits(w.a) \subseteq Bits
    BY DEF R!MaskBits, R!Bits, Bits
  <2>3. bits \in SUBSET Bits
    BY <1>2, <2>1, <2>2
  <2>4. PICK ps : ps = [d.ps EXCEPT !.mask = bits]
    OBVIOUS
  <2>5. ps \in Psr /\ ps.lvl = d.ps.lvl /\ ps.h = d.ps.h
    BY <1>2, <2>3, <2>4 DEF Psr
  <2>6. e = [d EXCEPT !.ps = ps]
    BY <1>3, <2>1, <2>4 DEF R!SetPstate, IsCore, Fields
  <2>7. /\ e.ps = ps /\ e.el = d.el /\ e.spEl = d.spEl /\ e.sp = d.sp /\ e.pc = d.pc
        /\ e.vector = d.vector
    BY <2>6 DEF IsCore, Fields
  <2> QED
    BY <1>1, <2>5, <2>7 DEF LevelInv, ModeValid
<1>4. CASE w.op = "spsel"
  <2>1. PICK s : s = R!SaveSp(d)
    OBVIOUS
  <2>2. IsCore(s) /\ LevelInv(s) /\ Keeps(s, d, {"spEl"})
    BY <2>1, SaveSpTyped
  <2>3. s.ps = d.ps /\ s.el = d.el
    BY <2>2 DEF Keeps, IsCore, Fields
  <2>4. w.a \in 0..1
    BY <1>4 DEF Word
  <2>5. PICK ps : ps = [d.ps EXCEPT !.h = w.a]
    OBVIOUS
  <2>6. ps \in Psr /\ ps.lvl = d.ps.lvl
    BY <1>2, <2>4, <2>5 DEF Psr
  <2>7. PICK a : a = [s EXCEPT !.ps = ps]
    OBVIOUS
  <2>8. e = [a EXCEPT !.sp = a.spEl[R!SpIndex(a.el, a.ps)]]
    <3>1. a = [s EXCEPT !.ps.h = w.a]
      BY <2>2, <2>3, <2>5, <2>7 DEF IsCore, Fields
    <3> QED
      BY <1>4, <2>1, <3>1 DEF R!SetPstate
  <2>9. /\ a.ps = ps /\ a.el = s.el /\ a.spEl = s.spEl /\ a.pc = s.pc /\ a.vector = s.vector
        /\ IsCore(a)
    BY <2>2, <2>7 DEF IsCore, Fields
  <2>10. PICK i \in El : i = R!SpIndex(a.el, a.ps)
    BY <2>2, <2>9, SameLevels, LevelRange DEF LevelInv
  <2>11. /\ e.sp = s.spEl[i] /\ e.ps = ps /\ e.el = s.el /\ e.spEl = s.spEl /\ e.pc = s.pc
         /\ e.vector = s.vector
    BY <2>8, <2>9, <2>10 DEF IsCore, Fields
  <2>12. s.spEl[i] \in Nat
    BY <2>2 DEF LevelInv
  <2> QED
    BY <1>1, <1>2, <2>2, <2>3, <2>6, <2>11, <2>12 DEF LevelInv, ModeValid
<1> QED
  BY <1>3, <1>4

LEMMA PcTyped ==
  ASSUME NEW d, IsCore(d), LevelInv(d), NEW pc \in Nat, NEW e, Keeps(e, d, {"pc", "waiting"}),
         e.pc = pc
  PROVE  LevelInv(e)
<1>1. /\ e.el = d.el /\ e.ps = d.ps /\ e.spEl = d.spEl /\ e.sp = d.sp /\ e.vector = d.vector
  BY DEF Keeps, IsCore, Fields
<1> QED
  BY <1>1 DEF LevelInv

LEMMA Next4Typed ==
  ASSUME NEW e, IsCore(e), LevelInv(e)
  PROVE  IsCore(R!Next4(e).core) /\ LevelInv(R!Next4(e).core)
<1>1. PICK f : f = R!Next4(e).core
  OBVIOUS
<1>2. Keeps(f, e, {"pc"}) /\ IsCore(f)
  BY <1>1, Next4Keeps, CoreKept
<1>3. f.pc = e.pc + 4
  BY <1>1 DEF R!Next4, R!Done, IsCore, Fields
<1>4. f.pc \in Nat
  BY <1>3 DEF LevelInv
<1>5. Keeps(f, e, {"pc", "waiting"})
  BY <1>2, KeepsWithin
<1> QED
  BY <1>1, <1>2, <1>4, <1>5, PcTyped

(* A memory or device access or a system register write that completes     *)
(* goes on to the next instruction.                                        *)
LEMMA AccessCompletes ==
  ASSUME NEW d, NEW w, w.op \notin OtherWords, NEW x, x = R!ExecuteOne(d, w), x.how \in Ran
  PROVE  \E e : x = R!Next4(e) /\ Keeps(e, d, {"excl", "g", "mmu"} \cup Target(w.op))
<1> DEFINE F == {"excl", "g", "mmu"} \cup Target(w.op)
<1>0. "run" \notin Faults /\ "Halt" \notin Faults /\ "Wait" \notin Faults
  BY DEF Faults, Kinds, Interrupts
<1>1. CASE w.op \in MemoryWords
  <2>1. ASSUME NEW a, NEW n PROVE Keeps(R!ClearOnStore(d, a, n), d, F)
    BY ClearKeeps, KeepsWithin
  <2>2. CASE w.op \in {"ldxr", "stxr"}
    <3>1. x = R!ExclusiveStep(d, w)
      BY <2>2 DEF R!ExecuteOne, R!Exclusive, R!Privileged, R!Immediate, R!Device
    <3>2. PICK f : f = R!ExclusiveFault(d, w)
      OBVIOUS
    <3>3. f \in Faults \cup {"none"}
      BY <3>2 DEF R!ExclusiveFault, Faults, Kinds, Interrupts
    <3>4. f # "none" => x.how = f
      BY <3>1, <3>2 DEF R!ExclusiveStep, R!Done
    <3>5. f = "none"
      BY <1>0, <3>3, <3>4 DEF Ran
    <3>6. PICK e : e = IF w.op = "ldxr"
                       THEN [d EXCEPT !.excl = [valid |-> TRUE, addr |-> R!Physical(d, w.a),
                                                size |-> w.b]]
                       ELSE [d EXCEPT !.excl.valid = FALSE]
      OBVIOUS
    <3>7. x = R!Next4(e)
      BY <3>1, <3>2, <3>5, <3>6 DEF R!ExclusiveStep
    <3>8. Keeps(e, d, {"excl"})
      BY <3>6 DEF Keeps
    <3> QED
      BY <3>7, <3>8, KeepsWithin
  <2>3. CASE w.op = "clrex"
    <3>1. PICK e : e = [d EXCEPT !.excl.valid = FALSE]
      OBVIOUS
    <3>2. x = R!Next4(e)
      BY <2>3, <3>1 DEF R!ExecuteOne, R!Exclusive, R!Privileged, R!Immediate, R!Device
    <3>3. Keeps(e, d, {"excl"})
      BY <3>1 DEF Keeps
    <3> QED
      BY <3>2, <3>3, KeepsWithin
  <2>4. CASE w.op = "str"
    <3>1. x = R!Store(d, w)
      BY <2>4 DEF R!ExecuteOne, R!Exclusive, R!Privileged, R!Immediate, R!Device
    <3>2. PICK f : f = R!StoreFault(d, w)
      OBVIOUS
    <3>3. f \in Faults \cup {"none"}
      BY <3>2 DEF R!StoreFault, Faults, Kinds, Interrupts
    <3>4. f # "none" => x.how = f
      BY <3>1, <3>2 DEF R!Store, R!Done
    <3>5. f = "none"
      BY <1>0, <3>3, <3>4 DEF Ran
    <3>6. x = R!Next4(R!ClearOnStore(d, R!Physical(d, w.a), w.b))
      BY <3>1, <3>2, <3>5 DEF R!Store
    <3> QED
      BY <2>1, <3>6
  <2>5. CASE w.op = "stp"
    <3>1. x = R!StorePair(d, w)
      BY <2>5 DEF R!ExecuteOne, R!Exclusive, R!Privileged, R!Immediate, R!Device
    <3>2. PICK f : f = R!PairFault(d, w)
      OBVIOUS
    <3>3. f \in Faults \cup {"none"}
      BY <3>2 DEF R!PairFault, Faults, Kinds, Interrupts
    <3>4. f # "none" => x.how = f
      BY <3>1, <3>2 DEF R!StorePair, R!Done
    <3>5. f = "none"
      BY <1>0, <3>3, <3>4 DEF Ran
    <3>6. PICK a : a = R!ClearOnStore(d, w.a, w.b)
      OBVIOUS
    <3>7. PICK h : h = R!ClearOnStore(a, w.a + w.b, w.b)
      OBVIOUS
    <3>8. x = R!Next4(h)
      BY <3>1, <3>2, <3>5, <3>6, <3>7 DEF R!StorePair, R!PairCleared
    <3>9. Keeps(a, d, F) /\ Keeps(h, a, F)
      BY <3>6, <3>7, ClearKeeps, KeepsWithin
    <3> QED
      BY <3>8, <3>9, KeepsAfter
  <2> QED
    BY <1>1, <2>2, <2>3, <2>4, <2>5 DEF MemoryWords
<1>2. CASE w.op \in DeviceWords
  <2>1. x = R!Mmio(d, w)
    BY <1>2, ExecuteCases
  <2>2. PICK f : f = R!MmioFault(d, w)
    OBVIOUS
  <2>3. f \in Faults \cup {"none"}
    BY <2>2 DEF R!MmioFault, Faults, Kinds, Interrupts
  <2>4. f # "none" => x.how = f
    BY <2>1, <2>2 DEF R!Mmio, R!Done
  <2>5. f = "none"
    BY <1>0, <2>3, <2>4 DEF Ran
  <2>6. PICK e : e = R!MmioWritten(d, w)
    OBVIOUS
  <2>7. x = R!Next4(e)
    BY <2>1, <2>2, <2>5, <2>6 DEF R!Mmio
  <2>8. Keeps(e, d, {"g"})
    BY <2>6 DEF R!MmioWritten, Keeps
  <2> QED
    BY <2>7, <2>8, KeepsWithin
<1>3. CASE w.op \notin OtherWords \cup MemoryWords \cup DeviceWords
  <2>1. x = R!Sysreg(d, w)
    BY <1>3, ExecuteCases
  <2>2. PICK e : e = R!Written(d, w)
    OBVIOUS
  <2>3. x = R!Next4(e) \/ x = R!Next4(R!SyncMmu(e))
    BY <1>0, <2>1, <2>2, SysregCases DEF Ran
  <2>4. Keeps(e, d, F)
    BY <2>2, WrittenKeeps, KeepsWithin
  <2>5. Keeps(R!SyncMmu(e), e, F)
    BY SyncKeeps, KeepsWithin
  <2> QED
    BY <2>3, <2>4, <2>5, KeepsAfter
<1> QED
  BY <1>1, <1>2, <1>3

LEMMA WrittenBanks ==
  ASSUME NEW d, IsCore(d), BankInv(d), NEW w \in Word, NEW e, e = R!Written(d, w)
  PROVE  BankInv(e)
<1>1. 1 \in Bank /\ w.a \in Nat
  BY DEF Bank, Word
<1>2. CASE w.op = "msr_vbar"
  <2>1. e = [d EXCEPT !.vbar[1] = w.a]
    BY <1>2 DEF R!Written
  <2>2. e.vbar = [d.vbar EXCEPT ![1] = w.a] /\ e.spsr = d.spsr /\ e.elr = d.elr /\ e.esr = d.esr
    BY <2>1 DEF IsCore, Fields
  <2> QED
    BY <1>1, <2>2 DEF BankInv
<1>3. CASE w.op = "msr_elr"
  <2>1. e = [d EXCEPT !.elr[1] = w.a]
    BY <1>3 DEF R!Written
  <2>2. e.elr = [d.elr EXCEPT ![1] = w.a] /\ e.spsr = d.spsr /\ e.vbar = d.vbar /\ e.esr = d.esr
    BY <2>1 DEF IsCore, Fields
  <2> QED
    BY <1>1, <2>2 DEF BankInv
<1>4. CASE w.op = "msr_spsr"
  <2>1. PICK ps : ps = [lvl |-> w.a, h |-> w.b, mask |-> {}]
    OBVIOUS
  <2>2. ps \in Psr
    BY <1>4, <2>1 DEF Word, Psr
  <2>3. e = [d EXCEPT !.spsr[1] = ps]
    BY <1>4, <2>1 DEF R!Written
  <2>4. e.spsr = [d.spsr EXCEPT ![1] = ps] /\ e.elr = d.elr /\ e.vbar = d.vbar /\ e.esr = d.esr
    BY <2>3 DEF IsCore, Fields
  <2> QED
    BY <1>1, <2>2, <2>4 DEF BankInv
<1>5. CASE w.op \notin {"msr_vbar", "msr_elr", "msr_spsr"}
  <2>1. Target(w.op) \cap Banks = {}
    BY <1>5 DEF Target, Banks
  <2> QED
    BY <2>1, WrittenKeeps, LevelKept
<1> QED
  BY <1>2, <1>3, <1>4, <1>5

LEMMA ExecuteTyped ==
  ASSUME NEW d, IsCore(d), LevelInv(d), BankInv(d), NEW w \in Word,
         NEW x, x = R!ExecuteOne(d, w), x.how \in Ran
  PROVE  IsCore(x.core) /\ LevelInv(x.core) /\ BankInv(x.core)
<1>0. /\ "run" \notin Faults /\ "Halt" \notin Faults /\ "Wait" \notin Faults
      /\ "PrivilegedInstruction" \notin Ran /\ "UndefinedInstruction" \notin Ran
      /\ "SupervisorCall" \notin Ran
  BY DEF Faults, Kinds, Interrupts, Ran
<1>1. CASE w.op \in OtherWords
  <2> USE DEF R!Privileged, R!Immediate, R!Exclusive, R!Device
  <2>1. Keeps(x.core, d, {"pc", "sp", "spEl", "ps", "el", "waiting"})
    BY <1>0, <1>1, ExecuteCases DEF Outcome, Ran
  <2>2. IsCore(x.core) /\ BankInv(x.core)
    <3>1. {"pc", "sp", "spEl", "ps", "el", "waiting"} \cap Banks = {}
      BY DEF Banks
    <3> QED
      BY <2>1, <3>1, CoreKept, LevelKept
  <2>3. ~(d.el = 0 /\ w.op \in R!Privileged)
    <3>1. ASSUME d.el = 0, w.op \in R!Privileged PROVE FALSE
      <4>1. x = R!Done(d, "PrivilegedInstruction")
        BY <3>1 DEF R!ExecuteOne
      <4> QED
        BY <1>0, <4>1 DEF R!Done
    <3> QED
      BY <3>1
  <2>4. w.op \notin {"undef", "svc"}
    <3>1. ASSUME w.op \in {"undef", "svc"} PROVE FALSE
      <4>1. x \in {R!Done(d, "UndefinedInstruction"), R!Done(d, "SupervisorCall")}
        BY <2>3, <3>1 DEF R!ExecuteOne
      <4> QED
        BY <1>0, <4>1 DEF R!Done
    <3> QED
      BY <3>1
  <2>5. CASE w.op \in {"b", "hlt", "wfi"}
    <3>1. PICK e, how : /\ e \in {[d EXCEPT !.pc = @ + 8], [d EXCEPT !.pc = @ + 4],
                                  [d EXCEPT !.pc = @ + 4, !.waiting = TRUE]}
                        /\ x = R!Done(e, how)
      BY <2>3, <2>5 DEF R!ExecuteOne
    <3>2. Keeps(e, d, {"pc", "waiting"}) /\ e.pc \in {d.pc + 8, d.pc + 4}
      BY <3>1 DEF Keeps, IsCore, Fields
    <3>3. e.pc \in Nat
      BY <3>2 DEF LevelInv
    <3>4. LevelInv(e)
      BY <3>2, <3>3, PcTyped
    <3> QED
      BY <2>2, <3>1, <3>4 DEF R!Done
  <2>6. CASE w.op = "eret"
    <3>1. x = R!Eret(d) /\ d.el # 0
      BY <2>3, <2>6 DEF R!ExecuteOne
    <3> QED
      BY <2>2, <3>1, EretTyped
  <2>7. CASE w.op \in R!Immediate
    <3>1. PICK e : e = R!SetPstate(d, w)
      OBVIOUS
    <3>2. x = R!Next4(e) /\ d.el # 0
      BY <2>3, <2>7, <3>1 DEF R!ExecuteOne
    <3>3. IsCore(e) /\ LevelInv(e)
      BY <2>7, <3>1, <3>2, PstateTyped
    <3> QED
      BY <2>2, <3>2, <3>3, Next4Typed
  <2>8. CASE w.op = "addsp"
    <3>1. PICK sp \in Nat : sp = d.sp + w.a
      BY DEF LevelInv, Word
    <3>2. PICK e : e = [d EXCEPT !.sp = sp]
      OBVIOUS
    <3>3. x = R!Next4(e)
      BY <2>3, <2>8, <3>1, <3>2 DEF R!ExecuteOne
    <3>4. /\ IsCore(e) /\ e.sp = sp /\ e.el = d.el /\ e.ps = d.ps /\ e.spEl = d.spEl
          /\ e.pc = d.pc /\ e.vector = d.vector
      BY <3>2 DEF IsCore, Fields
    <3>5. LevelInv(e)
      BY <3>4, Zenon DEF LevelInv
    <3> QED
      BY <2>2, <3>3, <3>4, <3>5, Next4Typed
  <2>9. CASE w.op \in {"nop", "tlbi", "dmb"}
    <3>1. x = R!Next4(d)
      BY <2>3, <2>9 DEF R!ExecuteOne
    <3> QED
      BY <2>2, <3>1, Next4Typed
  <2> QED
    BY <1>1, <2>4, <2>5, <2>6, <2>7, <2>8, <2>9 DEF OtherWords
<1>2. CASE w.op \notin OtherWords
  <2>1. PICK e : x = R!Next4(e) /\ Keeps(e, d, {"excl", "g", "mmu"} \cup Target(w.op))
    BY <1>2, AccessCompletes
  <2>2. ({"excl", "g", "mmu"} \cup Target(w.op)) \cap Level = {}
    BY TargetRange DEF Level
  <2>3. IsCore(e) /\ LevelInv(e)
    BY <2>1, <2>2, LevelKept, CoreKept
  <2>4. BankInv(x.core)
    <3>1. CASE w.op \in MemoryWords \cup DeviceWords
      <4>1. Outcome(x, d, {"pc", "excl"}) \/ Outcome(x, d, {"pc", "g"})
        BY <3>1, ExecuteCases, MmioOutcome
      <4>2. {"pc", "excl"} \cap Banks = {} /\ {"pc", "g"} \cap Banks = {}
        BY DEF Banks
      <4> QED
        BY <1>0, <4>1, <4>2, LevelKept DEF Outcome, Ran
    <3>2. CASE w.op \notin OtherWords \cup MemoryWords \cup DeviceWords
      <4>1. x = R!Sysreg(d, w)
        BY <3>2, ExecuteCases
      <4>2. PICK f : f = R!Written(d, w)
        OBVIOUS
      <4>3. x = R!Next4(f) \/ x = R!Next4(R!SyncMmu(f))
        BY <1>0, <4>1, <4>2, SysregCases DEF Ran
      <4>4. BankInv(f) /\ IsCore(f)
        BY <4>2, WrittenBanks, WrittenKeeps, CoreKept
      <4>5. Keeps(x.core, f, {"pc", "mmu"})
        <5>1. Keeps(f, f, {"pc", "mmu"})
          BY DEF Keeps
        <5>2. Keeps(R!SyncMmu(f), f, {"pc", "mmu"})
          BY SyncKeeps, KeepsWithin
        <5> QED
          BY <4>3, <5>1, <5>2, Next4After
      <4>6. {"pc", "mmu"} \cap Banks = {}
        BY DEF Banks
      <4> QED
        BY <4>4, <4>5, <4>6, LevelKept
    <3> QED
      BY <1>2, <3>1, <3>2
  <2> QED
    BY <2>1, <2>3, <2>4, Next4Typed
<1> QED
  BY <1>1, <1>2

CpuInv(d) ==
  /\ IsCore(d) /\ LevelInv(d) /\ BankInv(d) /\ CountInv(d)
  /\ Idle(d) \/ Waits(d)
  /\ d.status # "Input"

\* An interrupt taken at once: the handler returns to where d was.
Interrupted(e, d) ==
  /\ e.status \in Interrupts /\ Idle(e)
  /\ InHandler(e, TargetEl(d.el), d.ps, d.pc)
  /\ e.spEl = [d.spEl EXCEPT ![SpIndex(d.el, d.ps)] = d.sp]

LEMMA RaisedStops ==
  ASSUME NEW d, IsCore(d), LevelInv(d), BankInv(d), CountInv(d), Idle(d), NEW kind \in Kinds,
         NEW e, e = [R!Raise(d, kind) EXCEPT !.status = kind]
  PROVE  CpuInv(e) /\ Waits(e) /\ e.status = kind
<1>1. PICK a : a = R!Raise(d, kind)
  OBVIOUS
<1>2. /\ IsCore(a) /\ LevelInv(a) /\ BankInv(a) /\ Keeps(a, d, Raised)
      /\ a.pend = kind /\ a.target = TargetEl(d.el) /\ a.lower \in BOOLEAN
      /\ a.lower => a.el < a.target
      /\ a.elr[a.target] = d.pc
  BY <1>1, RaiseTyped
<1>3. e = [a EXCEPT !.status = kind]
  BY <1>1
<1>4. Keeps(e, a, {"status"}) /\ e.status = kind
  BY <1>2, <1>3 DEF Keeps, IsCore, Fields
<1>5. {"status"} \cap Level = {} /\ {"status"} \cap Banks = {} /\ {"status"} \cap {"cnt", "retired"} = {}
      /\ Raised \cap {"cnt", "retired"} = {}
  BY DEF Level, Banks, Raised, Banked
<1>6. IsCore(e) /\ LevelInv(e) /\ BankInv(e) /\ CountInv(e)
  BY <1>2, <1>4, <1>5, LevelKept, CoreKept
<1>7. /\ e.pend = kind /\ e.target = a.target /\ e.lower = a.lower /\ e.el = a.el
      /\ e.elr = a.elr /\ e.pc = a.pc
  BY <1>2, <1>4 DEF Keeps, IsCore, Fields
<1>8. a.pc = d.pc
  BY <1>2 DEF Keeps, Raised, Banked, IsCore, Fields
<1>9. TargetEl(d.el) \in Bank
  BY LevelRange DEF LevelInv
<1>10. kind # "run" /\ kind # "Input"
  BY DEF Kinds, Interrupts
<1>11. Waits(e)
  BY <1>2, <1>4, <1>7, <1>8, <1>9, <1>10 DEF Waits
<1> QED
  BY <1>4, <1>6, <1>10, <1>11 DEF CpuInv

LEMMA PollTyped ==
  ASSUME NEW d, CpuInv(d), Idle(d), d.status = "run", NEW e, e = R!Poll(d), e.status # "run"
  PROVE  /\ CpuInv(e)
         /\ e.status \in Interrupts => Interrupted(e, d)
<1>0. IsCore(d) /\ LevelInv(d) /\ BankInv(d) /\ CountInv(d)
  BY DEF CpuInv
<1>1. PICK kind : kind = R!Eligible(d)
  OBVIOUS
<1>2. kind \in {"none"} \cup Interrupts
  BY <1>1 DEF R!Eligible, Interrupts
<1>3. PICK x : x = IF kind = "ExternalInterrupt" THEN [d EXCEPT !.ext = FALSE] ELSE d
  OBVIOUS
<1>4. PICK stop \in BOOLEAN :
            stop <=> /\ d.irq \/ d.fiq \/ d.ext \/ \E t \in R!Timer : R!Pending(d, t)
                     /\ R!Routed(d)
  OBVIOUS
<1>5. e = IF d.pend # "none" THEN d
          ELSE IF stop THEN [R!Raise(d, "SystemRegisterTrap") EXCEPT !.status = "SystemRegisterTrap"]
          ELSE IF kind = "none" THEN d
          ELSE [R!Take(R!Raise(x, kind)) EXCEPT !.status = kind]
  BY <1>1, <1>3, <1>4, Zenon DEF R!Poll
<1>6. CASE stop
  <2>1. e = [R!Raise(d, "SystemRegisterTrap") EXCEPT !.status = "SystemRegisterTrap"]
    BY <1>5, <1>6 DEF Idle
  <2>2. "SystemRegisterTrap" \in Kinds /\ "SystemRegisterTrap" \notin Interrupts
    BY DEF Kinds, Interrupts
  <2> QED
    BY <1>0, <2>1, <2>2, RaisedStops
<1>7. CASE ~stop
  <2>1. kind # "none"
    BY <1>5, <1>7
  <2>2. kind \in Kinds /\ kind \in Interrupts
    BY <1>2, <2>1 DEF Kinds
  <2>3. Keeps(x, d, {"ext"})
    BY <1>3 DEF Keeps
  <2>4. {"ext"} \cap Level = {} /\ {"ext"} \cap Banks = {} /\ {"ext"} \cap Pends = {}
        /\ {"ext"} \cap {"cnt", "retired"} = {}
    BY DEF Level, Banks, Pends
  <2>5. IsCore(x) /\ LevelInv(x) /\ BankInv(x) /\ Idle(x) /\ CountInv(x)
    BY <1>0, <2>3, <2>4, LevelKept, CoreKept
  <2>6. x.el = d.el /\ x.ps = d.ps /\ x.pc = d.pc /\ x.spEl = d.spEl /\ x.sp = d.sp
    BY <1>0, <2>3 DEF Keeps, IsCore, Fields
  <2>7. PICK a : a = R!Raise(x, kind)
    OBVIOUS
  <2>8. PICK to \in Bank : to = TargetEl(d.el)
    BY <1>0, LevelRange DEF LevelInv
  <2>9. /\ IsCore(a) /\ LevelInv(a) /\ BankInv(a) /\ Keeps(a, x, Raised)
        /\ a.pend = kind /\ a.target = to /\ a.elr[to] = d.pc
    BY <2>2, <2>5, <2>6, <2>7, <2>8, RaiseTyped
  <2>10. /\ a.ps = d.ps /\ a.el = d.el /\ a.sp = d.sp /\ a.spEl = d.spEl
    BY <2>5, <2>6, <2>9 DEF Keeps, Raised, Banked, IsCore, Fields
  <2>11. PICK t : t = R!Take(a)
    OBVIOUS
  <2>12. PICK sps : sps = [d.spEl EXCEPT ![SpIndex(d.el, d.ps)] = d.sp]
    OBVIOUS
  <2>13. /\ IsCore(t) /\ LevelInv(t) /\ BankInv(t) /\ Idle(t) /\ Keeps(t, a, Taken)
         /\ InHandler(t, to, a.ps, a.elr[to])
         /\ t.spEl = sps
    BY <2>2, <2>9, <2>10, <2>11, <2>12, TakeTyped
  <2>14. e = [t EXCEPT !.status = kind]
    BY <1>5, <1>7, <2>1, <2>7, <2>11 DEF Idle
  <2>15. Keeps(e, t, {"status"}) /\ e.status = kind /\ IsCore(e)
    BY <2>13, <2>14 DEF Keeps, IsCore, Fields
  <2>16. {"status"} \cap Level = {} /\ {"status"} \cap Banks = {} /\ {"status"} \cap Pends = {}
         /\ {"status"} \cap {"cnt", "retired"} = {} /\ Raised \cap {"cnt", "retired"} = {}
         /\ Taken \cap {"cnt", "retired"} = {}
    BY DEF Level, Banks, Pends, Raised, Taken, Banked
  <2>17. LevelInv(e) /\ BankInv(e) /\ Idle(e)
    BY <2>13, <2>15, <2>16, LevelKept
  <2>18. CountInv(e)
    <3>1. CountInv(a)
      BY <2>5, <2>9, <2>16, LevelKept
    <3>2. CountInv(t)
      BY <2>9, <2>13, <2>16, <3>1, LevelKept
    <3> QED
      BY <2>13, <2>15, <2>16, <3>2, LevelKept
  <2>19. /\ e.el = t.el /\ e.ps = t.ps /\ e.spsr = t.spsr /\ e.elr = t.elr /\ e.sp = t.sp
         /\ e.spEl = t.spEl
    BY <2>13, <2>15 DEF Keeps, IsCore, Fields
  <2>20. InHandler(e, to, d.ps, d.pc)
    BY <2>9, <2>10, <2>13, <2>19, Zenon DEF InHandler
  <2>21. kind # "Input"
    BY <2>2 DEF Interrupts
  <2> QED
    BY <2>2, <2>8, <2>12, <2>13, <2>15, <2>17, <2>18, <2>19, <2>20, <2>21 DEF CpuInv, Interrupted
<1> QED
  BY <1>6, <1>7

LEMMA StepTyped ==
  ASSUME NEW d, CpuInv(d), d.status = "run", NEW w \in Word, NEW e, e = R!Step(d, w)
  PROVE  /\ CpuInv(e)
         /\ e.status \in Interrupts => Interrupted(e, d)
         /\ e.status = "Budget" => Keeps(e, d, {"status"})
<1>0. IsCore(d) /\ LevelInv(d) /\ BankInv(d) /\ CountInv(d) /\ Idle(d) /\ d.retired \in 0..Budget
  BY DEF CpuInv, Waits, CountInv
<1>1. PICK x : x = R!ExecuteOne(d, w)
  OBVIOUS
<1>2. "Budget" \notin Kinds /\ "Budget" \notin Ran /\ "Input" \notin Ran
      /\ \A k \in Ran : k \notin Interrupts
  BY DEF Kinds, Interrupts, Ran
<1>3. CASE Spent(d, e)
  <2>1. Keeps(e, d, {"status"}) /\ e.status = "Budget"
    BY <1>0, <1>3 DEF Spent, Keeps, IsCore, Fields
  <2>2. {"status"} \cap Level = {} /\ {"status"} \cap Banks = {} /\ {"status"} \cap Pends = {}
         /\ {"status"} \cap {"cnt", "retired"} = {}
    BY DEF Level, Banks, Pends
  <2>3. IsCore(e) /\ LevelInv(e) /\ BankInv(e) /\ CountInv(e) /\ Idle(e)
    BY <1>0, <2>1, <2>2, LevelKept, CoreKept
  <2> QED
    BY <2>1, <2>3 DEF CpuInv, Interrupts
<1>4. CASE Stopped(d, e)
  <2>1. e = R!Poll(d) /\ e.status \in Kinds
    BY <1>4 DEF Stopped
  <2>2. e.status # "run"
    BY <2>1 DEF Kinds, Interrupts
  <2> QED
    BY <1>0, <1>2, <2>1, <2>2, PollTyped
<1>5. CASE Faulted(e, x)
  <2>1. Keeps(x.core, d, {"mmu"}) /\ x.how \in Faults
    BY <1>1, <1>5, ExecuteOutcome DEF Faulted, Ran, Kinds, Interrupts
  <2>2. {"mmu"} \cap Level = {} /\ {"mmu"} \cap Banks = {} /\ {"mmu"} \cap Pends = {}
         /\ {"mmu"} \cap {"cnt", "retired"} = {}
    BY DEF Level, Banks, Pends
  <2>3. /\ IsCore(x.core) /\ LevelInv(x.core) /\ BankInv(x.core) /\ CountInv(x.core)
        /\ Idle(x.core)
    BY <1>0, <2>1, <2>2, LevelKept, CoreKept
  <2>4. e = [R!Raise(x.core, x.how) EXCEPT !.status = x.how]
    BY <1>5 DEF Faulted
  <2>5. CpuInv(e) /\ e.status = x.how
    BY <2>1, <2>3, <2>4, RaisedStops DEF Faults
  <2> QED
    BY <1>2, <2>1, <2>5 DEF Faults
<1>6. CASE ~(d.retired >= Budget) /\ Completed(e, x, w)
  <2>1. x.how \in Ran /\ Keeps(x.core, d, Work(w.op))
    BY <1>1, <1>6, ExecuteOutcome DEF Completed, Faults
  <2>2. IsCore(x.core) /\ LevelInv(x.core) /\ BankInv(x.core)
    BY <1>0, <1>1, <2>1, ExecuteTyped
  <2>3. Work(w.op) \cap Pends = {} /\ Work(w.op) \cap {"cnt", "retired"} = {}
    BY TargetRange DEF Work, Pends
  <2>4. Idle(x.core) /\ CountInv(x.core) /\ x.core.retired = d.retired
    <3>1. x.core.retired = d.retired
      BY <1>0, <2>1, <2>3 DEF Keeps, IsCore, Fields
    <3> QED
      BY <1>0, <2>1, <2>3, <3>1, LevelKept
  <2>5. Keeps(e, x.core, Retired \cup {"status"}) /\ e.retired = x.core.retired + 1 /\ e.status = x.how
    BY <1>6, <2>2, CompletedKeeps
  <2>6. /\ (Retired \cup {"status"}) \cap Level = {} /\ (Retired \cup {"status"}) \cap Banks = {}
        /\ (Retired \cup {"status"}) \cap Pends = {}
    BY DEF Retired, Level, Banks, Pends
  <2>7. IsCore(e) /\ LevelInv(e) /\ BankInv(e) /\ Idle(e)
    BY <2>2, <2>4, <2>5, <2>6, LevelKept, CoreKept
  <2>8. e.retired \in 0..Budget
    BY <1>0, <1>6, <2>4, <2>5, CpuPairAssumption
  <2>9. e.cnt \in Nat
    <3>1. PICK a : a = [x.core EXCEPT !.retired = @ + 1]
      OBVIOUS
    <3>2. a.cnt = x.core.cnt /\ IsCore(a)
      BY <2>2, <3>1 DEF IsCore, Fields
    <3>3. PICK b : b = R!AdvanceCounter(a)
      OBVIOUS
    <3>4. b.cnt = a.cnt + 1 /\ IsCore(b)
      <4>1. PICK f : f = [a EXCEPT !.cnt = @ + 1]
        OBVIOUS
      <4>2. f.cnt = a.cnt + 1 /\ IsCore(f)
        BY <3>2, <4>1 DEF IsCore, Fields
      <4>3. b = [f EXCEPT !.tim = [t \in R!Timer |-> [f.tim[t] EXCEPT !.is = R!Pending(f, t)]]]
        BY <3>3, <4>1 DEF R!AdvanceCounter
      <4> QED
        BY <4>2, <4>3 DEF IsCore, Fields
    <3>5. PICK h : h = R!AfterInstruction(b, w)
      OBVIOUS
    <3>6. h.cnt = b.cnt /\ IsCore(h)
      BY <3>4, <3>5, AfterKeeps, CoreKept DEF Keeps, IsCore, Fields
    <3>7. e = [h EXCEPT !.status = x.how]
      BY <1>6, <3>1, <3>3, <3>5 DEF Completed, R!Retire
    <3>8. e.cnt = x.core.cnt + 1
      BY <3>2, <3>4, <3>6, <3>7 DEF IsCore, Fields
    <3> QED
      BY <2>4, <3>8 DEF CountInv
  <2> QED
    BY <1>2, <2>1, <2>5, <2>7, <2>8, <2>9 DEF CpuInv, CountInv
<1> QED
  BY <1>0, <1>1, <1>3, <1>4, <1>5, <1>6, StepCases

-----------------------------------------------------------------------------
(* Entry and return. *)

CtxOk(x) == x.el \in El /\ x.ps \in Psr /\ ModeValid(x.el, x.ps)

\* The stack pointer the interrupted program comes back to.
StackKept(spEl, x) == x.el = 0 \/ x.ps.h = 1 => spEl[x.el] = x.sp

SavedInv(d, v) ==
  /\ v = [phase |-> v.phase, ctx |-> v.ctx]
  /\ v.phase \in {"none", "in", "back"}
  /\ v.phase = "in" => /\ InHandler(d, d.el, v.ctx.ps, v.ctx.pc)
                       /\ CtxOk(v.ctx) /\ StackKept(d.spEl, v.ctx)
  /\ v.phase = "back" => /\ d.el = v.ctx.el /\ d.ps = v.ctx.ps /\ d.pc = v.ctx.pc
                         /\ (v.ctx.el = 0 \/ v.ctx.ps.h = 1) => d.sp = v.ctx.sp

LEMMA NothingSaved ==
  ASSUME NEW d
  PROVE  SavedInv(d, NoContext)
BY DEF SavedInv, NoContext

LEMMA SavedKept ==
  ASSUME NEW d, IsCore(d), NEW e, NEW F, Keeps(e, d, F), NEW v, SavedInv(d, v),
         F \cap {"el", "ps", "sp", "spEl", "spsr", "elr"} = {},
         v.phase = "back" => "pc" \notin F
  PROVE  SavedInv(e, v)
<1>1. /\ e.el = d.el /\ e.ps = d.ps /\ e.sp = d.sp /\ e.spEl = d.spEl /\ e.spsr = d.spsr
      /\ e.elr = d.elr
  BY DEF Keeps, IsCore, Fields
<1>2. v.phase = "back" => e.pc = d.pc
  BY DEF Keeps, IsCore, Fields
<1>3. v.phase = "in" => /\ InHandler(e, e.el, v.ctx.ps, v.ctx.pc)
                        /\ CtxOk(v.ctx) /\ StackKept(e.spEl, v.ctx)
  BY <1>1, Zenon DEF SavedInv, InHandler
<1> QED
  BY <1>1, <1>2, <1>3, Zenon DEF SavedInv

LEMMA StackSaved ==
  ASSUME NEW d, LevelInv(d), NEW sps, sps = [d.spEl EXCEPT ![SpIndex(d.el, d.ps)] = d.sp]
  PROVE  StackKept(sps, Context(d)) /\ CtxOk(Context(d))
<1>1. PICK x : x = Context(d)
  OBVIOUS
<1>2. x.el = d.el /\ x.ps = d.ps /\ x.sp = d.sp
  BY <1>1 DEF Context
<1>3. x.el = 0 \/ x.ps.h = 1 => SpIndex(d.el, d.ps) = d.el
  BY <1>2 DEF SpIndex
<1> QED
  BY <1>1, <1>2, <1>3 DEF StackKept, CtxOk, LevelInv

(* Whoever enters a handler, at once or on a pending exception, saves what *)
(* the return needs.                                                       *)
LEMMA EntrySaves ==
  ASSUME NEW d, LevelInv(d), NEW e, NEW to, InHandler(e, to, d.ps, d.pc),
         e.spEl = [d.spEl EXCEPT ![SpIndex(d.el, d.ps)] = d.sp]
  PROVE  SavedInv(e, [phase |-> "in", ctx |-> Context(d)])
<1>1. PICK x : x = Context(d)
  OBVIOUS
<1>2. x.ps = d.ps /\ x.pc = d.pc
  BY <1>1 DEF Context
<1>3. StackKept(e.spEl, x) /\ CtxOk(x)
  BY <1>1, StackSaved
<1>4. PICK v : v = [phase |-> "in", ctx |-> x]
  OBVIOUS
<1>5. v.phase = "in" /\ v.ctx = x /\ v = [phase |-> v.phase, ctx |-> v.ctx]
  BY <1>4
<1>6. e.el = to
  BY DEF InHandler
<1>7. InHandler(e, e.el, v.ctx.ps, v.ctx.pc)
  BY <1>2, <1>5, <1>6, Zenon
<1>8. CtxOk(v.ctx) /\ StackKept(e.spEl, v.ctx)
  BY <1>3, <1>5, Zenon
<1>9. SavedInv(e, v)
  BY <1>5, <1>7, <1>8 DEF SavedInv
<1> QED
  BY <1>1, <1>4, <1>9

LEMMA ReturnRestores ==
  ASSUME NEW d, IsCore(d), LevelInv(d), BankInv(d), NEW v, SavedInv(d, v), v.phase = "in",
         NEW x, x = R!Eret(d), x.how \in Ran
  PROVE  SavedInv(x.core, [v EXCEPT !.phase = "back"])
<1>1. PICK ctx : ctx = v.ctx
  OBVIOUS
<1>2. InHandler(d, d.el, ctx.ps, ctx.pc) /\ CtxOk(ctx) /\ StackKept(d.spEl, ctx)
  BY <1>1 DEF SavedInv
<1>3. d.el \in Bank /\ d.ps.h = 1 /\ d.spsr[d.el] = ctx.ps /\ d.elr[d.el] = ctx.pc /\ d.sp = d.spEl[d.el]
  BY <1>2 DEF InHandler
<1>4. d.el # 0 /\ SpIndex(d.el, d.ps) = d.el
  BY <1>3 DEF Bank, SpIndex
<1>5. ctx.ps.lvl = ctx.el /\ ctx.el \in El
  BY <1>2 DEF CtxOk, ModeValid
<1>6. PICK sps : sps = [d.spEl EXCEPT ![d.el] = d.sp]
  OBVIOUS
<1>7. /\ x.core.el = ctx.el /\ x.core.ps = ctx.ps /\ x.core.pc = ctx.pc
      /\ x.core.sp = sps[ctx.el]
  BY <1>3, <1>4, <1>5, <1>6, EretTyped
<1>8. sps = d.spEl
  BY <1>3, <1>6 DEF LevelInv
<1>9. ctx.el = 0 \/ ctx.ps.h = 1 => x.core.sp = ctx.sp
  BY <1>2, <1>7, <1>8 DEF StackKept
<1>10. PICK u : u = [v EXCEPT !.phase = "back"]
  OBVIOUS
<1>11. u.phase = "back" /\ u.ctx = ctx /\ u = [phase |-> u.phase, ctx |-> u.ctx]
  BY <1>1, <1>10 DEF SavedInv
<1>12. SavedInv(x.core, u)
  BY <1>7, <1>9, <1>11 DEF SavedInv
<1> QED
  BY <1>10, <1>12

LEMMA StepSaved ==
  ASSUME NEW d, CpuInv(d), d.status = "run", NEW w \in Word, NEW e, e = R!Step(d, w),
         SavedInv(d, saved)
  PROVE  SavedInv(e, NextSaved(d, e, w))
<1>0. /\ IsCore(d) /\ LevelInv(d) /\ BankInv(d) /\ d.retired \in Nat
  BY CpuPairAssumption DEF CpuInv, CountInv
<1>1. CASE e.status \in Interrupts
  <2>1. Interrupted(e, d)
    BY <1>1, StepTyped
  <2>2. NextSaved(d, e, w) = [phase |-> "in", ctx |-> Context(d)]
    BY <1>1 DEF NextSaved
  <2> QED
    BY <1>0, <2>1, <2>2, EntrySaves DEF Interrupted
<1>2. CASE e.status = "Budget"
  <2>1. Keeps(e, d, {"status"})
    BY <1>2, StepTyped
  <2>2. NextSaved(d, e, w) = saved
    BY <1>2 DEF NextSaved, Interrupts
  <2>3. {"status"} \cap {"el", "ps", "sp", "spEl", "spsr", "elr"} = {}
    OBVIOUS
  <2> QED
    BY <1>0, <2>1, <2>2, <2>3, SavedKept
<1>3. CASE e.status \notin Interrupts \cup {"Budget"} /\ Executes(d, e)
           /\ saved.phase = "in" /\ w.op \in {"eret", "nop"}
  <2>1. PICK x : x = R!ExecuteOne(d, w)
    OBVIOUS
  <2>2. x.how \in Ran /\ IsCore(x.core) /\ Completed(e, x, w)
    BY <1>0, <1>3, <2>1, StepOutcome
  <2>3. Keeps(e, x.core, Retired \cup {"status"})
    BY <2>2, CompletedKeeps
  <2>4. /\ (Retired \cup {"status"}) \cap {"el", "ps", "sp", "spEl", "spsr", "elr"} = {}
        /\ "pc" \notin Retired \cup {"status"}
    BY DEF Retired
  <2>5. d.el # 0
    BY <1>3 DEF SavedInv, InHandler, Bank
  <2>6. CASE w.op = "eret"
    <3>1. x = R!Eret(d)
      BY <2>1, <2>5, <2>6 DEF R!ExecuteOne, R!Privileged, R!Immediate, R!Exclusive, R!Device
    <3>2. PICK v : v = [saved EXCEPT !.phase = "back"]
      OBVIOUS
    <3>3. NextSaved(d, e, w) = v
      BY <1>3, <2>6, <3>2 DEF NextSaved
    <3>4. SavedInv(x.core, v)
      BY <1>0, <1>3, <2>2, <3>1, <3>2, ReturnRestores
    <3> QED
      BY <2>2, <2>3, <2>4, <3>3, <3>4, SavedKept
  <2>7. CASE w.op = "nop"
    <3>1. x = R!Next4(d)
      BY <2>1, <2>5, <2>7 DEF R!ExecuteOne, R!Privileged, R!Immediate, R!Exclusive, R!Device
    <3>2. NextSaved(d, e, w) = saved
      BY <1>3, <2>7 DEF NextSaved
    <3>3. Keeps(x.core, d, {"pc"}) /\ {"pc"} \cap {"el", "ps", "sp", "spEl", "spsr", "elr"} = {}
      BY <3>1, Next4Keeps
    <3>4. SavedInv(x.core, saved)
      BY <1>0, <1>3, <3>3, SavedKept
    <3> QED
      BY <2>2, <2>3, <2>4, <3>2, <3>4, SavedKept
  <2> QED
    BY <1>3, <2>6, <2>7
<1>4. CASE e.status \notin Interrupts \cup {"Budget"}
           /\ ~(Executes(d, e) /\ saved.phase = "in" /\ w.op \in {"eret", "nop"})
  <2>1. NextSaved(d, e, w) = NoContext
    BY <1>4 DEF NextSaved
  <2> QED
    BY <2>1, NothingSaved
<1> QED
  BY <1>1, <1>2, <1>3, <1>4

LEMMA AgainTyped ==
  ASSUME NEW d, CpuInv(d), NEW irq, NEW fiq, NEW e, e = Again(d, irq, fiq)
  PROVE  CpuInv(e) /\ Idle(e) /\ e.status = "run"
<1>0. IsCore(d) /\ LevelInv(d) /\ BankInv(d) /\ CountInv(d) /\ (Idle(d) \/ Waits(d))
  BY DEF CpuInv
<1>1. PICK a : a = [d EXCEPT !.irq = irq, !.fiq = fiq]
  OBVIOUS
<1>2. Keeps(a, d, {"irq", "fiq"}) /\ IsCore(a)
  BY <1>0, <1>1 DEF Keeps, IsCore, Fields
<1>3. {"irq", "fiq"} \cap Level = {} /\ {"irq", "fiq"} \cap Banks = {} /\ {"irq", "fiq"} \cap Pends = {}
      /\ {"irq", "fiq"} \cap {"cnt", "retired"} = {}
  BY DEF Level, Banks, Pends
<1>4. LevelInv(a) /\ BankInv(a) /\ CountInv(a)
  BY <1>0, <1>2, <1>3, LevelKept
<1>5. R!StateValid(a)
  <2>1. /\ a.el = d.el /\ a.ps = d.ps /\ a.target = d.target /\ a.pend = d.pend
        /\ a.lower = d.lower
    BY <1>0, <1>2 DEF Keeps, IsCore, Fields
  <2>2. R!ModeValid(a.el, a.ps)
    BY <1>4, SameLevels DEF LevelInv
  <2>3. CASE Idle(d)
    <3>1. a.target = 0 /\ a.pend = "none" /\ ~a.lower
      BY <2>1, <2>3 DEF Idle
    <3> QED
      BY <2>2, <3>1 DEF R!StateValid
  <2>4. CASE Waits(d)
    <3>1. a.target # 0 /\ a.pend # "none" /\ (a.lower => a.el < a.target)
      BY <2>1, <2>4 DEF Waits, Bank, Kinds, Interrupts
    <3> QED
      BY <2>2, <3>1 DEF R!StateValid
  <2> QED
    BY <1>0, <2>3, <2>4
<1>6. e = [a EXCEPT !.retired = 0, !.pc = 0, !.pend = "none", !.target = 0,
                    !.lower = FALSE, !.vector = 0, !.waiting = FALSE, !.status = "run"]
  BY <1>1, <1>5 DEF Again, R!Rerun
<1>7. /\ e.retired = 0 /\ e.pc = 0 /\ e.pend = "none" /\ e.target = 0 /\ e.lower = FALSE
      /\ e.vector = 0 /\ e.status = "run" /\ e.el = a.el /\ e.ps = a.ps /\ e.spEl = a.spEl
      /\ e.sp = a.sp /\ e.cnt = a.cnt /\ e.spsr = a.spsr /\ e.elr = a.elr /\ e.vbar = a.vbar
      /\ e.esr = a.esr /\ IsCore(e)
  BY <1>2, <1>6 DEF IsCore, Fields
<1>8. Idle(e)
  BY <1>7, Zenon DEF Idle
<1>9. BankInv(e)
  BY <1>4, <1>7, Zenon DEF BankInv
<1>10. 0 \in Nat /\ 0 \in 0..Budget
  BY CpuPairAssumption
<1>11. LevelInv(e)
  BY <1>4, <1>7, <1>10, Zenon DEF LevelInv
<1>12. CountInv(e)
  BY <1>4, <1>7, <1>10, Zenon DEF CountInv
<1> QED
  BY <1>7, <1>8, <1>9, <1>11, <1>12 DEF CpuInv

LEMMA TakePendingTyped ==
  ASSUME NEW d, CpuInv(d), d.status # "run", d.pend # "none", NEW e, e = R!Take(d)
  PROVE  CpuInv(e) /\ Idle(e) /\ SavedInv(e, [phase |-> "in", ctx |-> Context(d)])
<1>0. IsCore(d) /\ LevelInv(d) /\ BankInv(d) /\ CountInv(d) /\ Waits(d) /\ d.status # "Input"
  BY DEF CpuInv, Idle
<1>1. PICK to \in Bank : to = d.target
  BY <1>0 DEF Waits
<1>2. d.pend \in Kinds /\ d.elr[to] = d.pc
  BY <1>0, <1>1 DEF Waits
<1>3. PICK sps : sps = [d.spEl EXCEPT ![SpIndex(d.el, d.ps)] = d.sp]
  OBVIOUS
<1>4. /\ IsCore(e) /\ LevelInv(e) /\ BankInv(e) /\ Idle(e) /\ Keeps(e, d, Taken)
      /\ InHandler(e, to, d.ps, d.pc) /\ e.spEl = sps
  BY <1>0, <1>1, <1>2, <1>3, TakeTyped
<1>5. Taken \cap {"cnt", "retired"} = {} /\ "status" \notin Taken
  BY DEF Taken, Raised, Banked
<1>6. CountInv(e) /\ e.status = d.status
  <2>1. e.status = d.status
    BY <1>0, <1>4, <1>5 DEF Keeps, IsCore, Fields
  <2> QED
    BY <1>0, <1>4, <1>5, <2>1, LevelKept
<1>7. SavedInv(e, [phase |-> "in", ctx |-> Context(d)])
  BY <1>0, <1>3, <1>4, EntrySaves
<1> QED
  BY <1>0, <1>4, <1>6, <1>7 DEF CpuInv

LEMMA SourceTyped ==
  ASSUME NEW d, CpuInv(d), NEW e, Keeps(e, d, {"g"})
  PROVE  CpuInv(e)
<1>0. IsCore(d) /\ LevelInv(d) /\ BankInv(d) /\ CountInv(d) /\ (Idle(d) \/ Waits(d))
  BY DEF CpuInv
<1>1. {"g"} \cap Level = {} /\ {"g"} \cap Banks = {} /\ {"g"} \cap Pends = {}
      /\ {"g"} \cap {"cnt", "retired"} = {}
  BY DEF Level, Banks, Pends
<1>2. IsCore(e) /\ LevelInv(e) /\ BankInv(e) /\ CountInv(e)
  BY <1>0, <1>1, LevelKept, CoreKept
<1>3. /\ e.pend = d.pend /\ e.target = d.target /\ e.lower = d.lower /\ e.el = d.el
      /\ e.elr = d.elr /\ e.pc = d.pc /\ e.status = d.status
  BY <1>0 DEF Keeps, IsCore, Fields
<1>4. Waits(d) => Waits(e)
  BY <1>3, Zenon DEF Waits
<1>5. Idle(d) => Idle(e)
  BY <1>3, Zenon DEF Idle
<1> QED
  BY <1>0, <1>2, <1>3, <1>4, <1>5 DEF CpuInv

LEMMA BootTyped ==
  ASSUME NEW b \in BootState, NEW bus, NEW e, e = Booted(R!Reset(b.el, bus), b)
  PROVE  CpuInv(e) /\ Idle(e)
<1>1. PICK d : d = R!Reset(b.el, bus)
  OBVIOUS
<1>2. IsCore(d) /\ Keeps(e, d, {"ps", "prof", "irq", "fiq", "spEl", "sp", "vbar"}) /\ IsCore(e)
  BY <1>1, BootKeeps, CoreKept
<1>3. b.el \in El /\ b.mask \in SUBSET Bits
  BY DEF BootState
<1>4. PICK zero : zero = R!WithMode([mask |-> {}], 0)
  OBVIOUS
<1>5. zero \in Psr
  BY <1>4 DEF R!WithMode, R!ModeOf, Psr, El
<1>6. /\ d.el = b.el /\ d.pc = 0 /\ d.vector = 0 /\ d.pend = "none" /\ d.target = 0
      /\ d.lower = FALSE /\ d.cnt = 0 /\ d.retired = 0 /\ d.status = "run"
  BY <1>1 DEF R!Reset
<1>7. /\ d.spsr = [l \in Bank |-> zero] /\ d.elr = [l \in Bank |-> 0]
      /\ d.esr = [l \in Bank |-> "none"]
  BY <1>1, <1>4 DEF R!Reset, R!Bank, Bank
<1>8. PICK ps0 : ps0 = d.ps
  OBVIOUS
<1>9. ps0 = [lvl |-> b.el, h |-> IF b.el = 0 THEN 0 ELSE 1, mask |-> {}]
  BY <1>1, <1>8 DEF R!Reset, R!WithMode, R!ModeOf
<1>10. PICK ps : ps = [ps0 EXCEPT !.mask = b.mask]
  OBVIOUS
<1>11. ps \in Psr /\ ModeValid(b.el, ps)
  BY <1>3, <1>9, <1>10 DEF Psr, ModeValid
<1>12. PICK sps : sps = [l \in El |-> 16 * l + 16]
  OBVIOUS
<1>13. PICK vb : vb = [l \in Bank |-> 4096 * l]
  OBVIOUS
<1>14. PICK f : f = [d EXCEPT !.ps = ps, !.prof = b.prof, !.irq = b.irq, !.fiq = b.fiq,
                 !.spEl = sps, !.sp = 16 * b.el + 16, !.vbar = vb]
  OBVIOUS
<1>15. e = f
  BY <1>1, <1>2, <1>8, <1>10, <1>12, <1>13, <1>14 DEF Booted, IsCore, Fields
<1>16. e.ps = ps /\ e.spEl = sps /\ e.sp = 16 * b.el + 16 /\ e.vbar = vb
  BY <1>2, <1>14, <1>15 DEF IsCore, Fields
<1>17. /\ e.el = b.el /\ e.pc = 0 /\ e.vector = 0 /\ e.pend = "none" /\ e.target = 0
       /\ e.lower = FALSE /\ e.cnt = 0 /\ e.retired = 0 /\ e.status = "run"
       /\ e.spsr = d.spsr /\ e.elr = d.elr /\ e.esr = d.esr
  BY <1>2, <1>6 DEF Keeps, IsCore, Fields
<1>18. sps \in [El -> Nat] /\ 16 * b.el + 16 \in Nat /\ vb \in [Bank -> Nat]
  BY <1>3, <1>12, <1>13 DEF El, Bank
<1>19. LevelInv(e)
  BY <1>3, <1>11, <1>16, <1>17, <1>18 DEF LevelInv
<1>20. BankInv(e)
  BY <1>5, <1>7, <1>16, <1>17, <1>18 DEF BankInv
<1>21. Idle(e)
  BY <1>17, Zenon DEF Idle
<1>22. CountInv(e)
  BY <1>17, CpuPairAssumption DEF CountInv
<1> QED
  BY <1>2, <1>17, <1>19, <1>20, <1>21, <1>22 DEF CpuInv

LevelsInv == CpuInv(r) /\ SavedInv(r, saved)

LEMMA InitLevels == Init => LevelsInv
<1> SUFFICES ASSUME Init PROVE LevelsInv
  OBVIOUS
<1>1. PICK b \in Families[fam].boots : r = Booted(R!Reset(b.el, b.bus), b)
  BY DEF Init
<1>2. b \in BootState
  BY CpuPairAssumption DEF Init
<1>3. CpuInv(r)
  BY <1>1, <1>2, BootTyped
<1>4. saved = NoContext
  BY DEF Init
<1> QED
  BY <1>3, <1>4, NothingSaved DEF LevelsInv

LEMMA NextLevels == CoreInv /\ LevelsInv /\ [Next]_vars => LevelsInv'
<1> SUFFICES ASSUME CoreInv, LevelsInv, [Next]_vars PROVE LevelsInv'
  OBVIOUS
<1>0. CpuInv(r) /\ SavedInv(r, saved) /\ IsCore(r)
  BY DEF LevelsInv, CpuInv
<1>1. ASSUME NEW w \in Families[fam].words, Step(w) PROVE LevelsInv'
  <2>1. w \in Word
    BY CpuPairAssumption DEF CoreInv
  <2>2. r.status = "run" /\ r' = R!Step(r, w) /\ saved' = NextSaved(r, r', w)
    BY <1>1 DEF Step
  <2>3. CpuInv(r')
    BY <1>0, <2>1, <2>2, StepTyped
  <2>4. SavedInv(r', saved')
    BY <1>0, <2>1, <2>2, StepSaved
  <2> QED
    BY <2>3, <2>4 DEF LevelsInv
<1>2. ASSUME TakePending PROVE LevelsInv'
  <2>1. /\ r' = R!Take(r) /\ r.status # "run" /\ r.pend # "none"
        /\ saved' = [phase |-> "in", ctx |-> Context(r)]
    BY <1>2 DEF TakePending
  <2>2. CpuInv(r') /\ SavedInv(r', saved')
    BY <1>0, <2>1, TakePendingTyped
  <2> QED
    BY <2>2 DEF LevelsInv
<1>3. ASSUME NEW l \in Families[fam].lines, RunAgain(l[1], l[2]) PROVE LevelsInv'
  <2>1. r' = Again(r, l[1], l[2]) /\ saved' = IF saved.phase = "in" THEN saved ELSE NoContext
    BY <1>3 DEF RunAgain, Again
  <2>2. CpuInv(r')
    BY <1>0, <2>1, AgainTyped
  <2>3. Keeps(r', r, Restarted)
    BY <1>0, <2>1, RerunKeeps
  <2>4. Restarted \cap {"el", "ps", "sp", "spEl", "spsr", "elr"} = {}
    BY DEF Restarted
  <2>5. SavedInv(r', saved')
    <3>1. CASE saved.phase = "in"
      BY <1>0, <2>1, <2>3, <2>4, <3>1, SavedKept
    <3>2. CASE saved.phase # "in"
      BY <2>1, <3>2, NothingSaved
    <3> QED
      BY <3>1, <3>2
  <2> QED
    BY <2>2, <2>5 DEF LevelsInv
<1>4. ASSUME NEW on \in BOOLEAN, SetSource(on) PROVE LevelsInv'
  <2>1. r' = [r EXCEPT !.g.aicO = on] /\ saved' = saved
    BY <1>4 DEF SetSource
  <2>2. Keeps(r', r, {"g"})
    BY <2>1 DEF Keeps
  <2>3. CpuInv(r')
    BY <1>0, <2>2, SourceTyped
  <2>4. SavedInv(r', saved')
    BY <1>0, <2>1, <2>2, SavedKept
  <2> QED
    BY <2>3, <2>4 DEF LevelsInv
<1>5. ASSUME UNCHANGED vars PROVE LevelsInv'
  <2>1. r' = r /\ saved' = saved
    BY <1>5 DEF vars
  <2> QED
    BY <2>1, Zenon DEF LevelsInv
<1> QED
  BY <1>1, <1>2, <1>3, <1>4, <1>5 DEF Next, Ended

(* An exception entry followed by ERET resumes the interrupted program,    *)
(* with its stack pointer unless it ran on SP_EL0 above EL0 (arch.rs,      *)
(* take_pending_exception and the ERET of execute_one).                    *)
THEOREM ReturnResumes == Spec => []RoundTrip
<1>1. LevelsInv => RoundTrip
  BY DEF LevelsInv, SavedInv, RoundTrip
<1> QED
  BY <1>1, InitCore, NextCore, InitLevels, NextLevels, PTL DEF Spec

-----------------------------------------------------------------------------
(* The two cores.  They have the fields of Shared in common; the native    *)
(* counter is behind by what the open block has retired, and the bank of   *)
(* the selected stack pointer is stale on either side.                     *)

Shared == {"el", "ps", "pc", "sp", "spsr", "elr", "esr", "vbar", "pend", "target",
           "lower", "vector", "tim", "prof", "ovI", "ovF", "irq", "fiq",
           "hcr", "m", "ttbr", "tcr", "retired", "status"}

IsNative(x) == DOMAIN x = Shared \cup {"spEl", "cnt", "left", "lag"}

Agree(x, y) == IsNative(x) /\ IsCore(y) /\ \A f \in Shared : x[f] = y[f]

Stacks(x, y) ==
  /\ x.spEl \in [El -> Nat] /\ y.spEl \in [El -> Nat]
  /\ \A l \in El : l # SpIndex(y.el, y.ps) => x.spEl[l] = y.spEl[l]

\* The status bits of the timers tim at the count n.
Shown(tim, n) ==
  [t \in Timer |-> [tim[t] EXCEPT !.is = tim[t].en /\ ~tim[t].im /\ n >= tim[t].cval]]

\* Nothing can interrupt.
Quiet(y) == y.irq = FALSE /\ y.fiq = FALSE /\ \A t \in Timer : y.tim[t].en = FALSE

\* Nothing but what both cores have is in use.
Bare(y) == y.bus = "ram" /\ y.ext = FALSE /\ y.m = FALSE /\ y.mmu.on = FALSE

Alike(x, y) ==
  /\ Agree(x, y) /\ Stacks(x, y) /\ Bare(y)
  /\ y.tim \in [Timer -> TimerRec] /\ y.cnt \in Nat /\ y.tim = Shown(y.tim, y.cnt)
  /\ y.irq \in BOOLEAN /\ y.fiq \in BOOLEAN
  /\ x.cnt \in Nat /\ x.lag \in Nat /\ x.left \in Nat
  /\ x.cnt + x.lag = y.cnt /\ x.left + x.lag <= BlockMax

\* A pending exception is fully recorded on the native side.
Recorded(x, y) ==
  y.pend # "none" =>
    /\ x.spEl[SpIndex(y.el, y.ps)] = y.sp
    /\ y.spsr[y.target] = y.ps /\ y.esr[y.target] = y.pend
    /\ y.pend \notin Interrupts /\ (y.lower <=> y.el = 0)

\* Between two steps: in the middle of a block nothing can interrupt.
Paired(x, y) ==
  /\ Alike(x, y) /\ Recorded(x, y)
  /\ x.left = 0 => x.lag = 0
  /\ x.left > 0 => /\ Quiet(y) /\ y.status = "run"
                   /\ x.left <= Budget - y.retired

PairInv == /\ pair \in BOOLEAN
           /\ IF pair THEN Paired(c, r) ELSE c = Parked

LEMMA AgreeStep ==
  ASSUME NEW x, NEW y, Agree(x, y), NEW F, NEW G, NEW e, Keeps(e, x, F), NEW f, Keeps(f, y, G),
         \A n \in Shared \cap (F \cup G) : e[n] = f[n]
  PROVE  Agree(e, f)
<1>1. IsNative(e) /\ IsCore(f)
  BY DEF Agree, IsNative, IsCore, Keeps
<1>2. ASSUME NEW n \in Shared PROVE e[n] = f[n]
  <2>1. n \in DOMAIN x /\ n \in DOMAIN y
    BY DEF Agree, IsNative, IsCore, Fields, Shared
  <2> QED
    BY <2>1 DEF Agree, Keeps
<1> QED
  BY <1>1, <1>2 DEF Agree

LEMMA StacksKept ==
  ASSUME NEW x, NEW y, Agree(x, y), Stacks(x, y), NEW F, NEW G, NEW e, Keeps(e, x, F), NEW f, Keeps(f, y, G),
         "spEl" \notin F, {"spEl", "el", "ps"} \cap G = {}
  PROVE  Stacks(e, f)
<1>1. e.spEl = x.spEl
  BY DEF Agree, IsNative, Keeps
<1>2. f.spEl = y.spEl /\ f.el = y.el /\ f.ps = y.ps
  BY DEF Agree, IsCore, Fields, Keeps
<1> QED
  BY <1>1, <1>2, Zenon DEF Stacks

LEMMA SharedFields ==
  ASSUME NEW x, NEW y, Agree(x, y)
  PROVE  /\ x.el = y.el /\ x.ps = y.ps /\ x.pc = y.pc /\ x.sp = y.sp /\ x.spsr = y.spsr
         /\ x.elr = y.elr /\ x.esr = y.esr /\ x.vbar = y.vbar /\ x.pend = y.pend
         /\ x.target = y.target /\ x.lower = y.lower /\ x.vector = y.vector
         /\ x.tim = y.tim /\ x.prof = y.prof /\ x.ovI = y.ovI /\ x.ovF = y.ovF
         /\ x.irq = y.irq /\ x.fiq = y.fiq /\ x.hcr = y.hcr /\ x.m = y.m
         /\ x.ttbr = y.ttbr /\ x.tcr = y.tcr /\ x.retired = y.retired /\ x.status = y.status
BY DEF Agree, Shared

LEMMA SameNative ==
  ASSUME NEW el, NEW ps
  PROVE  /\ N!SpIndex(el, ps) = SpIndex(el, ps) /\ N!TargetEl(el) = TargetEl(el)
         /\ N!ModeValid(el, ps) <=> ModeValid(el, ps)
         /\ N!El = El /\ N!Bank = Bank /\ N!Bits = Bits /\ N!Timer = Timer
         /\ N!Kinds = Kinds /\ N!Interrupts = Interrupts
BY DEF N!SpIndex, SpIndex, N!TargetEl, TargetEl, N!ModeValid, ModeValid, N!El, El, N!Bank, Bank,
       N!Bits, Bits, N!Timer, Timer, N!Kinds, Kinds, N!Interrupts, Interrupts

-----------------------------------------------------------------------------
(* The timers of both cores. *)

\* The same programs, whatever the status bits.
SameProgram(p, q) ==
  /\ p \in [Timer -> TimerRec] /\ q \in [Timer -> TimerRec]
  /\ \A t \in Timer : p[t].en = q[t].en /\ p[t].im = q[t].im /\ p[t].cval = q[t].cval

LEMMA ShownTyped ==
  ASSUME NEW p \in [Timer -> TimerRec], NEW n \in Nat
  PROVE  SameProgram(Shown(p, n), p)
<1>1. ASSUME NEW t \in Timer
      PROVE  /\ Shown(p, n)[t] \in TimerRec
             /\ Shown(p, n)[t].en = p[t].en /\ Shown(p, n)[t].im = p[t].im
             /\ Shown(p, n)[t].cval = p[t].cval
  <2>1. PICK b \in BOOLEAN : b = (p[t].en /\ ~p[t].im /\ n >= p[t].cval)
    OBVIOUS
  <2>2. Shown(p, n)[t] = [p[t] EXCEPT !.is = b]
    BY <2>1 DEF Shown
  <2>3. p[t] \in TimerRec
    OBVIOUS
  <2> QED
    BY <2>2, <2>3 DEF TimerRec
<1>2. Shown(p, n) \in [Timer -> TimerRec]
  <2>1. Shown(p, n) = [t \in Timer |-> Shown(p, n)[t]]
    BY DEF Shown
  <2> QED
    BY <1>1, <2>1
<1> QED
  BY <1>1, <1>2 DEF SameProgram

LEMMA ShownSame ==
  ASSUME NEW p, NEW q, SameProgram(p, q), NEW n \in Nat
  PROVE  Shown(p, n) = Shown(q, n)
<1>1. ASSUME NEW t \in Timer PROVE Shown(p, n)[t] = Shown(q, n)[t]
  <2>1. PICK b \in BOOLEAN : b = (p[t].en /\ ~p[t].im /\ n >= p[t].cval)
    OBVIOUS
  <2>2. b = (q[t].en /\ ~q[t].im /\ n >= q[t].cval)
    BY <2>1, Zenon DEF SameProgram
  <2>3. Shown(p, n)[t] = [p[t] EXCEPT !.is = b]
    BY <2>1 DEF Shown
  <2>4. Shown(q, n)[t] = [q[t] EXCEPT !.is = b]
    BY <2>2 DEF Shown
  <2>5. p[t] \in TimerRec /\ q[t] \in TimerRec
    BY DEF SameProgram
  <2>6. p[t].en = q[t].en /\ p[t].im = q[t].im /\ p[t].cval = q[t].cval
    BY DEF SameProgram
  <2> QED
    BY <2>3, <2>4, <2>5, <2>6 DEF TimerRec
<1>2. Shown(p, n) = [t \in Timer |-> Shown(p, n)[t]]
  BY DEF Shown
<1>3. Shown(q, n) = [t \in Timer |-> Shown(q, n)[t]]
  BY DEF Shown
<1> QED
  BY <1>1, <1>2, <1>3

LEMMA ShownAgain ==
  ASSUME NEW p \in [Timer -> TimerRec], NEW n \in Nat, NEW m \in Nat
  PROVE  Shown(Shown(p, n), m) = Shown(p, m)
BY ShownTyped, ShownSame

(* A timer that is not enabled shows nothing at any count.                 *)
LEMMA ShownQuiet ==
  ASSUME NEW p \in [Timer -> TimerRec], NEW n \in Nat, NEW m \in Nat,
         p = Shown(p, n), \A t \in Timer : p[t].en = FALSE
  PROVE  p = Shown(p, m)
<1>1. ASSUME NEW t \in Timer PROVE Shown(p, n)[t] = Shown(p, m)[t]
  BY DEF Shown
<1>2. Shown(p, n) = [t \in Timer |-> Shown(p, n)[t]]
  BY DEF Shown
<1>3. Shown(p, m) = [t \in Timer |-> Shown(p, m)[t]]
  BY DEF Shown
<1> QED
  BY <1>1, <1>2, <1>3

(* update_timer_status, and advance_counter of either core (arch.c,        *)
(* arch.rs).                                                               *)
LEMMA UpdateShows ==
  ASSUME NEW x, IsNative(x), NEW e, e = N!UpdateTimers(x)
  PROVE  Keeps(e, x, {"tim"}) /\ e.tim = Shown(x.tim, x.cnt)
<1>1. PICK T : T = [t \in Timer |-> [x.tim[t] EXCEPT !.is = N!Fires(x, t)]]
  OBVIOUS
<1>2. e = [x EXCEPT !.tim = T]
  BY <1>1 DEF N!UpdateTimers, N!Timer, Timer
<1>3. T = Shown(x.tim, x.cnt)
  BY <1>1, Zenon DEF Shown, N!Fires
<1> QED
  BY <1>2, <1>3 DEF Keeps, IsNative

LEMMA NativeAdvance ==
  ASSUME NEW x, IsNative(x), NEW k, NEW e, e = N!Advance(x, k)
  PROVE  Keeps(e, x, {"tim", "cnt"}) /\ e.cnt = x.cnt + k /\ e.tim = Shown(x.tim, x.cnt + k)
<1>1. PICK a : a = [x EXCEPT !.cnt = @ + k]
  OBVIOUS
<1>2. a.cnt = x.cnt + k /\ a.tim = x.tim /\ IsNative(a) /\ Keeps(a, x, {"cnt"})
  BY <1>1 DEF IsNative, Keeps
<1>3. e = N!UpdateTimers(a)
  BY <1>1 DEF N!Advance
<1>4. Keeps(e, a, {"tim"}) /\ e.tim = Shown(a.tim, a.cnt)
  BY <1>2, <1>3, UpdateShows
<1>5. e.cnt = a.cnt
  BY <1>2, <1>4 DEF Keeps, IsNative
<1> QED
  BY <1>2, <1>4, <1>5 DEF Keeps

LEMMA ReferenceAdvance ==
  ASSUME NEW y, IsCore(y), NEW f, f = R!AdvanceCounter(y)
  PROVE  Keeps(f, y, {"cnt", "tim"}) /\ f.cnt = y.cnt + 1 /\ f.tim = Shown(y.tim, y.cnt + 1)
<1>1. PICK a : a = [y EXCEPT !.cnt = @ + 1]
  OBVIOUS
<1>2. a.cnt = y.cnt + 1 /\ a.tim = y.tim /\ IsCore(a)
  BY <1>1 DEF IsCore, Fields
<1>3. PICK T : T = [t \in Timer |-> [a.tim[t] EXCEPT !.is = R!Pending(a, t)]]
  OBVIOUS
<1>4. f = [a EXCEPT !.tim = T]
  BY <1>1, <1>3 DEF R!AdvanceCounter, R!Timer, Timer
<1>5. T = Shown(a.tim, a.cnt)
  BY <1>3, Zenon DEF Shown, R!Pending
<1>6. f.tim = T /\ f.cnt = a.cnt
  BY <1>2, <1>4 DEF IsCore, Fields
<1> QED
  BY <1>2, <1>5, <1>6, AdvanceKeeps

-----------------------------------------------------------------------------
(* Exceptions of both cores. *)

Put(bank, l, value) == [bank EXCEPT ![l] = value]
Syndrome(kind, old) == IF kind \in Interrupts THEN old ELSE kind

(* The native core saves the stack pointer when it records the exception,  *)
(* the reference core when it enters it (arch.c, vf_cpu_raise; arch.rs).   *)
LEMMA NativeRaise ==
  ASSUME NEW x, IsNative(x), NEW y, Agree(x, y), Stacks(x, y), LevelInv(y), BankInv(y), Idle(y),
         NEW kind \in Kinds, NEW e, e = N!Raise(x, kind), NEW to, to = TargetEl(y.el),
         NEW i, i = SpIndex(y.el, y.ps)
  PROVE  /\ Keeps(e, x, Raised \cup {"spEl"})
         /\ e.spEl = Put(x.spEl, i, y.sp)
         /\ e.spsr = Put(y.spsr, to, y.ps) /\ e.elr = Put(y.elr, to, y.pc)
         /\ e.esr = Put(y.esr, to, Syndrome(kind, y.esr[to])) /\ e.pend = kind /\ e.target = to
         /\ e.lower \in BOOLEAN /\ (e.lower <=> y.el < to)
<1>1. N!StateValid(x) /\ x.pend = "none"
  <2>1. N!ModeValid(x.el, x.ps)
    BY SharedFields, SameNative DEF LevelInv
  <2>2. x.pend = "none" /\ x.target = 0
    BY SharedFields DEF Idle
  <2>3. 0 \in N!El
    BY DEF N!El
  <2> QED
    BY <2>1, <2>2, <2>3 DEF N!StateValid
<1>2. N!TargetEl(x.el) = to /\ N!SpIndex(x.el, x.ps) = i
  BY SharedFields, SameNative
<1>3. e = [x EXCEPT !.spEl[i] = x.sp, !.pend = kind, !.target = to, !.lower = x.el < to,
                    !.spsr[to] = x.ps, !.elr[to] = x.pc,
                    !.esr[to] = IF kind \in N!Interrupts THEN @ ELSE kind]
  BY <1>1, <1>2, Zenon DEF N!Raise
<1>4. Keeps(e, x, Raised \cup {"spEl"})
  BY <1>3 DEF Keeps, Raised, Banked
<1>5. e.spEl = Put(x.spEl, i, x.sp) /\ e.spsr = Put(x.spsr, to, x.ps)
      /\ e.elr = Put(x.elr, to, x.pc)
  BY <1>3 DEF IsNative, Shared, Put
<1>6. e.esr = Put(x.esr, to, Syndrome(kind, x.esr[to]))
  <2>1. N!Interrupts = Interrupts
    BY SameNative
  <2> QED
    BY <1>3, <2>1 DEF IsNative, Shared, Put, Syndrome
<1>7. e.pend = kind /\ e.target = to
  BY <1>3 DEF IsNative, Shared
<1>8. e.lower \in BOOLEAN /\ (e.lower <=> x.el < to)
  <2>1. PICK el \in Int : el = x.el
    BY SharedFields DEF LevelInv, El
  <2>2. to \in Int
    BY DEF TargetEl, LevelInv, El
  <2>3. e.lower \in BOOLEAN
    BY <1>3, <2>1, <2>2 DEF IsNative, Shared
  <2>4. e.lower <=> el < to
    BY <1>3, <2>1, <2>2 DEF IsNative, Shared
  <2> QED
    BY <2>1, <2>3, <2>4
<1>10. /\ x.sp = y.sp /\ x.ps = y.ps /\ x.pc = y.pc /\ x.el = y.el
       /\ x.spsr = y.spsr /\ x.elr = y.elr /\ x.esr = y.esr
  BY SharedFields
<1> QED
  BY <1>4, <1>5, <1>6, <1>7, <1>8, <1>10, Zenon

LEMMA ReferenceRaise ==
  ASSUME NEW y, IsCore(y), LevelInv(y), BankInv(y), Idle(y),
         NEW kind \in Kinds, NEW f, f = R!Raise(y, kind), NEW to, to = TargetEl(y.el)
  PROVE  /\ Keeps(f, y, Raised)
         /\ f.spsr = Put(y.spsr, to, y.ps) /\ f.elr = Put(y.elr, to, y.pc)
         /\ f.esr = Put(y.esr, to, Syndrome(kind, y.esr[to])) /\ f.pend = kind /\ f.target = to
         /\ f.lower \in BOOLEAN /\ (f.lower <=> y.el # to)
<1>1. R!TargetEl(y.el) = to /\ R!Interrupts = Interrupts
  BY SameLevels, SameKinds
<1>2. PICK b : b = R!WriteBank(y, to, kind, y.pc)
  OBVIOUS
<1>3. b = [y EXCEPT !.spsr[to] = y.ps, !.elr[to] = y.pc,
                    !.esr[to] = IF kind \in Interrupts THEN @ ELSE kind]
  BY <1>1, <1>2, Zenon DEF R!WriteBank
<1>4. f = [b EXCEPT !.pend = kind, !.target = to, !.lower = (y.el # to)]
  BY <1>1, <1>2, Zenon DEF R!Raise, Idle
<1>5. b.spsr = Put(y.spsr, to, y.ps) /\ b.elr = Put(y.elr, to, y.pc)
  BY <1>3 DEF IsCore, Fields, Put
<1>6. b.esr = Put(y.esr, to, Syndrome(kind, y.esr[to]))
  BY <1>3 DEF IsCore, Fields, Put, Syndrome
<1>7. IsCore(b)
  BY <1>3 DEF IsCore
<1>8. f.spsr = b.spsr /\ f.elr = b.elr /\ f.esr = b.esr /\ f.pend = kind /\ f.target = to
  BY <1>4, <1>7 DEF IsCore, Fields
<1>9. f.lower \in BOOLEAN /\ (f.lower <=> y.el # to)
  BY <1>4, <1>7 DEF IsCore, Fields
<1> QED
  BY <1>5, <1>6, <1>8, <1>9, RaiseKeeps, Zenon

LEMMA RaiseAgree ==
  ASSUME NEW x, NEW y, Agree(x, y), Stacks(x, y), LevelInv(y), BankInv(y), Idle(y),
         NEW kind \in Kinds, NEW e, e = N!Raise(x, kind), NEW f, f = R!Raise(y, kind)
  PROVE  /\ Agree(e, f) /\ Stacks(e, f)
         /\ Keeps(e, x, Raised \cup {"spEl"}) /\ Keeps(f, y, Raised)
         /\ e.spEl[SpIndex(f.el, f.ps)] = f.sp
         /\ f.spsr[f.target] = f.ps /\ f.pend = kind /\ f.target \in Bank
         /\ kind \notin Interrupts => f.esr[f.target] = kind
         /\ (f.lower <=> f.el = 0)
<1>0. IsNative(x) /\ IsCore(y)
  BY DEF Agree
<1>1. PICK to \in Bank : to = TargetEl(y.el) /\ (y.el < to <=> y.el # to) /\ (y.el = 0 <=> y.el # to)
  BY DEF LevelInv, TargetEl, El, Bank
<1>2. PICK i \in El : i = SpIndex(y.el, y.ps)
  BY LevelRange DEF LevelInv
<1>6. /\ Keeps(e, x, Raised \cup {"spEl"})
      /\ e.spEl = Put(x.spEl, i, y.sp)
      /\ e.spsr = Put(y.spsr, to, y.ps) /\ e.elr = Put(y.elr, to, y.pc)
      /\ e.esr = Put(y.esr, to, Syndrome(kind, y.esr[to])) /\ e.pend = kind /\ e.target = to
      /\ e.lower \in BOOLEAN /\ (e.lower <=> y.el < to)
  BY <1>0, <1>1, <1>2, NativeRaise
<1>7. /\ Keeps(f, y, Raised)
      /\ f.spsr = Put(y.spsr, to, y.ps) /\ f.elr = Put(y.elr, to, y.pc)
      /\ f.esr = Put(y.esr, to, Syndrome(kind, y.esr[to])) /\ f.pend = kind /\ f.target = to
      /\ f.lower \in BOOLEAN /\ (f.lower <=> y.el # to)
  BY <1>0, <1>1, ReferenceRaise
<1>8. Agree(e, f)
  <2>1. ASSUME NEW n \in Shared \cap ((Raised \cup {"spEl"}) \cup Raised) PROVE e[n] = f[n]
    <3>1. e.lower = f.lower
      BY <1>1, <1>6, <1>7
    <3> QED
      BY <1>6, <1>7, <3>1 DEF Raised, Banked, Shared
  <2> QED
    BY <1>6, <1>7, <2>1, AgreeStep
<1>9. f.spEl = y.spEl /\ f.el = y.el /\ f.ps = y.ps /\ f.sp = y.sp
  BY <1>0, <1>7 DEF Keeps, Raised, Banked, IsCore, Fields
<1>10. y.sp \in Nat /\ x.spEl \in [El -> Nat]
  BY DEF LevelInv, Stacks
<1>11. e.spEl \in [El -> Nat] /\ e.spEl[i] = y.sp /\ \A l \in El : l # i => e.spEl[l] = x.spEl[l]
  BY <1>2, <1>6, <1>10 DEF Put
<1>12. Stacks(e, f)
  BY <1>2, <1>9, <1>11 DEF Stacks
<1>13. f.spsr[to] = y.ps
  BY <1>7 DEF BankInv, Put
<1>15. f.lower <=> y.el = 0
  BY <1>1, <1>7
<1>14. kind \notin Interrupts => f.esr[to] = kind
  BY <1>7 DEF BankInv, Put, Syndrome
<1> QED
  BY <1>2, <1>6, <1>7, <1>8, <1>9, <1>11, <1>12, <1>13, <1>14, <1>15

LEMMA SameOffset ==
  ASSUME NEW x, NEW y, Agree(x, y), y.spsr[y.target] = y.ps, y.lower <=> y.el = 0
  PROVE  N!VectorOffset(x) = R!Offset(y.pend, y.el, y.ps)
<1>1. x.lower = y.lower /\ x.spsr = y.spsr /\ x.target = y.target /\ x.pend = y.pend
  BY SharedFields
<1>2. x.spsr[x.target].h = y.ps.h
  BY <1>1
<1>3. PICK p : p = IF y.el = 0 THEN 1024 ELSE IF y.ps.h = 1 THEN 512 ELSE 0
  OBVIOUS
<1>4. p = IF x.lower THEN 1024 ELSE IF x.spsr[x.target].h = 1 THEN 512 ELSE 0
  BY <1>1, <1>2, <1>3
<1>5. PICK o : o = CASE y.pend \in {"TimerInterrupt", "ExternalInterrupt"} -> 128
                      [] y.pend = "FiqInterrupt" -> 256
                      [] OTHER -> 0
  OBVIOUS
<1>6. R!Offset(y.pend, y.el, y.ps) = p + o
  BY <1>3, <1>5 DEF R!Offset
<1>7. N!VectorOffset(x) = p + o
  BY <1>1, <1>4, <1>5 DEF N!VectorOffset
<1> QED
  BY <1>6, <1>7

(* What the reference core writes on entry the native core has recorded.   *)
LEMMA TakeAgree ==
  ASSUME NEW x, NEW y, Agree(x, y), Stacks(x, y), LevelInv(y), BankInv(y),
         NEW to \in Bank, y.target = to, y.pend \in Kinds,
         x.spEl[SpIndex(y.el, y.ps)] = y.sp, y.spsr[to] = y.ps, y.lower <=> y.el = 0,
         y.pend \notin Interrupts => y.esr[to] = y.pend,
         NEW e, e = N!Take(x), NEW f, f = R!Take(y)
  PROVE  /\ Agree(e, f) /\ Stacks(e, f)
         /\ Keeps(e, x, Taken) /\ Keeps(f, y, Taken) /\ f.pend = "none"
<1>0. IsNative(x) /\ IsCore(y)
  BY DEF Agree
<1>1. PICK i \in El : i = SpIndex(y.el, y.ps)
  BY LevelRange DEF LevelInv
<1>2. PICK s : s = R!SaveSp(y)
  OBVIOUS
<1>3. /\ IsCore(s) /\ Keeps(s, y, {"spEl"}) /\ s.spEl = Put(y.spEl, i, y.sp)
  BY <1>0, <1>1, <1>2, SaveSpTyped DEF Put
<1>4. /\ s.ps = y.ps /\ s.spsr = y.spsr /\ s.elr = y.elr /\ s.esr = y.esr
  BY <1>0, <1>3 DEF Keeps, IsCore, Fields
<1>5. PICK b : b = R!WriteBank(s, to, y.pend, y.elr[to])
  OBVIOUS
<1>6. b = [s EXCEPT !.spsr[to] = s.ps, !.elr[to] = y.elr[to],
                    !.esr[to] = IF y.pend \in Interrupts THEN @ ELSE y.pend]
  BY <1>5, SameKinds, Zenon DEF R!WriteBank
<1>7. /\ b.spsr = Put(y.spsr, to, y.ps) /\ b.elr = Put(y.elr, to, y.elr[to])
      /\ b.esr = Put(y.esr, to, Syndrome(y.pend, y.esr[to]))
  <2>1. b.spsr = Put(s.spsr, to, s.ps) /\ b.elr = Put(s.elr, to, y.elr[to])
    BY <1>3, <1>6 DEF IsCore, Fields, Put
  <2>2. b.esr = Put(s.esr, to, Syndrome(y.pend, s.esr[to]))
    BY <1>3, <1>6 DEF IsCore, Fields, Put, Syndrome
  <2> QED
    BY <1>4, <2>1, <2>2, Zenon
<1>8. Syndrome(y.pend, y.esr[to]) = y.esr[to]
  BY DEF Syndrome
<1>9. b.spsr = y.spsr /\ b.elr = y.elr /\ b.esr = y.esr
  <2>1. Put(y.spsr, to, y.ps) = y.spsr
    BY DEF BankInv, Put
  <2>2. Put(y.elr, to, y.elr[to]) = y.elr
    BY DEF BankInv, Put
  <2>3. Put(y.esr, to, Syndrome(y.pend, y.esr[to])) = y.esr
    BY <1>8 DEF BankInv, Put
  <2> QED
    BY <1>7, <2>1, <2>2, <2>3
<1>10. IsCore(b) /\ Keeps(b, s, Banked)
  BY <1>3, <1>6 DEF Keeps, Banked, IsCore
<1>11. b.spEl = Put(y.spEl, i, y.sp) /\ b.ps = y.ps
  BY <1>3, <1>4, <1>10 DEF Keeps, Banked, IsCore, Fields
<1>12. b.spEl = x.spEl
  <2>1. x.spEl \in [El -> Nat] /\ y.spEl \in [El -> Nat] /\ x.spEl[i] = y.sp
        /\ \A l \in El : l # i => x.spEl[l] = y.spEl[l]
    BY <1>1 DEF Stacks
  <2> QED
    BY <1>11, <2>1 DEF Put
<1>13. PICK at : at = y.vbar[to] + R!Offset(y.pend, y.el, y.ps)
  OBVIOUS
<1>14. PICK ps : ps = [R!WithMode(y.ps, to) EXCEPT !.mask = R!Bits]
  OBVIOUS
<1>15. ps = [lvl |-> to, h |-> 1, mask |-> Bits]
  BY <1>14, SameLevels DEF R!WithMode, R!ModeOf, Bank
<1>16. f = [b EXCEPT !.el = to, !.ps = ps, !.sp = b.spEl[to], !.pc = at, !.vector = at,
                     !.pend = "none", !.target = 0, !.lower = FALSE]
  BY <1>2, <1>5, <1>11, <1>13, <1>14 DEF R!Take, R!Enter
<1>17. /\ f.el = to /\ f.ps = ps /\ f.sp = b.spEl[to] /\ f.pc = at /\ f.vector = at
       /\ f.pend = "none" /\ f.target = 0 /\ f.lower = FALSE
       /\ f.spEl = b.spEl /\ f.spsr = b.spsr /\ f.elr = b.elr /\ f.esr = b.esr
  BY <1>10, <1>16 DEF IsCore, Fields
<1>18. /\ x.target = to /\ x.vbar = y.vbar /\ x.spsr = y.spsr /\ x.elr = y.elr /\ x.esr = y.esr
  BY SharedFields
<1>19. at = x.vbar[to] + N!VectorOffset(x)
  BY <1>13, <1>18, SameOffset
<1>20. PICK q : q = [N!WithMode(x.spsr[to], to) EXCEPT !.mask = N!Bits]
  OBVIOUS
<1>21. q = [lvl |-> to, h |-> 1, mask |-> Bits]
  BY <1>20, SameNative DEF N!WithMode, N!ModeOf, Bank
<1>22. e = [x EXCEPT !.el = to, !.ps = q, !.sp = x.spEl[to], !.pc = at, !.vector = at,
                     !.pend = "none", !.target = 0, !.lower = FALSE]
  BY <1>18, <1>19, <1>20 DEF N!Take
<1>23. /\ e.el = to /\ e.ps = q /\ e.sp = x.spEl[to] /\ e.pc = at /\ e.vector = at
       /\ e.pend = "none" /\ e.target = 0 /\ e.lower = FALSE
       /\ e.spEl = x.spEl /\ e.spsr = x.spsr /\ e.elr = x.elr /\ e.esr = x.esr
  BY <1>0, <1>22 DEF IsNative, Shared
<1>24. Keeps(e, x, Taken)
  BY <1>22 DEF Keeps, Taken, Raised
<1>25. Keeps(f, y, Taken)
  BY TakeKeeps
<1>26. Agree(e, f)
  <2>1. ASSUME NEW n \in Shared \cap (Taken \cup Taken) PROVE e[n] = f[n]
    <3>1. /\ e.el = f.el /\ e.ps = f.ps /\ e.sp = f.sp /\ e.pc = f.pc /\ e.vector = f.vector
          /\ e.pend = f.pend /\ e.target = f.target /\ e.lower = f.lower
      BY <1>12, <1>15, <1>17, <1>21, <1>23, Zenon
    <3>2. e.spsr = f.spsr /\ e.elr = f.elr /\ e.esr = f.esr
      BY <1>9, <1>17, <1>18, <1>23, Zenon
    <3> QED
      BY <3>1, <3>2 DEF Taken, Raised, Banked, Shared
  <2> QED
    BY <1>24, <1>25, <2>1, AgreeStep
<1>27. Stacks(e, f)
  <2>1. x.spEl \in [El -> Nat]
    BY DEF Stacks
  <2> QED
    BY <1>12, <1>17, <1>23, <2>1 DEF Stacks
<1> QED
  BY <1>17, <1>24, <1>25, <1>26, <1>27

(* An exception left pending by both cores.                                *)
Halts(y, kind) == [R!Raise(y, kind) EXCEPT !.status = kind]

LEMMA CommitAgree ==
  ASSUME NEW x, NEW y, Agree(x, y), Stacks(x, y), LevelInv(y), BankInv(y), Idle(y),
         NEW kind \in Kinds, kind \notin Interrupts,
         NEW e, e = N!Commit(x, kind), NEW f, f = Halts(y, kind)
  PROVE  /\ Agree(e, f) /\ Stacks(e, f) /\ Recorded(e, f)
         /\ Keeps(e, x, Polled) /\ Keeps(f, y, Polled) /\ f.ext = y.ext
<1>1. PICK a : a = N!Raise(x, kind)
  OBVIOUS
<1>2. PICK b : b = R!Raise(y, kind)
  OBVIOUS
<1>3. /\ Agree(a, b) /\ Stacks(a, b)
      /\ Keeps(a, x, Raised \cup {"spEl"}) /\ Keeps(b, y, Raised)
      /\ a.spEl[SpIndex(b.el, b.ps)] = b.sp
      /\ b.spsr[b.target] = b.ps /\ b.pend = kind /\ b.target \in Bank
      /\ kind \notin Interrupts => b.esr[b.target] = kind
      /\ (b.lower <=> b.el = 0)
  BY <1>1, <1>2, RaiseAgree
<1>4. IsNative(a) /\ IsCore(b) /\ IsCore(y)
  BY <1>3 DEF Agree
<1>5. e = [a EXCEPT !.status = kind] /\ f = [b EXCEPT !.status = kind]
  BY <1>1, <1>2 DEF N!Commit, Halts
<1>6. Keeps(e, a, {"status"}) /\ Keeps(f, b, {"status"})
  BY <1>5 DEF Keeps
<1>7. e.status = kind /\ f.status = kind
  BY <1>4, <1>5 DEF IsNative, Shared, IsCore, Fields
<1>8. Agree(e, f)
  <2>1. \A n \in Shared \cap ({"status"} \cup {"status"}) : e[n] = f[n]
    BY <1>7
  <2>2. Agree(a, b) /\ Keeps(e, a, {"status"}) /\ Keeps(f, b, {"status"})
    BY <1>3, <1>6
  <2> QED
    BY <2>1, <2>2, AgreeStep
<1>9. Stacks(e, f)
  BY <1>3, <1>6, StacksKept
<1>10. e.spEl = a.spEl
  BY <1>4, <1>6 DEF Keeps, IsNative
<1>11. /\ f.el = b.el /\ f.ps = b.ps /\ f.sp = b.sp /\ f.spsr = b.spsr /\ f.target = b.target
       /\ f.pend = b.pend /\ f.esr = b.esr /\ f.lower = b.lower
  BY <1>4, <1>6 DEF Keeps, IsCore, Fields
<1>12. Recorded(e, f)
  BY <1>3, <1>10, <1>11 DEF Recorded
<1>13. Keeps(e, x, Polled) /\ Keeps(f, y, Polled)
  BY <1>3, <1>6 DEF Keeps, Polled, Taken, Raised
<1>14. f.ext = y.ext
  BY <1>3, <1>4, <1>6 DEF Keeps, Raised, Banked, IsCore, Fields
<1> QED
  BY <1>8, <1>9, <1>12, <1>13, <1>14

LEMMA StopsPaired ==
  ASSUME NEW x, NEW y, Alike(x, y), x.left = 0, x.lag = 0,
         NEW e, NEW f, Agree(e, f), Stacks(e, f), Recorded(e, f),
         Keeps(e, x, Polled), Keeps(f, y, Polled), f.ext = FALSE
  PROVE  Paired(e, f)
<1>0. IsNative(x) /\ IsCore(y)
  BY DEF Alike, Agree
<1>1. e.left = x.left /\ e.lag = x.lag /\ e.cnt = x.cnt
  BY <1>0 DEF Keeps, Polled, Taken, Raised, Banked, IsNative, Shared
<1>2. /\ f.cnt = y.cnt /\ f.tim = y.tim /\ f.bus = y.bus /\ f.m = y.m /\ f.mmu = y.mmu
      /\ f.irq = y.irq /\ f.fiq = y.fiq
  BY <1>0 DEF Keeps, Polled, Taken, Raised, Banked, IsCore, Fields
<1>3. Bare(f)
  BY <1>2 DEF Alike, Bare
<1>4. f.tim \in [Timer -> TimerRec] /\ f.cnt \in Nat /\ f.tim = Shown(f.tim, f.cnt)
      /\ f.irq \in BOOLEAN /\ f.fiq \in BOOLEAN
  BY <1>2, Zenon DEF Alike
<1>5. e.cnt \in Nat /\ e.lag = 0 /\ e.left = 0 /\ e.cnt + e.lag = f.cnt
      /\ e.left + e.lag <= BlockMax
  BY <1>1, <1>2, CpuPairAssumption DEF Alike
<1> QED
  BY <1>3, <1>4, <1>5 DEF Paired, Alike

LEMMA ShownPending ==
  ASSUME NEW y, y.tim \in [Timer -> TimerRec], y.tim = Shown(y.tim, y.cnt), NEW t \in Timer
  PROVE  y.tim[t].is <=> R!Pending(y, t)
<1>1. PICK p : p = y.tim
  OBVIOUS
<1>2. PICK n : n = y.cnt
  OBVIOUS
<1>3. p[t] = [p[t] EXCEPT !.is = p[t].en /\ ~p[t].im /\ n >= p[t].cval]
  <2>1. p = Shown(p, n)
    BY <1>1, <1>2
  <2>2. Shown(p, n)[t] = [p[t] EXCEPT !.is = p[t].en /\ ~p[t].im /\ n >= p[t].cval]
    BY DEF Shown
  <2> QED
    BY <2>1, <2>2, Zenon
<1>4. p[t] \in TimerRec
  BY <1>1
<1>5. p[t].is <=> p[t].en /\ ~p[t].im /\ n >= p[t].cval
  BY <1>3, <1>4 DEF TimerRec
<1> QED
  BY <1>1, <1>2, <1>5, Zenon DEF R!Pending

WithStatus(x, s) == [x EXCEPT !.status = s]

LEMMA StatusAgree ==
  ASSUME NEW x, NEW y, Agree(x, y), Stacks(x, y), NEW s,
         NEW e, e = WithStatus(x, s), NEW f, f = WithStatus(y, s)
  PROVE  /\ Agree(e, f) /\ Stacks(e, f) /\ Keeps(e, x, {"status"}) /\ Keeps(f, y, {"status"})
         /\ e.status = s /\ f.status = s
<1>1. IsNative(x) /\ IsCore(y)
  BY DEF Agree
<1>2. Keeps(e, x, {"status"}) /\ Keeps(f, y, {"status"})
  BY DEF WithStatus, Keeps
<1>3. e.status = s /\ f.status = s
  BY <1>1 DEF WithStatus, IsNative, Shared, IsCore, Fields
<1>4. \A n \in Shared \cap ({"status"} \cup {"status"}) : e[n] = f[n]
  BY <1>3
<1>5. Agree(e, f)
  BY <1>2, <1>4, AgreeStep
<1>6. Stacks(e, f)
  BY <1>2, StacksKept
<1> QED
  BY <1>2, <1>3, <1>5, <1>6

(* An interrupt both cores take at once.                                   *)
LEMMA InterruptAgree ==
  ASSUME NEW x, NEW y, Agree(x, y), Stacks(x, y), IsCore(y), LevelInv(y), BankInv(y), Idle(y),
         NEW kind \in Kinds, kind \in Interrupts,
         NEW a, a = N!Raise(x, kind), NEW b, b = R!Raise(y, kind),
         NEW e, e = WithStatus(N!Take(a), kind), NEW f, f = WithStatus(R!Take(b), kind)
  PROVE  /\ Agree(e, f) /\ Stacks(e, f) /\ f.pend = "none" /\ f.status = kind
         /\ Keeps(e, x, Polled) /\ Keeps(f, y, Polled) /\ f.ext = y.ext
<1>3. /\ Agree(a, b) /\ Stacks(a, b)
      /\ Keeps(a, x, Raised \cup {"spEl"}) /\ Keeps(b, y, Raised)
      /\ a.spEl[SpIndex(b.el, b.ps)] = b.sp
      /\ b.spsr[b.target] = b.ps /\ b.pend = kind /\ b.target \in Bank
      /\ (b.lower <=> b.el = 0)
  BY RaiseAgree
<1>4. LevelInv(b) /\ BankInv(b)
  BY RaiseTyped
<1>5. PICK to \in Bank : to = b.target
  BY <1>3
<1>6. PICK h : h = N!Take(a)
  OBVIOUS
<1>7. PICK t : t = R!Take(b)
  OBVIOUS
<1>8. /\ b.spsr[to] = b.ps /\ b.pend \in Kinds /\ (b.pend \notin Interrupts => b.esr[to] = b.pend)
      /\ b.target = to
  BY <1>3, <1>5
<1>9. /\ Agree(h, t) /\ Stacks(h, t)
      /\ Keeps(h, a, Taken) /\ Keeps(t, b, Taken) /\ t.pend = "none"
  BY <1>3, <1>4, <1>6, <1>7, <1>8, TakeAgree
<1>10. e = WithStatus(h, kind) /\ f = WithStatus(t, kind)
  BY <1>6, <1>7
<1>11. /\ Agree(e, f) /\ Stacks(e, f) /\ Keeps(e, h, {"status"}) /\ Keeps(f, t, {"status"})
       /\ f.status = kind
  BY <1>9, <1>10, StatusAgree
<1>12. IsCore(t) /\ IsCore(b)
  BY <1>3, <1>9 DEF Agree
<1>13. f.pend = "none"
  BY <1>9, <1>11, <1>12 DEF Keeps, IsCore, Fields
<1>14. f.ext = y.ext
  BY <1>3, <1>9, <1>11, <1>12 DEF Keeps, IsCore, Fields, Taken, Raised, Banked
<1>15. Keeps(e, x, Polled) /\ Keeps(f, y, Polled)
  BY <1>3, <1>9, <1>11 DEF Keeps, Polled, Taken, Raised
<1> QED
  BY <1>11, <1>13, <1>14, <1>15

(* vf_cpu_poll_interrupt and poll_interrupt, between blocks.               *)
LEMMA SameEligible ==
  ASSUME NEW x, NEW y, Agree(x, y), y.ext = FALSE,
         N!TimerPending(x) <=> \E t \in R!Timer : R!Pending(y, t)
  PROVE  N!Eligible(x) = R!Eligible(y)
<1>1. /\ x.prof = y.prof /\ x.ovI = y.ovI /\ x.ovF = y.ovF /\ x.fiq = y.fiq /\ x.irq = y.irq
      /\ x.ps = y.ps
  BY SharedFields
<1>2. PICK p : p = IF y.prof = 1 THEN y.ovF ELSE 0
  OBVIOUS
<1>3. PICK q : q = IF y.prof = 1 THEN y.ovI ELSE 0
  OBVIOUS
<1>4. N!Eligible(x) = IF y.fiq /\ "F" \notin y.ps.mask /\ p # 2 THEN "FiqInterrupt"
       ELSE IF "I" \in y.ps.mask \/ q = 2 THEN "none"
       ELSE IF N!TimerPending(x) THEN "TimerInterrupt"
       ELSE IF y.irq THEN "ExternalInterrupt" ELSE "none"
  BY <1>1, <1>2, <1>3 DEF N!Eligible
<1>5. R!Eligible(y) = IF y.fiq /\ p # 2 /\ "F" \notin y.ps.mask THEN "FiqInterrupt"
       ELSE IF "I" \in y.ps.mask \/ q = 2 THEN "none"
       ELSE IF \E t \in R!Timer : R!Pending(y, t) THEN "TimerInterrupt"
       ELSE IF y.irq \/ y.ext THEN "ExternalInterrupt" ELSE "none"
  BY <1>2, <1>3 DEF R!Eligible
<1> QED
  BY <1>4, <1>5

LEMMA PollAgree ==
  ASSUME NEW x, NEW y, Paired(x, y), CpuInv(y), Idle(y), y.status = "run", x.left = 0,
         NEW e, e = N!Poll(x), NEW f, f = R!Poll(y)
  PROVE  \/ e = x /\ f = y
         \/ Paired(e, f) /\ f.status # "run"
<1>0. /\ Alike(x, y) /\ x.lag = 0 /\ Agree(x, y) /\ Stacks(x, y) /\ y.ext = FALSE
      /\ IsCore(y) /\ LevelInv(y) /\ BankInv(y)
  BY DEF Paired, Alike, Bare, CpuInv
<1>1. PICK ticks \in BOOLEAN : ticks <=> \E t \in R!Timer : R!Pending(y, t)
  OBVIOUS
<1>2. N!TimerPending(x) <=> \E t \in R!Timer : R!Pending(y, t)
  <2>1. x.tim = y.tim
    BY <1>0, SharedFields
  <2>2. \A t \in Timer : y.tim[t].is <=> R!Pending(y, t)
    BY <1>0, ShownPending DEF Alike
  <2>3. N!Timer = Timer /\ R!Timer = Timer
    BY DEF N!Timer, R!Timer, Timer
  <2> QED
    BY <2>1, <2>2, <2>3, Zenon DEF N!TimerPending
<1>3. PICK kind : kind = R!Eligible(y)
  OBVIOUS
<1>4. kind = N!Eligible(x) /\ kind \in {"none"} \cup Interrupts
  <2>1. kind \in {"none"} \cup Interrupts
    BY <1>3 DEF R!Eligible, Interrupts
  <2> QED
    BY <1>0, <1>2, <1>3, <2>1, SameEligible
<1>5. PICK stop \in BOOLEAN :
            stop <=> /\ y.irq \/ y.fiq \/ y.ext \/ \E t \in R!Timer : R!Pending(y, t)
                     /\ R!Routed(y)
  OBVIOUS
<1>6. stop <=> (x.irq \/ x.fiq \/ N!TimerPending(x)) /\ N!Routed(x)
  <2>1. N!Routed(x) <=> R!Routed(y)
    BY <1>0, SharedFields DEF N!Routed, R!Routed
  <2>2. x.irq = y.irq /\ x.fiq = y.fiq
    BY <1>0, SharedFields
  <2> QED
    BY <1>0, <1>2, <1>5, <2>1, <2>2
<1>7. PICK d : d = IF kind = "ExternalInterrupt" THEN [y EXCEPT !.ext = FALSE] ELSE y
  OBVIOUS
<1>8. y.pend = "none" /\ x.pend = "none"
  BY <1>0, SharedFields DEF Idle
<1>9. f = IF stop THEN Halts(y, "SystemRegisterTrap")
          ELSE IF kind = "none" THEN y
          ELSE WithStatus(R!Take(R!Raise(d, kind)), kind)
  BY <1>3, <1>5, <1>7, <1>8, Zenon DEF R!Poll, Halts, WithStatus
<1>10. e = IF stop THEN N!Commit(x, "SystemRegisterTrap")
           ELSE IF kind = "none" THEN x
           ELSE WithStatus(N!Take(N!Raise(x, kind)), kind)
  BY <1>4, <1>6, <1>8, Zenon DEF N!Poll, WithStatus
<1>11. CASE stop
  <2>1. "SystemRegisterTrap" \in Kinds /\ "SystemRegisterTrap" \notin Interrupts
    BY DEF Kinds, Interrupts
  <2>2. f = Halts(y, "SystemRegisterTrap") /\ e = N!Commit(x, "SystemRegisterTrap")
    BY <1>9, <1>10, <1>11
  <2>3. /\ Agree(e, f) /\ Stacks(e, f) /\ Recorded(e, f)
        /\ Keeps(e, x, Polled) /\ Keeps(f, y, Polled) /\ f.ext = y.ext
    BY <1>0, <2>1, <2>2, CommitAgree
  <2>4. f.status = "SystemRegisterTrap"
    BY <1>0, <2>1, <2>2, RaisedStops DEF Halts, CpuInv
  <2>5. Paired(e, f)
    BY <1>0, <2>3, StopsPaired
  <2> QED
    BY <2>4, <2>5
<1>12. CASE ~stop /\ kind = "none"
  BY <1>9, <1>10, <1>12
<1>13. CASE ~stop /\ kind # "none"
  <2>1. kind \in Kinds /\ kind \in Interrupts /\ kind # "run"
    BY <1>4, <1>13 DEF Kinds, Interrupts
  <2>2. Keeps(d, y, {"ext"}) /\ d.ext = FALSE
    BY <1>0, <1>7 DEF Keeps, IsCore, Fields
  <2>3. /\ {"ext"} \cap Level = {} /\ {"ext"} \cap Banks = {} /\ {"ext"} \cap Pends = {}
    BY DEF Level, Banks, Pends
  <2>4. IsCore(d) /\ LevelInv(d) /\ BankInv(d) /\ Idle(d)
    BY <1>0, <2>2, <2>3, LevelKept, CoreKept
  <2>5. Keeps(x, x, {})
    BY DEF Keeps
  <2>6. Agree(x, d)
    <3>1. \A n \in Shared \cap ({} \cup {"ext"}) : x[n] = d[n]
      BY DEF Shared
    <3> QED
      BY <1>0, <2>2, <2>5, <3>1, AgreeStep
  <2>7. Stacks(x, d)
    BY <1>0, <2>2, <2>5, StacksKept
  <2>a. PICK a : a = N!Raise(x, kind)
    OBVIOUS
  <2>b. PICK b : b = R!Raise(d, kind)
    OBVIOUS
  <2>8. /\ f = WithStatus(R!Take(b), kind)
        /\ e = WithStatus(N!Take(a), kind)
    BY <1>9, <1>10, <1>13, <2>a, <2>b
  <2>9. /\ Agree(e, f) /\ Stacks(e, f) /\ f.pend = "none" /\ f.status = kind
        /\ Keeps(e, x, Polled) /\ Keeps(f, d, Polled) /\ f.ext = d.ext
    BY <2>1, <2>4, <2>6, <2>7, <2>8, <2>a, <2>b, InterruptAgree
  <2>10. Keeps(f, y, Polled)
    BY <2>2, <2>9 DEF Keeps, Polled
  <2>11. Recorded(e, f)
    BY <2>9 DEF Recorded
  <2>12. Paired(e, f)
    BY <1>0, <2>2, <2>9, <2>10, <2>11, StopsPaired
  <2> QED
    BY <2>1, <2>9, <2>12
<1> QED
  BY <1>11, <1>12, <1>13

-----------------------------------------------------------------------------
(* Blocks. *)

\* In a block, before one of its instructions.
Open(x, y) ==
  /\ Alike(x, y) /\ y.status = "run" /\ y.retired < Budget
  /\ x.left > 0 /\ x.left <= Budget - y.retired
  /\ x.left > 1 \/ x.lag > 0 => Quiet(y)

LEMMA QuietPolls ==
  ASSUME NEW y, Quiet(y), y.ext = FALSE, y.pend = "none"
  PROVE  R!Poll(y) = y
<1>1. \A t \in R!Timer : ~R!Pending(y, t)
  BY DEF Quiet, R!Timer, Timer, R!Pending
<1>2. ~(y.irq \/ y.fiq \/ y.ext \/ \E t \in R!Timer : R!Pending(y, t))
  BY <1>1 DEF Quiet
<1>3. R!Eligible(y) = "none"
  BY <1>1 DEF R!Eligible, Quiet
<1>4. PICK kind : kind = R!Eligible(y)
  OBVIOUS
<1>5. kind = "none"
  BY <1>3, <1>4
<1> QED
  BY <1>2, <1>4, <1>5, Zenon DEF R!Poll

LEMMA LimitTyped ==
  ASSUME NEW x, NEW y, Alike(x, y), CountInv(y), ~(y.retired >= Budget), NEW n, n = N!BlockLimit(x)
  PROVE  /\ n \in Nat /\ n > 0 /\ n <= Budget - y.retired /\ n <= BlockMax
         /\ n > 1 => Quiet(y)
<1>1. /\ x.irq = y.irq /\ x.fiq = y.fiq /\ x.tim = y.tim /\ x.retired = y.retired
  BY SharedFields DEF Alike
<1>2. PICK k \in Int : k = Budget - y.retired /\ k > 0
  BY CpuPairAssumption DEF CountInv
<1>3. PICK on \in BOOLEAN : on <=> y.irq \/ y.fiq \/ \E t \in N!Timer : y.tim[t].en
  OBVIOUS
<1>4. n = IF on THEN 1 ELSE IF k > BlockMax THEN BlockMax ELSE k
  BY <1>1, <1>2, <1>3, Zenon DEF N!BlockLimit
<1>5. ~on => Quiet(y)
  <2>1. SUFFICES ASSUME ~on PROVE Quiet(y)
    OBVIOUS
  <2>2. y.irq = FALSE /\ y.fiq = FALSE
    BY <1>3, <2>1 DEF Alike
  <2>3. ASSUME NEW t \in Timer PROVE y.tim[t].en = FALSE
    <3>1. y.tim[t] \in TimerRec
      BY DEF Alike
    <3>2. y.tim[t].en \in BOOLEAN
      BY <3>1 DEF TimerRec
    <3>3. ~y.tim[t].en
      BY <1>3, <2>1 DEF N!Timer, Timer
    <3> QED
      BY <3>2, <3>3
  <2> QED
    BY <2>2, <2>3 DEF Quiet
<1> QED
  BY <1>2, <1>4, <1>5, CpuPairAssumption

LEMMA DispatchAgree ==
  ASSUME NEW x, NEW y, Paired(x, y), CpuInv(y), y.status = "run", NEW e, e = N!Dispatch(x)
  PROVE  \/ y.retired >= Budget /\ Paired(e, WithStatus(y, "Budget")) /\ e.status # "run"
         \/ ~(y.retired >= Budget) /\ R!Poll(y).status # "run" /\ Paired(e, R!Poll(y)) /\ e.status # "run"
         \/ ~(y.retired >= Budget) /\ R!Poll(y) = y /\ Open(e, y) /\ e.status = "run"
<1>0. /\ Alike(x, y) /\ Agree(x, y) /\ Stacks(x, y) /\ y.ext = FALSE /\ y.m = FALSE /\ Idle(y)
      /\ IsCore(y) /\ LevelInv(y) /\ BankInv(y) /\ CountInv(y) /\ IsNative(x)
  BY DEF Paired, Alike, Agree, Bare, CpuInv, Waits
<1>1. x.retired = y.retired /\ x.m = FALSE /\ x.status = "run"
  BY <1>0, SharedFields
<1>2. y.retired \in Int /\ Budget \in Int /\ x.left \in Nat /\ x.lag \in Nat /\ x.cnt \in Nat
  BY <1>0, CpuPairAssumption DEF CountInv, Alike
<1>3. CASE x.left > 0
  <2>1. e = x
    BY <1>3 DEF N!Dispatch
  <2>2. Quiet(y) /\ x.left <= Budget - y.retired
    BY <1>3 DEF Paired
  <2>3. y.retired < Budget
    BY <1>2, <1>3, <2>2
  <2>4. Open(x, y)
    BY <1>0, <1>3, <2>2, <2>3 DEF Open
  <2>5. R!Poll(y) = y
    BY <1>0, <2>2, QuietPolls DEF Idle
  <2> QED
    BY <1>1, <1>2, <2>1, <2>3, <2>4, <2>5
<1>4. CASE ~(x.left > 0) /\ y.retired >= Budget
  <2>1. e = WithStatus(x, "Budget")
    BY <1>1, <1>4 DEF N!Dispatch, WithStatus
  <2>2. PICK f : f = WithStatus(y, "Budget")
    OBVIOUS
  <2>3. /\ Agree(e, f) /\ Stacks(e, f) /\ Keeps(e, x, {"status"}) /\ Keeps(f, y, {"status"})
        /\ e.status = "Budget"
    BY <1>0, <2>1, <2>2, StatusAgree
  <2>4. f.ext = FALSE /\ f.pend = "none"
    BY <1>0, <2>3 DEF Keeps, IsCore, Fields, Idle
  <2>5. Keeps(e, x, Polled) /\ Keeps(f, y, Polled)
    BY <2>3, KeepsWithin DEF Polled
  <2>6. Recorded(e, f)
    BY <2>4 DEF Recorded
  <2>7. x.left = 0 /\ x.lag = 0
    BY <1>2, <1>4 DEF Paired
  <2>8. Paired(e, f)
    BY <1>0, <2>3, <2>4, <2>5, <2>6, <2>7, StopsPaired
  <2> QED
    BY <1>4, <2>2, <2>3, <2>8
<1>5. CASE ~(x.left > 0) /\ ~(y.retired >= Budget)
  <2>1. x.left = 0 /\ x.lag = 0
    BY <1>2, <1>5 DEF Paired
  <2>2. PICK d : d = N!Poll(x)
    OBVIOUS
  <2>3. PICK n : n = N!BlockLimit(d)
    OBVIOUS
  <2>4. e = IF d.status # "run" THEN d ELSE [d EXCEPT !.left = n]
    BY <1>1, <1>5, <2>2, <2>3 DEF N!Dispatch
  <2>5. PICK f : f = R!Poll(y)
    OBVIOUS
  <2>6. \/ d = x /\ f = y
        \/ Paired(d, f) /\ f.status # "run"
    BY <1>0, <2>1, <2>2, <2>5, PollAgree
  <2>7. CASE Paired(d, f) /\ f.status # "run"
    <3>1. Agree(d, f)
      BY <2>7 DEF Paired, Alike
    <3>2. d.status = f.status
      BY <3>1, SharedFields
    <3> QED
      BY <1>5, <2>4, <2>5, <2>7, <3>2
  <2>8. CASE d = x /\ f = y
    <3>1. e = [x EXCEPT !.left = n]
      BY <1>1, <2>4, <2>8
    <3>2. /\ n \in Nat /\ n > 0 /\ n <= Budget - y.retired /\ n <= BlockMax
          /\ n > 1 => Quiet(y)
      BY <1>0, <1>5, <2>3, <2>8, LimitTyped
    <3>3. Keeps(e, x, {"left"}) /\ e.left = n
      BY <1>0, <3>1 DEF Keeps, IsNative
    <3>4. e.lag = x.lag /\ e.cnt = x.cnt /\ e.status = x.status
      BY <1>0, <3>3 DEF Keeps, IsNative, Shared
    <3>5. Keeps(y, y, {})
      BY DEF Keeps
    <3>6. Agree(e, y)
      <4>1. \A m \in Shared \cap ({"left"} \cup {}) : e[m] = y[m]
        BY DEF Shared
      <4> QED
        BY <1>0, <3>3, <3>5, <4>1, AgreeStep
    <3>7. Stacks(e, y)
      BY <1>0, <3>3, <3>5, StacksKept
    <3>8. e.left + e.lag <= BlockMax /\ e.left \in Nat /\ e.lag \in Nat /\ e.cnt \in Nat
          /\ e.cnt + e.lag = y.cnt
      BY <1>0, <1>2, <2>1, <3>2, <3>3, <3>4, CpuPairAssumption DEF Alike
    <3>9. Alike(e, y)
      BY <1>0, <3>6, <3>7, <3>8 DEF Alike
    <3>10. ~(e.lag > 0) /\ y.retired < Budget
      BY <1>2, <1>5, <2>1, <3>4
    <3>11. Open(e, y)
      BY <3>2, <3>3, <3>9, <3>10 DEF Open
    <3> QED
      BY <1>1, <1>5, <2>5, <2>8, <3>4, <3>11
  <2> QED
    BY <2>6, <2>7, <2>8
<1> QED
  BY <1>3, <1>4, <1>5

(* execute_native_block brings the counter up to date (jit.c).             *)
LEMMA EndBlockFields ==
  ASSUME NEW x, IsNative(x), NEW e, e = N!EndBlock(x)
  PROVE  /\ Keeps(e, x, {"tim", "cnt", "left", "lag"})
         /\ e.left = 0 /\ e.lag = 0 /\ e.cnt = x.cnt + x.lag
         /\ e.tim = Shown(x.tim, x.cnt + x.lag)
<1>1. PICK a : a = N!Advance(x, x.lag)
  OBVIOUS
<1>2. Keeps(a, x, {"tim", "cnt"}) /\ a.cnt = x.cnt + x.lag /\ a.tim = Shown(x.tim, x.cnt + x.lag)
  BY <1>1, NativeAdvance
<1>3. e = [a EXCEPT !.left = 0, !.lag = 0]
  BY <1>1 DEF N!EndBlock
<1>4. IsNative(a)
  BY <1>2 DEF IsNative, Keeps
<1>5. e.left = 0 /\ e.lag = 0 /\ e.cnt = a.cnt /\ e.tim = a.tim
  BY <1>3, <1>4 DEF IsNative, Shared
<1>6. Keeps(e, a, {"left", "lag"})
  BY <1>3 DEF Keeps
<1> QED
  BY <1>2, <1>5, <1>6 DEF Keeps

LEMMA EndBlockAlike ==
  ASSUME NEW x, NEW y, Alike(x, y), NEW e, e = N!EndBlock(x)
  PROVE  Alike(e, y) /\ e.left = 0 /\ e.lag = 0 /\ e.cnt = y.cnt
<1>0. IsNative(x) /\ IsCore(y) /\ Agree(x, y) /\ Stacks(x, y)
  BY DEF Alike, Agree
<1>1. /\ Keeps(e, x, {"tim", "cnt", "left", "lag"})
      /\ e.left = 0 /\ e.lag = 0 /\ e.cnt = x.cnt + x.lag
      /\ e.tim = Shown(x.tim, x.cnt + x.lag)
  BY <1>0, EndBlockFields
<1>2. x.cnt + x.lag = y.cnt /\ x.tim = y.tim /\ y.tim = Shown(y.tim, y.cnt)
  BY <1>0, SharedFields DEF Alike
<1>3. e.tim = y.tim
  BY <1>1, <1>2
<1>4. Keeps(y, y, {})
  BY DEF Keeps
<1>5. Agree(e, y)
  <2>1. \A n \in Shared \cap ({"tim", "cnt", "left", "lag"} \cup {}) : e[n] = y[n]
    BY <1>3 DEF Shared
  <2> QED
    BY <1>0, <1>1, <1>4, <2>1, AgreeStep
<1>6. Stacks(e, y)
  BY <1>0, <1>1, <1>4, StacksKept
<1>7. /\ Bare(y) /\ y.tim \in [Timer -> TimerRec] /\ y.cnt \in Nat
      /\ y.irq \in BOOLEAN /\ y.fiq \in BOOLEAN
  BY DEF Alike
<1>8. e.cnt = y.cnt /\ e.cnt \in Nat /\ e.lag \in Nat /\ e.left \in Nat /\ e.cnt + e.lag = y.cnt
      /\ e.left + e.lag <= BlockMax
  BY <1>1, <1>2, <1>7, CpuPairAssumption
<1> QED
  BY <1>1, <1>2, <1>5, <1>6, <1>7, <1>8 DEF Alike

(* An exception ends the block.                                            *)
LEMMA FaultAgree ==
  ASSUME NEW x, NEW y, Alike(x, y), IsCore(y), LevelInv(y), BankInv(y), Idle(y),
         NEW kind \in Kinds, kind \notin Interrupts,
         NEW v, v = N!EndBlock(x), NEW e, e = N!Commit(v, kind), NEW f, f = Halts(y, kind)
  PROVE  Paired(e, f)
<1>1. Alike(v, y) /\ v.left = 0 /\ v.lag = 0
  BY EndBlockAlike
<1>2. Agree(v, y) /\ Stacks(v, y) /\ y.ext = FALSE
  BY <1>1 DEF Alike, Bare
<1>3. /\ Agree(e, f) /\ Stacks(e, f) /\ Recorded(e, f)
      /\ Keeps(e, v, Polled) /\ Keeps(f, y, Polled) /\ f.ext = y.ext
  BY <1>2, CommitAgree
<1> QED
  BY <1>1, <1>2, <1>3, StopsPaired

\* The two cores with an instruction done and not yet retired.
Ready(u, z) ==
  /\ IsNative(u) /\ IsCore(z) /\ \A n \in Shared \ {"pc", "tim"} : u[n] = z[n]
  /\ SameProgram(u.tim, z.tim) /\ Stacks(u, z) /\ Bare(z)
  /\ z.irq \in BOOLEAN /\ z.fiq \in BOOLEAN /\ z.cnt \in Nat /\ z.pend = "none"
  /\ u.cnt \in Nat /\ u.lag \in Nat /\ u.left \in Nat
  /\ u.cnt + u.lag = z.cnt /\ u.left + u.lag <= BlockMax

Counted == {"cnt", "tim", "retired", "status"}

\* The reference core retires an instruction, without a device.
Retires(f, z, how) ==
  /\ Keeps(f, z, Counted) /\ f.cnt = z.cnt + 1 /\ f.retired = z.retired + 1
  /\ f.tim = Shown(z.tim, z.cnt + 1) /\ f.status = how

LEMMA ReferenceRetires ==
  ASSUME NEW z, IsCore(z), z.bus = "ram", NEW w, NEW how,
         NEW f, f = WithStatus(R!Retire(z, w), how)
  PROVE  Retires(f, z, how)
<1>1. PICK a : a = [z EXCEPT !.retired = @ + 1]
  OBVIOUS
<1>2. /\ Keeps(a, z, {"retired"}) /\ a.retired = z.retired + 1 /\ IsCore(a)
  BY <1>1 DEF Keeps, IsCore, Fields
<1>3. a.cnt = z.cnt /\ a.tim = z.tim /\ a.bus = "ram"
  BY <1>2 DEF Keeps, IsCore, Fields
<1>4. PICK b : b = R!AdvanceCounter(a)
  OBVIOUS
<1>5. Keeps(b, a, {"cnt", "tim"}) /\ b.cnt = a.cnt + 1 /\ b.tim = Shown(a.tim, a.cnt + 1)
  BY <1>2, <1>4, ReferenceAdvance
<1>6. b.bus = "ram" /\ b.retired = a.retired /\ IsCore(b)
  BY <1>2, <1>3, <1>5 DEF Keeps, IsCore, Fields
<1>7. R!Retire(z, w) = b
  BY <1>1, <1>4, <1>6 DEF R!Retire, R!AfterInstruction
<1>8. f = [b EXCEPT !.status = how]
  BY <1>7 DEF WithStatus
<1>9. Keeps(f, b, {"status"}) /\ f.status = how /\ f.cnt = b.cnt /\ f.tim = b.tim /\ f.retired = b.retired
  BY <1>6, <1>8 DEF Keeps, IsCore, Fields
<1>10. Keeps(f, z, Counted)
  BY <1>2, <1>5, <1>9 DEF Keeps, Counted
<1> QED
  BY <1>2, <1>3, <1>5, <1>6, <1>9, <1>10 DEF Retires

NativeCounted == {"pc", "retired", "cnt", "tim", "left", "lag", "status"}

\* The native core retires an instruction and its block ends.
Ends(e, u, pc, how) ==
  /\ Keeps(e, u, NativeCounted) /\ e.pc = pc /\ e.retired = u.retired + 1
  /\ e.left = 0 /\ e.lag = 0 /\ e.cnt = u.cnt + u.lag + 1
  /\ e.tim = Shown(u.tim, u.cnt + u.lag + 1) /\ e.status = how

LEMMA RetiredFields ==
  ASSUME NEW z, IsCore(z), NEW f, NEW how, Retires(f, z, how)
  PROVE  /\ IsCore(f) /\ f.bus = z.bus /\ f.ext = z.ext /\ f.m = z.m /\ f.mmu = z.mmu
         /\ f.irq = z.irq /\ f.fiq = z.fiq /\ f.pend = z.pend
         /\ f.spEl = z.spEl /\ f.el = z.el /\ f.ps = z.ps /\ f.pc = z.pc
<1>1. Keeps(f, z, Counted)
  BY DEF Retires
<1> QED
  BY <1>1 DEF Keeps, Counted, IsCore, Fields

LEMMA RetireStacks ==
  ASSUME NEW u, NEW z, IsNative(u), IsCore(z), Stacks(u, z), NEW f, NEW how, Retires(f, z, how),
         NEW e, Keeps(e, u, NativeCounted)
  PROVE  Stacks(e, f)
<1>1. f.spEl = z.spEl /\ f.el = z.el /\ f.ps = z.ps
  BY RetiredFields
<1>2. e.spEl = u.spEl
  BY DEF Keeps, NativeCounted, IsNative
<1> QED
  BY <1>1, <1>2, Zenon DEF Stacks

LEMMA RetireAgrees ==
  ASSUME NEW u, NEW z, IsNative(u), IsCore(z), \A n \in Shared \ {"pc", "tim"} : u[n] = z[n],
         NEW how, NEW f, Retires(f, z, how), NEW e, Keeps(e, u, NativeCounted),
         e.pc = z.pc, e.retired = u.retired + 1, e.tim = f.tim, e.status = how
  PROVE  Agree(e, f)
<1>1. IsNative(e) /\ IsCore(f) /\ f.pc = z.pc
  BY RetiredFields DEF Keeps, IsNative
<1>2. f.retired = z.retired + 1 /\ f.status = how /\ Keeps(f, z, Counted)
  BY DEF Retires
<1>3. u.retired = z.retired
  BY DEF Shared
<1>4. ASSUME NEW n \in Shared PROVE e[n] = f[n]
  <2>1. CASE n \in {"pc", "retired", "tim", "status"}
    BY <1>1, <1>2, <1>3, <2>1
  <2>2. CASE n \notin {"pc", "retired", "tim", "status"}
    <3>1. n \notin NativeCounted /\ n \notin Counted /\ n \in DOMAIN u /\ n \in DOMAIN z
      BY <2>2 DEF Shared, NativeCounted, Counted, IsNative, IsCore, Fields
    <3>2. e[n] = u[n] /\ f[n] = z[n] /\ u[n] = z[n]
      BY <1>2, <2>2, <3>1 DEF Keeps
    <3> QED
      BY <3>2
  <2> QED
    BY <2>1, <2>2
<1> QED
  BY <1>1, <1>4 DEF Agree

LEMMA EndsPaired ==
  ASSUME NEW u, NEW z, Ready(u, z), NEW how, NEW f, Retires(f, z, how),
         NEW pc, pc = z.pc, NEW e, Ends(e, u, pc, how)
  PROVE  Paired(e, f)
<1>0. /\ IsNative(u) /\ IsCore(z) /\ Stacks(u, z) /\ SameProgram(u.tim, z.tim)
      /\ u.cnt + u.lag = z.cnt /\ z.cnt \in Nat /\ u.cnt \in Nat /\ u.lag \in Nat
      /\ \A n \in Shared \ {"pc", "tim"} : u[n] = z[n]
  BY DEF Ready
<1>1. /\ Keeps(e, u, NativeCounted) /\ e.pc = z.pc /\ e.retired = u.retired + 1
      /\ e.left = 0 /\ e.lag = 0 /\ e.status = how
  BY DEF Ends
<1>2. PICK n \in Nat : n = z.cnt + 1 /\ n = u.cnt + u.lag + 1
  BY <1>0
<1>3. e.cnt = n /\ e.tim = Shown(u.tim, n)
  BY <1>2 DEF Ends
<1>4. f.cnt = n /\ f.tim = Shown(z.tim, n)
  BY <1>2 DEF Retires
<1>5. e.tim = f.tim
  BY <1>0, <1>2, <1>3, <1>4, ShownSame
<1>6. Agree(e, f)
  BY <1>0, <1>1, <1>5, RetireAgrees
<1>7. Stacks(e, f)
  BY <1>0, <1>1, RetireStacks
<1>8. /\ f.bus = z.bus /\ f.ext = z.ext /\ f.m = z.m /\ f.mmu = z.mmu
      /\ f.irq = z.irq /\ f.fiq = z.fiq /\ f.pend = z.pend
  BY <1>0, RetiredFields
<1>9. Bare(f) /\ f.irq \in BOOLEAN /\ f.fiq \in BOOLEAN /\ f.pend = "none"
  BY <1>8 DEF Ready, Bare
<1>10. z.tim \in [Timer -> TimerRec]
  BY <1>0 DEF SameProgram
<1>11. f.tim \in [Timer -> TimerRec] /\ f.tim = Shown(f.tim, f.cnt)
  <2>1. Shown(z.tim, n) \in [Timer -> TimerRec]
    BY <1>2, <1>10, ShownTyped DEF SameProgram
  <2>2. Shown(Shown(z.tim, n), n) = Shown(z.tim, n)
    BY <1>2, <1>10, ShownAgain
  <2> QED
    BY <1>4, <2>1, <2>2
<1>12. e.left + e.lag <= BlockMax /\ e.cnt + e.lag = f.cnt /\ e.cnt \in Nat /\ f.cnt \in Nat
       /\ e.lag \in Nat /\ e.left \in Nat
  BY <1>1, <1>2, <1>3, <1>4, CpuPairAssumption
<1>13. Alike(e, f)
  BY <1>6, <1>7, <1>9, <1>11, <1>12 DEF Alike
<1> QED
  BY <1>1, <1>9, <1>13 DEF Paired, Recorded

LEMMA NativeRetires ==
  ASSUME NEW u, IsNative(u), NEW pc, NEW e, e = N!Retire(u, pc)
  PROVE  /\ Keeps(e, u, {"pc", "retired"}) /\ e.pc = pc /\ e.retired = u.retired + 1
         /\ IsNative(e) /\ e.cnt = u.cnt /\ e.lag = u.lag /\ e.left = u.left /\ e.tim = u.tim
         /\ e.status = u.status
BY DEF N!Retire, Keeps, IsNative, Shared

(* b, and hlt with its status: the block is left.                          *)
LEMMA LeaveEnds ==
  ASSUME NEW u, IsNative(u), u.cnt \in Nat, u.lag \in Nat, NEW pc, NEW e, e = N!LeaveBlock(u, pc)
  PROVE  Ends(e, u, pc, u.status) /\ \A how : Ends(WithStatus(e, how), u, pc, how)
<1>1. PICK a : a = N!Retire(u, pc)
  OBVIOUS
<1>2. /\ Keeps(a, u, {"pc", "retired"}) /\ a.pc = pc /\ a.retired = u.retired + 1
      /\ IsNative(a) /\ a.cnt = u.cnt /\ a.lag = u.lag /\ a.tim = u.tim /\ a.status = u.status
  BY <1>1, NativeRetires
<1>3. PICK b : b = [a EXCEPT !.lag = @ + 1]
  OBVIOUS
<1>4. /\ Keeps(b, a, {"lag"}) /\ b.lag = u.lag + 1 /\ b.cnt = u.cnt /\ b.tim = u.tim
      /\ b.pc = pc /\ b.retired = u.retired + 1 /\ b.status = u.status /\ IsNative(b)
  BY <1>2, <1>3 DEF Keeps, IsNative, Shared
<1>5. e = N!EndBlock(b)
  BY <1>1, <1>3 DEF N!LeaveBlock
<1>6. /\ Keeps(e, b, {"tim", "cnt", "left", "lag"})
      /\ e.left = 0 /\ e.lag = 0 /\ e.cnt = b.cnt + b.lag
      /\ e.tim = Shown(b.tim, b.cnt + b.lag)
  BY <1>4, <1>5, EndBlockFields
<1>7. e.pc = b.pc /\ e.retired = b.retired /\ e.status = b.status /\ IsNative(e)
  BY <1>4, <1>6 DEF Keeps, IsNative, Shared
<1>8. b.cnt + b.lag = u.cnt + u.lag + 1
  BY <1>4
<1>9. Keeps(e, u, NativeCounted)
  BY <1>2, <1>4, <1>6 DEF Keeps, NativeCounted
<1>10. Ends(e, u, pc, u.status)
  <2>1. e.cnt = u.cnt + u.lag + 1 /\ e.tim = Shown(u.tim, u.cnt + u.lag + 1)
    BY <1>4, <1>6, <1>8
  <2> QED
    BY <1>4, <1>6, <1>7, <1>9, <2>1 DEF Ends
<1>11. ASSUME NEW how, NEW g, g = WithStatus(e, how) PROVE Ends(g, u, pc, how)
  <2>1. g = [e EXCEPT !.status = how]
    BY <1>11 DEF WithStatus
  <2>2. /\ g.status = how /\ g.pc = e.pc /\ g.retired = e.retired /\ g.left = e.left
        /\ g.lag = e.lag /\ g.cnt = e.cnt /\ g.tim = e.tim /\ Keeps(g, e, {"status"})
    BY <1>7, <2>1 DEF Keeps, IsNative, Shared
  <2>3. Keeps(g, u, NativeCounted)
    BY <1>9, <2>2 DEF Keeps, NativeCounted
  <2> QED
    BY <1>10, <2>2, <2>3 DEF Ends
<1> QED
  BY <1>10, <1>11

(* A slow step retires its instruction outside any block (jit.c).          *)
LEMMA SlowEnds ==
  ASSUME NEW u, IsNative(u), u.cnt \in Nat, u.lag = 0, u.left = 0, NEW pc,
         NEW e, e = N!Advance(N!Retire(u, pc), 1)
  PROVE  Ends(e, u, pc, u.status)
<1>1. PICK a : a = N!Retire(u, pc)
  OBVIOUS
<1>2. /\ Keeps(a, u, {"pc", "retired"}) /\ a.pc = pc /\ a.retired = u.retired + 1
      /\ IsNative(a) /\ a.cnt = u.cnt /\ a.lag = u.lag /\ a.left = u.left /\ a.tim = u.tim
      /\ a.status = u.status
  BY <1>1, NativeRetires
<1>3. /\ Keeps(e, a, {"tim", "cnt"}) /\ e.cnt = a.cnt + 1 /\ e.tim = Shown(a.tim, a.cnt + 1)
  BY <1>1, <1>2, NativeAdvance
<1>4. /\ e.pc = a.pc /\ e.retired = a.retired /\ e.status = a.status /\ e.left = a.left /\ e.lag = a.lag
  BY <1>2, <1>3 DEF Keeps, IsNative, Shared
<1>5. u.cnt + u.lag + 1 = u.cnt + 1
  OBVIOUS
<1>6. e.cnt = u.cnt + u.lag + 1 /\ e.tim = Shown(u.tim, u.cnt + u.lag + 1)
  BY <1>2, <1>3, <1>5
<1>7. Keeps(e, u, NativeCounted)
  BY <1>2, <1>3 DEF Keeps, NativeCounted
<1> QED
  BY <1>2, <1>4, <1>6, <1>7 DEF Ends

(* An instruction of the compiled code, the last of its block or not.      *)
LEMMA InBlockPaired ==
  ASSUME NEW u, NEW z, Ready(u, z), u.status = "run", u.tim = z.tim, z.tim = Shown(z.tim, z.cnt),
         z.retired \in Nat, u.left > 0, u.left <= Budget - z.retired, u.left > 1 => Quiet(z),
         NEW f, Retires(f, z, "run"), NEW pc, pc = z.pc, NEW e, e = N!InBlock(u, pc)
  PROVE  Paired(e, f)
<1>0. /\ IsNative(u) /\ IsCore(z) /\ Stacks(u, z)
      /\ u.cnt + u.lag = z.cnt /\ z.cnt \in Nat /\ u.cnt \in Nat /\ u.lag \in Nat /\ u.left \in Nat
      /\ u.left + u.lag <= BlockMax
      /\ \A n \in Shared \ {"pc", "tim"} : u[n] = z[n]
  BY DEF Ready
<1>1. PICK a : a = N!Retire(u, pc)
  OBVIOUS
<1>2. /\ Keeps(a, u, {"pc", "retired"}) /\ a.pc = pc /\ a.retired = u.retired + 1
      /\ IsNative(a) /\ a.cnt = u.cnt /\ a.lag = u.lag /\ a.left = u.left /\ a.tim = u.tim
      /\ a.status = u.status
  BY <1>0, <1>1, NativeRetires
<1>3. PICK b : b = [a EXCEPT !.left = @ - 1, !.lag = @ + 1]
  OBVIOUS
<1>4. /\ Keeps(b, a, {"left", "lag"}) /\ b.left = u.left - 1 /\ b.lag = u.lag + 1
      /\ b.cnt = u.cnt /\ b.tim = u.tim
      /\ b.pc = pc /\ b.retired = u.retired + 1 /\ b.status = u.status /\ IsNative(b)
  BY <1>2, <1>3 DEF Keeps, IsNative, Shared
<1>5. e = IF b.left = 0 THEN N!EndBlock(b) ELSE b
  BY <1>1, <1>3 DEF N!InBlock
<1>6. CASE b.left = 0
  <2>1. /\ Keeps(e, b, {"tim", "cnt", "left", "lag"})
        /\ e.left = 0 /\ e.lag = 0 /\ e.cnt = b.cnt + b.lag
        /\ e.tim = Shown(b.tim, b.cnt + b.lag)
    BY <1>4, <1>5, <1>6, EndBlockFields
  <2>2. e.pc = b.pc /\ e.retired = b.retired /\ e.status = b.status
    BY <1>4, <2>1 DEF Keeps, IsNative, Shared
  <2>3. b.cnt + b.lag = u.cnt + u.lag + 1
    BY <1>0, <1>4
  <2>4. e.cnt = u.cnt + u.lag + 1 /\ e.tim = Shown(u.tim, u.cnt + u.lag + 1)
    BY <1>4, <2>1, <2>3
  <2>5. Keeps(e, u, NativeCounted)
    BY <1>2, <1>4, <2>1 DEF Keeps, NativeCounted
  <2>6. Ends(e, u, pc, "run")
    BY <1>4, <2>1, <2>2, <2>4, <2>5 DEF Ends
  <2> QED
    BY <2>6, EndsPaired
<1>7. CASE b.left # 0
  <2>1. e = b
    BY <1>5, <1>7
  <2>2. Keeps(e, u, NativeCounted)
    BY <1>2, <1>4, <2>1 DEF Keeps, NativeCounted
  <2>3. u.left > 1
    BY <1>0, <1>4, <1>7
  <2>4. Quiet(z)
    BY <2>3
  <2>5. PICK n \in Nat : n = z.cnt + 1
    BY <1>0
  <2>6. z.tim \in [Timer -> TimerRec]
    BY DEF Ready, SameProgram
  <2>7. z.tim = Shown(z.tim, n)
    BY <1>0, <2>4, <2>5, <2>6, ShownQuiet DEF Quiet
  <2>8. f.tim = z.tim /\ f.cnt = n /\ f.status = "run" /\ f.retired = z.retired + 1
    BY <2>5, <2>7 DEF Retires
  <2>9. e.tim = f.tim /\ e.pc = z.pc /\ e.retired = u.retired + 1 /\ e.status = "run"
    BY <1>4, <2>1, <2>8
  <2>10. Agree(e, f)
    BY <1>0, <2>2, <2>9, RetireAgrees
  <2>11. Stacks(e, f)
    BY <1>0, <2>2, RetireStacks
  <2>12. /\ f.bus = z.bus /\ f.ext = z.ext /\ f.m = z.m /\ f.mmu = z.mmu
         /\ f.irq = z.irq /\ f.fiq = z.fiq /\ f.pend = z.pend
    BY <1>0, RetiredFields
  <2>13. Bare(f) /\ f.irq \in BOOLEAN /\ f.fiq \in BOOLEAN /\ f.pend = "none"
    BY <2>12 DEF Ready, Bare
  <2>14. Quiet(f)
    BY <2>4, <2>8, <2>12 DEF Quiet
  <2>15. f.tim = Shown(f.tim, f.cnt) /\ f.tim \in [Timer -> TimerRec]
    BY <2>6, <2>7, <2>8
  <2>16. /\ e.cnt \in Nat /\ e.lag \in Nat /\ e.left \in Nat /\ f.cnt \in Nat
         /\ e.cnt + e.lag = f.cnt /\ e.left + e.lag <= BlockMax
    BY <1>0, <1>4, <2>1, <2>3, <2>5, <2>8, CpuPairAssumption
  <2>17. Alike(e, f)
    BY <2>10, <2>11, <2>13, <2>15, <2>16 DEF Alike
  <2>18. e.left # 0 /\ e.left <= Budget - f.retired
    BY <1>0, <1>4, <1>7, <2>1, <2>8, CpuPairAssumption
  <2> QED
    BY <2>8, <2>13, <2>14, <2>17, <2>18 DEF Paired, Recorded
<1> QED
  BY <1>6, <1>7

(* The instruction itself: pc, and what else both cores change alike.      *)
LEMMA ReadyStep ==
  ASSUME NEW x, NEW y, Alike(x, y), y.pend = "none",
         NEW F, NEW G, NEW u, Keeps(u, x, F), NEW z, Keeps(z, y, G),
         F \cap {"cnt", "lag", "left"} = {}, G \cap {"irq", "fiq", "cnt", "pend", "bus", "ext"} = {},
         \A n \in (Shared \ {"pc", "tim"}) \cap (F \cup G) : u[n] = z[n],
         SameProgram(u.tim, z.tim), Stacks(u, z), z.m = FALSE, z.mmu.on = FALSE
  PROVE  Ready(u, z)
<1>0. IsNative(x) /\ IsCore(y) /\ Agree(x, y)
  BY DEF Alike, Agree
<1>1. IsNative(u) /\ IsCore(z)
  BY <1>0 DEF IsNative, IsCore, Keeps
<1>2. ASSUME NEW n \in Shared \ {"pc", "tim"} PROVE u[n] = z[n]
  <2>1. n \in DOMAIN x /\ n \in DOMAIN y
    BY <1>0 DEF IsNative, IsCore, Fields, Shared
  <2>2. x[n] = y[n]
    BY <1>0 DEF Agree
  <2> QED
    BY <2>1, <2>2 DEF Keeps
<1>3. u.cnt = x.cnt /\ u.lag = x.lag /\ u.left = x.left
  BY <1>0 DEF Keeps, IsNative
<1>4. /\ z.irq = y.irq /\ z.fiq = y.fiq /\ z.cnt = y.cnt /\ z.pend = y.pend /\ z.bus = y.bus
      /\ z.ext = y.ext
  BY <1>0 DEF Keeps, IsCore, Fields
<1>5. Bare(z)
  BY <1>4 DEF Alike, Bare
<1> QED
  BY <1>1, <1>2, <1>3, <1>4, <1>5 DEF Ready, Alike

-----------------------------------------------------------------------------
(* Instructions of both cores. *)

LEMMA CompleteRuns ==
  ASSUME NEW z, IsCore(z), z.bus = "ram", NEW how \in Ran, NEW w,
         NEW f, f = R!Complete(R!Done(z, how), w)
  PROVE  Retires(f, z, how)
<1>1. how \notin R!Kinds
  BY SameKinds DEF Ran, Kinds, Interrupts
<1>2. f = WithStatus(R!Retire(z, w), how)
  BY <1>1 DEF R!Complete, R!Done, WithStatus
<1> QED
  BY <1>2, ReferenceRetires

LEMMA CompleteFaults ==
  ASSUME NEW y, NEW kind \in Kinds, NEW w
  PROVE  R!Complete(R!Done(y, kind), w) = Halts(y, kind)
<1>1. kind \in R!Kinds
  BY SameKinds
<1> QED
  BY <1>1 DEF R!Complete, R!Done, Halts

LEMMA OpenFields ==
  ASSUME NEW x, NEW y, Open(x, y), CpuInv(y)
  PROVE  /\ Alike(x, y) /\ Agree(x, y) /\ Stacks(x, y) /\ IsNative(x) /\ IsCore(y)
         /\ LevelInv(y) /\ BankInv(y) /\ Idle(y) /\ y.pend = "none"
         /\ y.m = FALSE /\ y.mmu.on = FALSE /\ y.bus = "ram"
         /\ x.pc = y.pc /\ x.sp = y.sp /\ x.tim = y.tim /\ x.status = "run" /\ x.el = y.el
         /\ x.hcr = y.hcr /\ x.m = FALSE
         /\ y.tim = Shown(y.tim, y.cnt) /\ SameProgram(y.tim, y.tim)
         /\ y.retired \in Nat
<1>1. Alike(x, y) /\ y.status = "run"
  BY DEF Open
<1>2. /\ Agree(x, y) /\ Stacks(x, y) /\ IsNative(x) /\ IsCore(y) /\ Bare(y)
      /\ y.tim \in [Timer -> TimerRec] /\ y.tim = Shown(y.tim, y.cnt)
  BY <1>1 DEF Alike, Agree
<1>3. LevelInv(y) /\ BankInv(y) /\ Idle(y) /\ y.retired \in Nat
  BY <1>1, CpuPairAssumption DEF CpuInv, Waits, CountInv
<1>4. SameProgram(y.tim, y.tim)
  BY <1>2 DEF SameProgram
<1>5. /\ x.pc = y.pc /\ x.sp = y.sp /\ x.tim = y.tim /\ x.status = y.status /\ x.el = y.el
      /\ x.hcr = y.hcr /\ x.m = y.m
  BY <1>2, SharedFields
<1> QED
  BY <1>1, <1>2, <1>3, <1>4, <1>5 DEF Bare, Idle

(* Compiled instructions that go on to the next one.                       *)
LEMMA InBlockWord ==
  ASSUME NEW x, NEW y, Open(x, y), CpuInv(y),
         NEW u, Keeps(u, x, {"sp"}), NEW d, Keeps(d, y, {"sp", "excl"}), u.sp = d.sp, NEW w,
         NEW pc, pc = x.pc + 4, NEW e, e = N!InBlock(u, pc), NEW f, f = R!Complete(R!Next4(d), w)
  PROVE  Paired(e, f)
<1>0. /\ Alike(x, y) /\ Agree(x, y) /\ Stacks(x, y) /\ IsNative(x) /\ IsCore(y)
      /\ y.pend = "none" /\ y.m = FALSE /\ y.mmu.on = FALSE /\ y.bus = "ram"
      /\ x.pc = y.pc /\ x.tim = y.tim /\ x.status = "run"
      /\ y.tim = Shown(y.tim, y.cnt) /\ SameProgram(y.tim, y.tim) /\ y.retired \in Nat
  BY OpenFields
<1>1. PICK z : z = [d EXCEPT !.pc = @ + 4]
  OBVIOUS
<1>2. IsCore(d) /\ d.pc = y.pc
  BY <1>0 DEF IsCore, Fields, Keeps
<1>3. Keeps(z, d, {"pc"}) /\ z.pc = pc /\ IsCore(z)
  BY <1>0, <1>1, <1>2 DEF Keeps, IsCore, Fields
<1>4. Keeps(z, y, {"sp", "excl", "pc"})
  BY <1>3 DEF Keeps
<1>5. /\ z.tim = y.tim /\ z.cnt = y.cnt /\ z.m = y.m /\ z.mmu = y.mmu /\ z.bus = y.bus
      /\ z.retired = y.retired /\ z.irq = y.irq /\ z.fiq = y.fiq
  BY <1>0, <1>4 DEF Keeps, IsCore, Fields
<1>6. u.tim = x.tim /\ u.status = x.status /\ u.left = x.left /\ u.lag = x.lag
  BY <1>0 DEF Keeps, IsNative, Shared
<1>7. z.sp = d.sp
  BY <1>2, <1>3 DEF Keeps, IsCore, Fields
<1>8. Stacks(u, z)
  BY <1>0, <1>4, StacksKept
<1>9. Ready(u, z)
  <2>1. \A n \in (Shared \ {"pc", "tim"}) \cap ({"sp"} \cup {"sp", "excl", "pc"}) : u[n] = z[n]
    BY <1>7 DEF Shared
  <2>2. SameProgram(u.tim, z.tim)
    BY <1>0, <1>5, <1>6
  <2>3. {"sp"} \cap {"cnt", "lag", "left"} = {}
        /\ {"sp", "excl", "pc"} \cap {"irq", "fiq", "cnt", "pend", "bus", "ext"} = {}
    OBVIOUS
  <2>4. z.m = FALSE /\ z.mmu.on = FALSE
    BY <1>0, <1>5
  <2> QED
    BY <1>0, <1>4, <1>8, <2>1, <2>2, <2>3, <2>4, ReadyStep
<1>10. Retires(f, z, "run")
  <2>1. R!Next4(d) = R!Done(z, "run")
    BY <1>1 DEF R!Next4
  <2> QED
    BY <1>0, <1>3, <1>5, <2>1, CompleteRuns DEF Ran
<1>11. Quiet(y) => Quiet(z)
  BY <1>5 DEF Quiet
<1>12. u.left > 0 /\ u.left <= Budget - z.retired /\ (u.left > 1 => Quiet(z)) /\ z.retired \in Nat
  BY <1>0, <1>5, <1>6, <1>11 DEF Open
<1>13. u.status = "run" /\ u.tim = z.tim /\ z.tim = Shown(z.tim, z.cnt)
  BY <1>0, <1>5, <1>6
<1> QED
  BY <1>3, <1>9, <1>10, <1>12, <1>13, InBlockPaired

Jump(y, k) == [y EXCEPT !.pc = @ + k]

(* A branch and hlt leave the block.                                       *)
LEMMA LeaveWord ==
  ASSUME NEW x, NEW y, Open(x, y), CpuInv(y), NEW k \in Nat, NEW how \in Ran, NEW w,
         NEW pc, pc = x.pc + k, NEW z, z = Jump(y, k),
         NEW e, Ends(e, x, pc, how), NEW f, f = R!Complete(R!Done(z, how), w)
  PROVE  Paired(e, f)
<1>0. /\ Alike(x, y) /\ Agree(x, y) /\ Stacks(x, y) /\ IsNative(x) /\ IsCore(y)
      /\ y.pend = "none" /\ y.m = FALSE /\ y.mmu.on = FALSE /\ y.bus = "ram"
      /\ x.pc = y.pc /\ x.tim = y.tim /\ SameProgram(y.tim, y.tim)
  BY OpenFields
<1>1. Keeps(z, y, {"pc"}) /\ z.pc = pc /\ IsCore(z)
  BY <1>0 DEF Keeps, IsCore, Fields, Jump
<1>2. z.tim = y.tim /\ z.m = y.m /\ z.mmu = y.mmu /\ z.bus = y.bus
  BY <1>0, <1>1 DEF Keeps, IsCore, Fields
<1>3. Keeps(x, x, {"pc"})
  BY DEF Keeps
<1>4. Stacks(x, z)
  BY <1>0, <1>1, <1>3, StacksKept
<1>5. Ready(x, z)
  <2>1. \A n \in (Shared \ {"pc", "tim"}) \cap ({"pc"} \cup {"pc"}) : x[n] = z[n]
    OBVIOUS
  <2>2. SameProgram(x.tim, z.tim) /\ z.m = FALSE /\ z.mmu.on = FALSE
    BY <1>0, <1>2
  <2>3. {"pc"} \cap {"cnt", "lag", "left"} = {}
        /\ {"pc"} \cap {"irq", "fiq", "cnt", "pend", "bus", "ext"} = {}
    OBVIOUS
  <2> QED
    BY <1>0, <1>1, <1>3, <1>4, <2>1, <2>2, <2>3, ReadyStep
<1>6. Retires(f, z, how)
  BY <1>0, <1>1, <1>2, CompleteRuns
<1> QED
  BY <1>1, <1>5, <1>6, EndsPaired

(* nop, addsp, b and hlt (jit.c, compile; arch.rs, execute_one).           *)
LEMMA SimpleWords ==
  ASSUME NEW x, NEW y, Open(x, y), CpuInv(y), NEW w \in Word, w.op \in {"nop", "addsp", "b", "hlt"},
         NEW e, e = N!Execute(x, w), NEW f, f = R!Complete(R!ExecuteOne(y, w), w)
  PROVE  Paired(e, f)
<1> USE DEF R!Privileged, R!Immediate, R!Exclusive, R!Device
<1>0. /\ IsNative(x) /\ IsCore(y) /\ x.status = "run" /\ x.cnt \in Nat /\ x.lag \in Nat
      /\ x.sp = y.sp /\ x.pc = y.pc
  BY OpenFields DEF Open, Alike
<1>1. CASE w.op = "nop"
  <2>1. PICK pc : pc = x.pc + 4
    OBVIOUS
  <2>2. e = N!InBlock(x, pc)
    BY <1>1, <2>1 DEF N!Execute
  <2>3. R!ExecuteOne(y, w) = R!Next4(y)
    BY <1>1 DEF R!ExecuteOne
  <2>4. Keeps(x, x, {"sp"}) /\ Keeps(y, y, {"sp", "excl"})
    BY DEF Keeps
  <2> QED
    BY <1>0, <2>1, <2>2, <2>3, <2>4, InBlockWord
<1>2. CASE w.op = "addsp"
  <2>1. PICK pc : pc = x.pc + 4
    OBVIOUS
  <2>2. PICK u : u = [x EXCEPT !.sp = @ + w.a]
    OBVIOUS
  <2>3. PICK d : d = [y EXCEPT !.sp = @ + w.a]
    OBVIOUS
  <2>4. e = N!InBlock(u, pc)
    BY <1>2, <2>1, <2>2 DEF N!Execute
  <2>5. R!ExecuteOne(y, w) = R!Next4(d)
    BY <1>2, <2>3 DEF R!ExecuteOne
  <2>6. Keeps(u, x, {"sp"}) /\ Keeps(d, y, {"sp", "excl"})
    BY <2>2, <2>3 DEF Keeps
  <2>7. u.sp = d.sp
    BY <1>0, <2>2, <2>3 DEF IsNative, Shared, IsCore, Fields
  <2> QED
    BY <2>1, <2>4, <2>5, <2>6, <2>7, InBlockWord
<1>3. CASE w.op = "b"
  <2>1. PICK pc : pc = x.pc + 8
    OBVIOUS
  <2>2. e = N!LeaveBlock(x, pc)
    BY <1>3, <2>1 DEF N!Execute
  <2>3. PICK z : z = Jump(y, 8)
    OBVIOUS
  <2>4. R!ExecuteOne(y, w) = R!Done(z, "run")
    BY <1>3, <2>3 DEF R!ExecuteOne, Jump
  <2>5. Ends(e, x, pc, "run")
    BY <1>0, <2>2, LeaveEnds
  <2>6. f = R!Complete(R!Done(z, "run"), w) /\ "run" \in Ran /\ 8 \in Nat
    BY <2>4 DEF Ran
  <2> QED
    BY <2>1, <2>3, <2>5, <2>6, LeaveWord
<1>4. CASE w.op = "hlt"
  <2>1. PICK pc : pc = x.pc + 4
    OBVIOUS
  <2>2. PICK b : b = N!LeaveBlock(x, pc)
    OBVIOUS
  <2>3. e = WithStatus(b, "Halt")
    BY <1>4, <2>1, <2>2 DEF N!Execute, WithStatus
  <2>4. PICK z : z = Jump(y, 4)
    OBVIOUS
  <2>5. R!ExecuteOne(y, w) = R!Done(z, "Halt")
    BY <1>4, <2>4 DEF R!ExecuteOne, Jump
  <2>6. Ends(e, x, pc, "Halt")
    BY <1>0, <2>2, <2>3, LeaveEnds
  <2>7. f = R!Complete(R!Done(z, "Halt"), w) /\ "Halt" \in Ran /\ 4 \in Nat
    BY <2>5 DEF Ran
  <2> QED
    BY <2>1, <2>4, <2>6, <2>7, LeaveWord
<1> QED
  BY <1>1, <1>2, <1>3, <1>4

(* str and stp: the same fault, or the same store (jit.c, the memory       *)
(* helpers; arch.rs, store and store_pair).                                *)
LEMMA SameStoreFault ==
  ASSUME NEW x, NEW y, Open(x, y), CpuInv(y), NEW w \in Word, w.op \in {"str", "stp"},
         NEW a, a = N!StoreFault(x, w, N!Elements(w)),
         NEW b, b = IF w.op = "str" THEN R!StoreFault(y, w) ELSE R!PairFault(y, w)
  PROVE  a = b /\ a \in {"none", "SystemRegisterTrap", "AlignmentFault", "DataAbort"}
<1>0. x.el = y.el /\ x.hcr = y.hcr /\ y.m = FALSE /\ y.mmu.on = FALSE /\ y.bus = "ram"
  BY OpenFields
<1>1. w.a \in Nat /\ w.b \in Nat
  BY DEF Word
<1>2. PICK bar \in BOOLEAN : bar <=> y.el > 1 \/ y.hcr
  OBVIOUS
<1>3. PICK odd \in BOOLEAN : odd <=> ~(w.a % w.b = 0)
  OBVIOUS
<1>4. CASE w.op = "str"
  <2>1. PICK out \in BOOLEAN : out <=> ~(w.a + w.b <= RamBytes)
    OBVIOUS
  <2>2. out <=> \E i \in 0..(1 - 1) : ~N!InRam(w.a + i * w.b, w.b)
    <3>1. 0..(1 - 1) = {0}
      OBVIOUS
    <3>2. w.a + 0 * w.b = w.a
      BY <1>1
    <3> QED
      BY <2>1, <3>1, <3>2 DEF N!InRam
  <2>3. N!Elements(w) = 1
    BY <1>4 DEF N!Elements
  <2>4. a = IF bar THEN "SystemRegisterTrap" ELSE IF odd THEN "AlignmentFault"
            ELSE IF out THEN "DataAbort" ELSE "none"
    BY <1>0, <1>2, <1>3, <2>2, <2>3, Zenon DEF N!StoreFault, N!Aligned
  <2>5. b = IF bar THEN "SystemRegisterTrap" ELSE IF odd THEN "AlignmentFault"
            ELSE IF out THEN "DataAbort" ELSE "none"
    <3>1. R!Physical(y, w.a) = w.a /\ R!Mapped(y, w.a)
      BY <1>0 DEF R!Physical, R!Mapped
    <3>2. b = R!StoreFault(y, w)
      BY <1>4
    <3>3. (R!Barred(y) \/ (y.m /\ ~y.mmu.on)) <=> bar
      BY <1>0, <1>2 DEF R!Barred
    <3>4. ~R!Aligned(w.a, w.b) <=> odd
      BY <1>3 DEF R!Aligned
    <3>5. ~R!InRam(R!Physical(y, w.a), w.b) <=> out
      BY <2>1, <3>1 DEF R!InRam
    <3> QED
      BY <1>0, <3>1, <3>2, <3>3, <3>4, <3>5 DEF R!StoreFault
  <2> QED
    BY <2>4, <2>5
<1>5. CASE w.op = "stp"
  <2>1. PICK out \in BOOLEAN : out <=> \E i \in 0..1 : ~(w.a + i * w.b + w.b <= RamBytes)
    OBVIOUS
  <2>2. N!Elements(w) = 2
    BY <1>5 DEF N!Elements
  <2>3. out <=> \E i \in 0..(N!Elements(w) - 1) : ~N!InRam(w.a + i * w.b, w.b)
    <3>1. 0..(N!Elements(w) - 1) = 0..1
      BY <2>2
    <3> QED
      BY <2>1, <3>1, Zenon DEF N!InRam
  <2>4. a = IF bar THEN "SystemRegisterTrap" ELSE IF odd THEN "AlignmentFault"
            ELSE IF out THEN "DataAbort" ELSE "none"
    BY <1>0, <1>2, <1>3, <2>3, Zenon DEF N!StoreFault, N!Aligned
  <2>5. b = IF bar THEN "SystemRegisterTrap" ELSE IF odd THEN "AlignmentFault"
            ELSE IF out THEN "DataAbort" ELSE "none"
    <3>1. b = R!PairFault(y, w)
      BY <1>5
    <3>2. (R!Barred(y) \/ y.mmu.on \/ y.m) <=> bar
      BY <1>0, <1>2 DEF R!Barred
    <3>3. ~R!Aligned(w.a, w.b) <=> odd
      BY <1>3 DEF R!Aligned
    <3>4. (\E i \in 0..1 : ~R!InRam(w.a + i * w.b, w.b)) <=> out
      BY <2>1, Zenon DEF R!InRam
    <3> QED
      BY <1>0, <3>1, <3>2, <3>3, <3>4 DEF R!PairFault
  <2> QED
    BY <2>4, <2>5
<1> QED
  BY <1>4, <1>5

LEMMA StoreWords ==
  ASSUME NEW x, NEW y, Open(x, y), CpuInv(y), NEW w \in Word, w.op \in {"str", "stp"},
         NEW e, e = N!Execute(x, w), NEW f, f = R!Complete(R!ExecuteOne(y, w), w)
  PROVE  Paired(e, f)
<1>0. /\ Alike(x, y) /\ IsCore(y) /\ LevelInv(y) /\ BankInv(y) /\ Idle(y) /\ x.sp = y.sp
  BY OpenFields
<1>1. PICK a : a = N!StoreFault(x, w, N!Elements(w))
  OBVIOUS
<1>2. PICK pc : pc = x.pc + 4
  OBVIOUS
<1>3. e = IF a = "none" THEN N!InBlock(x, pc) ELSE N!Commit(N!EndBlock(x), a)
  BY <1>1, <1>2 DEF N!Execute
<1>4. PICK d : d = IF w.op = "str" THEN R!ClearOnStore(y, R!Physical(y, w.a), w.b)
                   ELSE R!PairCleared(y, w)
  OBVIOUS
<1>5. PICK b : b = IF w.op = "str" THEN R!StoreFault(y, w) ELSE R!PairFault(y, w)
  OBVIOUS
<1>6. a = b /\ a \in {"none", "SystemRegisterTrap", "AlignmentFault", "DataAbort"}
  BY <1>1, <1>5, SameStoreFault
<1>7. R!ExecuteOne(y, w) = IF b = "none" THEN R!Next4(d) ELSE R!Done(y, b)
  <2> USE DEF R!Privileged, R!Immediate, R!Exclusive, R!Device
  <2>1. CASE w.op = "str"
    <3>1. R!ExecuteOne(y, w) = R!Store(y, w)
      BY <2>1 DEF R!ExecuteOne
    <3> QED
      BY <1>4, <1>5, <2>1, <3>1 DEF R!Store
  <2>2. CASE w.op = "stp"
    <3>1. R!ExecuteOne(y, w) = R!StorePair(y, w)
      BY <2>2 DEF R!ExecuteOne
    <3> QED
      BY <1>4, <1>5, <2>2, <3>1 DEF R!StorePair
  <2> QED
    BY <2>1, <2>2
<1>8. CASE a = "none"
  <2>1. Keeps(d, y, {"excl"})
    <3>1. CASE w.op = "str"
      BY <1>4, <3>1, ClearKeeps
    <3>2. CASE w.op = "stp"
      <4>1. PICK g : g = R!ClearOnStore(y, w.a, w.b)
        OBVIOUS
      <4>2. Keeps(g, y, {"excl"})
        BY <4>1, ClearKeeps
      <4>3. d = R!ClearOnStore(g, w.a + w.b, w.b)
        BY <1>4, <3>2, <4>1 DEF R!PairCleared
      <4>4. Keeps(d, g, {"excl"})
        BY <4>3, ClearKeeps
      <4> QED
        BY <4>2, <4>4, KeepsAfter
    <3> QED
      BY <3>1, <3>2
  <2>2. Keeps(d, y, {"sp", "excl"}) /\ Keeps(x, x, {"sp"})
    BY <2>1 DEF Keeps
  <2>3. d.sp = y.sp
    BY <1>0, <2>1 DEF Keeps, IsCore, Fields
  <2>4. x.sp = d.sp /\ e = N!InBlock(x, pc) /\ f = R!Complete(R!Next4(d), w)
    BY <1>0, <1>3, <1>6, <1>7, <1>8, <2>3
  <2> QED
    BY <1>2, <2>2, <2>4, InBlockWord
<1>9. CASE a # "none"
  <2>1. a \in Kinds /\ a \notin Interrupts
    BY <1>6, <1>9 DEF Kinds, Interrupts
  <2>2. PICK v : v = N!EndBlock(x)
    OBVIOUS
  <2>3. e = N!Commit(v, a)
    BY <1>3, <1>9, <2>2
  <2>4. f = Halts(y, a)
    BY <1>6, <1>7, <1>9, <2>1, CompleteFaults
  <2> QED
    BY <1>0, <2>1, <2>2, <2>3, <2>4, FaultAgree
<1> QED
  BY <1>8, <1>9

SameOn(e, f, S) == \A n \in S : e[n] = f[n]
Apart(F, S) == F \cap S = {}

(* An instruction the slow step does.                                      *)
LEMMA SlowDone ==
  ASSUME NEW v, NEW y, Alike(v, y), v.left = 0, v.lag = 0, v.status = "run", y.pend = "none",
         NEW F, NEW G, NEW u, Keeps(u, v, F), NEW d, Keeps(d, y, G),
         Apart(F, {"cnt", "lag", "left", "status", "pc"}),
         Apart(G, {"irq", "fiq", "cnt", "pend", "bus", "ext", "pc"}),
         SameOn(u, d, (Shared \ {"pc", "tim"}) \cap (F \cup G)),
         SameProgram(u.tim, d.tim), Stacks(u, d), d.m = FALSE, d.mmu.on = FALSE,
         NEW pc, pc = v.pc + 4, NEW e, e = N!Advance(N!Retire(u, pc), 1),
         NEW w, NEW f, f = R!Complete(R!Next4(d), w)
  PROVE  Paired(e, f)
<1>a. /\ F \cap {"cnt", "lag", "left", "status", "pc"} = {}
      /\ G \cap {"irq", "fiq", "cnt", "pend", "bus", "ext", "pc"} = {}
  BY DEF Apart
<1>b. \A n \in (Shared \ {"pc", "tim"}) \cap (F \cup G) : u[n] = d[n]
  BY DEF SameOn
<1>0. IsNative(v) /\ IsCore(y) /\ Agree(v, y) /\ v.pc = y.pc /\ v.cnt \in Nat /\ y.bus = "ram"
  BY SharedFields DEF Alike, Agree, Bare
<1>1. IsNative(u) /\ IsCore(d)
  BY <1>0 DEF IsNative, IsCore, Keeps
<1>2. u.cnt = v.cnt /\ u.lag = v.lag /\ u.left = v.left /\ u.status = v.status
  BY <1>0, <1>a DEF Keeps, IsNative, Shared
<1>3. d.pc = y.pc /\ d.bus = y.bus
  BY <1>0, <1>a DEF Keeps, IsCore, Fields
<1>4. PICK z : z = Jump(d, 4)
  OBVIOUS
<1>5. Keeps(z, d, {"pc"}) /\ z.pc = pc /\ IsCore(z)
  BY <1>0, <1>1, <1>3, <1>4 DEF Keeps, IsCore, Fields, Jump
<1>6. /\ z.tim = d.tim /\ z.m = d.m /\ z.mmu = d.mmu /\ z.bus = d.bus
      /\ z.spEl = d.spEl /\ z.el = d.el /\ z.ps = d.ps
  BY <1>1, <1>5 DEF Keeps, IsCore, Fields
<1>7. Stacks(u, z)
  BY <1>6, Zenon DEF Stacks
<1>8. Keeps(z, y, G \cup {"pc"})
  BY <1>5 DEF Keeps
<1>9. Ready(u, z)
  <2>1. \A n \in (Shared \ {"pc", "tim"}) \cap (F \cup (G \cup {"pc"})) : u[n] = z[n]
    <3>1. SUFFICES ASSUME NEW n \in (Shared \ {"pc", "tim"}) \cap (F \cup (G \cup {"pc"}))
                   PROVE u[n] = z[n]
      OBVIOUS
    <3>2. n \in DOMAIN d /\ n # "pc"
      BY <1>1 DEF IsCore, Fields, Shared
    <3>3. z[n] = d[n]
      BY <1>5, <3>2 DEF Keeps
    <3>4. u[n] = d[n]
      BY <1>b, <3>2
    <3> QED
      BY <3>3, <3>4
  <2>2. SameProgram(u.tim, z.tim) /\ z.m = FALSE /\ z.mmu.on = FALSE
    BY <1>6
  <2>3. F \cap {"cnt", "lag", "left"} = {}
        /\ (G \cup {"pc"}) \cap {"irq", "fiq", "cnt", "pend", "bus", "ext"} = {}
    BY <1>a
  <2> QED
    BY <1>7, <1>8, <2>1, <2>2, <2>3, ReadyStep
<1>10. Retires(f, z, "run")
  <2>1. R!Next4(d) = R!Done(z, "run")
    BY <1>4 DEF R!Next4, Jump
  <2> QED
    BY <1>0, <1>3, <1>5, <1>6, <2>1, CompleteRuns DEF Ran
<1>11. Ends(e, u, pc, "run")
  BY <1>0, <1>1, <1>2, SlowEnds
<1> QED
  BY <1>5, <1>9, <1>10, <1>11, EndsPaired

(* DAIFSet, DAIFClr and SPSel above EL0 (jit.c, pstate_slow_step).         *)
LEMMA SamePstate ==
  ASSUME NEW v, NEW y, Agree(v, y), Stacks(v, y), LevelInv(y), y.el # 0,
         NEW w \in Word, w.op \in Immediate,
         NEW u, u = N!NewPstate(v, w), NEW d, d = R!SetPstate(y, w)
  PROVE  /\ Keeps(u, v, {"ps", "spEl", "sp"}) /\ Keeps(d, y, {"ps", "spEl", "sp"})
         /\ u.ps = d.ps /\ u.sp = d.sp /\ Stacks(u, d)
<1>0. IsNative(v) /\ IsCore(y) /\ v.ps = y.ps /\ v.sp = y.sp /\ v.el = y.el
  BY SharedFields DEF Agree
<1>1. y.ps \in Psr /\ y.el \in El /\ y.sp \in Nat
  BY DEF LevelInv
<1>2. v.spEl \in [El -> Nat] /\ y.spEl \in [El -> Nat]
      /\ \A l \in El : l # SpIndex(y.el, y.ps) => v.spEl[l] = y.spEl[l]
  BY DEF Stacks
<1>3. CASE w.op # "spsel"
  <2>1. PICK bits : bits = IF w.op = "daifset" THEN y.ps.mask \cup R!MaskBits(w.a)
                           ELSE y.ps.mask \ R!MaskBits(w.a)
    OBVIOUS
  <2>2. N!MaskBits(w.a) = R!MaskBits(w.a)
    BY DEF N!MaskBits, R!MaskBits, N!Bits, R!Bits
  <2>3. w.op = "daifset" \/ w.op = "daifclr"
    BY <1>3 DEF Immediate
  <2>4. PICK ps : ps = [y.ps EXCEPT !.mask = bits]
    OBVIOUS
  <2>5. u = [v EXCEPT !.ps = ps]
    BY <1>0, <1>3, <2>1, <2>2, <2>3, <2>4 DEF N!NewPstate
  <2>6. d = [y EXCEPT !.ps = ps]
    BY <1>0, <2>1, <2>3, <2>4 DEF R!SetPstate
  <2>7. /\ Keeps(u, v, {"ps", "spEl", "sp"}) /\ Keeps(d, y, {"ps", "spEl", "sp"})
        /\ u.ps = ps /\ d.ps = ps /\ u.sp = v.sp /\ d.sp = y.sp /\ u.spEl = v.spEl
        /\ d.spEl = y.spEl /\ d.el = y.el
    BY <1>0, <2>5, <2>6 DEF Keeps, IsNative, Shared, IsCore, Fields
  <2>8. ps.h = y.ps.h
    BY <1>1, <2>4 DEF Psr
  <2>9. SpIndex(d.el, d.ps) = SpIndex(y.el, y.ps)
    BY <2>7, <2>8 DEF SpIndex
  <2>10. Stacks(u, d)
    BY <1>2, <2>7, <2>9 DEF Stacks
  <2> QED
    BY <1>0, <2>7, <2>10
<1>4. CASE w.op = "spsel"
  <2>1. PICK i \in El : i = SpIndex(y.el, y.ps)
    BY <1>1, LevelRange
  <2>2. PICK a : a = R!SaveSp(y)
    OBVIOUS
  <2>3. /\ IsCore(a) /\ Keeps(a, y, {"spEl"}) /\ a.spEl = Put(y.spEl, i, y.sp)
    BY <1>0, <2>1, <2>2, SaveSpTyped DEF Put
  <2>4. a.ps = y.ps /\ a.el = y.el
    BY <1>0, <2>3 DEF Keeps, IsCore, Fields
  <2>5. PICK ps : ps = [y.ps EXCEPT !.h = w.a]
    OBVIOUS
  <2>6. PICK b : b = [a EXCEPT !.ps = ps]
    OBVIOUS
  <2>7. b = [a EXCEPT !.ps.h = w.a]
    BY <2>3, <2>4, <2>5, <2>6 DEF IsCore, Fields
  <2>8. /\ b.ps = ps /\ b.spEl = a.spEl /\ b.el = y.el /\ IsCore(b) /\ Keeps(b, a, {"ps"})
    BY <2>3, <2>4, <2>6 DEF IsCore, Fields, Keeps
  <2>9. PICK j \in El : j = SpIndex(y.el, ps)
    BY <1>1, LevelRange
  <2>10. R!SpIndex(b.el, b.ps) = j /\ N!SpIndex(v.el, ps) = j /\ N!SpIndex(v.el, v.ps) = i
    BY <1>0, <2>1, <2>8, <2>9, SameLevels, SameNative
  <2>11. d = [b EXCEPT !.sp = b.spEl[j]]
    BY <1>4, <2>2, <2>7, <2>10 DEF R!SetPstate
  <2>12. /\ d.sp = a.spEl[j] /\ d.ps = ps /\ d.spEl = a.spEl /\ d.el = y.el /\ Keeps(d, b, {"sp"})
    BY <2>8, <2>11 DEF IsCore, Fields, Keeps
  <2>13. PICK banks : banks = Put(v.spEl, i, y.sp)
    OBVIOUS
  <2>14. u = [v EXCEPT !.ps = ps, !.spEl = banks, !.sp = banks[j]]
    BY <1>0, <1>4, <2>5, <2>10, <2>13 DEF N!NewPstate, Put
  <2>15. u.ps = ps /\ u.spEl = banks /\ u.sp = banks[j] /\ Keeps(u, v, {"ps", "spEl", "sp"})
    BY <1>0, <2>14 DEF Keeps, IsNative, Shared
  <2>16. banks = a.spEl /\ banks \in [El -> Nat]
    BY <1>1, <1>2, <2>1, <2>3, <2>13 DEF Put
  <2>17. Keeps(d, y, {"ps", "spEl", "sp"})
    BY <2>3, <2>8, <2>12 DEF Keeps
  <2>18. Stacks(u, d)
    BY <2>12, <2>15, <2>16 DEF Stacks
  <2> QED
    BY <2>12, <2>15, <2>16, <2>17, <2>18
<1> QED
  BY <1>3, <1>4

(* Writes of system registers (arch.c, vf_cpu_write_sysreg; arch.rs,       *)
(* write_sysreg).                                                          *)
SysWords == MsrEl1 \cup MsrTimer \cup {"msr_plat", "msr_hcr"}

LEMMA ProgramsSame ==
  ASSUME NEW T \in [Timer -> TimerRec], NEW t \in Timer, NEW p \in TimerRec, NEW q \in TimerRec,
         p.en = q.en, p.im = q.im, p.cval = q.cval
  PROVE  SameProgram(Put(T, t, p), Put(T, t, q))
BY DEF SameProgram, Put

\* What a write makes of a timer's program, at the count n.
Programmed(p, old, n, w) ==
  /\ p.en = IF w.op = "msr_ctl" THEN Ctl(w.a).en ELSE old.en
  /\ p.im = IF w.op = "msr_ctl" THEN Ctl(w.a).im ELSE old.im
  /\ p.cval = IF w.op = "msr_ctl" THEN old.cval
              ELSE IF w.op = "msr_cval" THEN w.a ELSE n + w.a

LEMMA NativeTimerWritten ==
  ASSUME NEW v, IsNative(v), v.tim \in [Timer -> TimerRec], v.cnt \in Nat, NEW w \in Word,
         w.op \in MsrTimer, NEW a, a = N!Written(v, w)
  PROVE  \E p \in TimerRec : a = [v EXCEPT !.tim = Put(v.tim, w.t, p)] /\ Programmed(p, v.tim[w.t], v.cnt, w)
<1>1. w.a \in Nat /\ w.t \in Timer /\ (w.op = "msr_tval" => w.t = "P")
  BY DEF Word
<1>2. v.tim[w.t] \in TimerRec /\ "tim" \in DOMAIN v /\ w.t \in DOMAIN v.tim
  BY <1>1 DEF IsNative, Shared
<1>3. CASE w.op = "msr_ctl"
  <2>1. PICK en, im \in BOOLEAN : /\ Ctl(w.a).en = en /\ Ctl(w.a).im = im
                                  /\ R!Ctl(w.a).en = en /\ R!Ctl(w.a).im = im
    BY <1>1, CtlTyped
  <2>2. N!Ctl(w.a) = Ctl(w.a)
    BY DEF N!Ctl, Ctl
  <2>3. PICK p : p = [v.tim[w.t] EXCEPT !.en = en, !.im = im]
    OBVIOUS
  <2>4. p \in TimerRec /\ p.en = en /\ p.im = im /\ p.cval = v.tim[w.t].cval
    BY <1>2, <2>1, <2>3 DEF TimerRec
  <2>5. a = [v EXCEPT !.tim[w.t].en = en, !.tim[w.t].im = im]
    BY <1>3, <2>1, <2>2 DEF N!Written
  <2>6. a = [v EXCEPT !.tim = Put(v.tim, w.t, p)]
    BY <1>2, <2>3, <2>5 DEF Put
  <2> QED
    BY <1>3, <2>1, <2>4, <2>6 DEF Programmed
<1>4. CASE w.op \in {"msr_cval", "msr_tval"}
  <2>1. PICK n \in Nat : n = IF w.op = "msr_cval" THEN w.a ELSE v.cnt + w.a
    BY <1>1
  <2>2. PICK p : p = [v.tim[w.t] EXCEPT !.cval = n]
    OBVIOUS
  <2>3. p \in TimerRec /\ p.en = v.tim[w.t].en /\ p.im = v.tim[w.t].im /\ p.cval = n
    BY <1>2, <2>1, <2>2 DEF TimerRec
  <2>4. a = [v EXCEPT !.tim[w.t].cval = n]
    BY <1>1, <1>4, <2>1 DEF N!Written
  <2>5. a = [v EXCEPT !.tim = Put(v.tim, w.t, p)]
    BY <1>2, <2>2, <2>4 DEF Put
  <2> QED
    BY <1>4, <2>1, <2>3, <2>5 DEF Programmed
<1> QED
  BY <1>3, <1>4 DEF MsrTimer

LEMMA ReferenceTimerWritten ==
  ASSUME NEW y, IsCore(y), y.tim \in [Timer -> TimerRec], y.cnt \in Nat, NEW w \in Word,
         w.op \in MsrTimer, NEW d, d = R!Written(y, w)
  PROVE  \E p \in TimerRec : d.tim = Put(y.tim, w.t, p) /\ Programmed(p, y.tim[w.t], y.cnt, w)
<1>1. w.a \in Nat /\ w.t \in Timer /\ (w.op = "msr_tval" => w.t = "P")
  BY DEF Word
<1>2. y.tim[w.t] \in TimerRec /\ "tim" \in DOMAIN y /\ w.t \in DOMAIN y.tim
  BY <1>1 DEF IsCore, Fields
<1>3. CASE w.op = "msr_ctl"
  <2>1. PICK en, im \in BOOLEAN : /\ Ctl(w.a).en = en /\ Ctl(w.a).im = im
                                  /\ R!Ctl(w.a).en = en /\ R!Ctl(w.a).im = im
    BY <1>1, CtlTyped
  <2>2. PICK a : a = [y EXCEPT !.tim[w.t].en = en, !.tim[w.t].im = im]
    OBVIOUS
  <2>3. PICK p : p = [y.tim[w.t] EXCEPT !.en = en, !.im = im]
    OBVIOUS
  <2>4. p \in TimerRec /\ p.en = en /\ p.im = im /\ p.cval = y.tim[w.t].cval
    BY <1>2, <2>1, <2>3 DEF TimerRec
  <2>5. a.tim = Put(y.tim, w.t, p) /\ a.cnt = y.cnt /\ IsCore(a)
    BY <1>2, <2>2, <2>3 DEF Put, IsCore, Fields
  <2>6. a.tim \in [Timer -> TimerRec] /\ a.tim[w.t] = p
    BY <1>1, <2>4, <2>5 DEF Put
  <2>7. PICK b \in BOOLEAN : b = R!Pending(a, w.t)
    BY <1>1, <2>5, <2>6, PendingTyped
  <2>8. d = [a EXCEPT !.tim[w.t].is = b]
    BY <1>3, <2>1, <2>2, <2>7 DEF R!Written, R!WriteCtl
  <2>9. PICK q : q = [p EXCEPT !.is = b]
    OBVIOUS
  <2>10. q \in TimerRec /\ q.en = en /\ q.im = im /\ q.cval = y.tim[w.t].cval
    BY <2>4, <2>7, <2>9 DEF TimerRec
  <2>11. d.tim = Put(a.tim, w.t, q)
    BY <2>5, <2>6, <2>8, <2>9 DEF Put, IsCore, Fields
  <2>12. d.tim = Put(y.tim, w.t, q)
    BY <1>1, <2>4, <2>5, <2>10, <2>11 DEF Put
  <2> QED
    BY <1>3, <2>1, <2>10, <2>12 DEF Programmed
<1>4. CASE w.op \in {"msr_cval", "msr_tval"}
  <2>1. PICK n \in Nat : n = IF w.op = "msr_cval" THEN w.a ELSE y.cnt + w.a
    BY <1>1
  <2>2. PICK p : p = [y.tim[w.t] EXCEPT !.cval = n]
    OBVIOUS
  <2>3. p \in TimerRec /\ p.en = y.tim[w.t].en /\ p.im = y.tim[w.t].im /\ p.cval = n
    BY <1>2, <2>1, <2>2 DEF TimerRec
  <2>4. d = [y EXCEPT !.tim[w.t].cval = n]
    BY <1>1, <1>4, <2>1 DEF R!Written
  <2>5. d.tim = Put(y.tim, w.t, p)
    BY <1>2, <2>2, <2>4 DEF Put
  <2> QED
    BY <1>4, <2>1, <2>3, <2>5 DEF Programmed
<1> QED
  BY <1>3, <1>4 DEF MsrTimer

LEMMA TimersWritten ==
  ASSUME NEW v, NEW y, Alike(v, y), v.cnt = y.cnt, NEW w \in Word, w.op \in MsrTimer,
         NEW a, a = N!Written(v, w), NEW d, d = R!Written(y, w)
  PROVE  Keeps(a, v, {"tim"}) /\ Keeps(d, y, {"tim"}) /\ SameProgram(a.tim, d.tim)
<1>0. IsNative(v) /\ IsCore(y) /\ v.tim = y.tim /\ y.tim \in [Timer -> TimerRec] /\ y.cnt \in Nat
      /\ w.t \in Timer
  BY SharedFields DEF Alike, Agree, Word
<1>1. PICK p \in TimerRec : a = [v EXCEPT !.tim = Put(v.tim, w.t, p)] /\ Programmed(p, v.tim[w.t], v.cnt, w)
  BY <1>0, NativeTimerWritten
<1>2. PICK q \in TimerRec : d.tim = Put(y.tim, w.t, q) /\ Programmed(q, y.tim[w.t], y.cnt, w)
  BY <1>0, ReferenceTimerWritten
<1>3. p.en = q.en /\ p.im = q.im /\ p.cval = q.cval
  BY <1>0, <1>1, <1>2, Zenon DEF Programmed
<1>4. Keeps(a, v, {"tim"}) /\ a.tim = Put(y.tim, w.t, p)
  BY <1>0, <1>1 DEF Keeps, IsNative, Shared
<1>5. Keeps(d, y, {"tim"})
  <2>1. Target(w.op) = {"tim"}
    BY DEF Target, MsrTimer
  <2>2. Keeps(d, y, Target(w.op))
    BY WrittenKeeps
  <2> QED
    BY <2>1, <2>2
<1>6. SameProgram(Put(y.tim, w.t, p), Put(y.tim, w.t, q))
  BY <1>0, <1>3, ProgramsSame
<1> QED
  BY <1>2, <1>4, <1>5, <1>6

Registers == {"ovI", "ovF", "hcr", "m", "ttbr", "tcr", "vbar", "elr", "spsr"}

\* Not a write that turns the walker on.
KeepsOff(w) == ~(w.op = "msr_sctlr" /\ w.a = 1)

LEMMA RegistersWritten ==
  ASSUME NEW v, NEW y, Agree(v, y), y.m = FALSE, NEW w \in Word, w.op \in SysWords, w.op \notin MsrTimer,
         N!Admits(v, w), KeepsOff(w),
         NEW a, a = N!Written(v, w), NEW d, d = R!Written(y, w)
  PROVE  /\ Keeps(a, v, Target(w.op)) /\ Keeps(d, y, Target(w.op))
         /\ Target(w.op) \subseteq Registers
         /\ SameOn(a, d, Target(w.op))
         /\ d.m = FALSE
<1>0. /\ IsNative(v) /\ IsCore(y) /\ v.vbar = y.vbar /\ v.elr = y.elr /\ v.spsr = y.spsr
  BY SharedFields DEF Agree
<1>1. Keeps(d, y, Target(w.op))
  BY WrittenKeeps
<1>2. Target(w.op) \subseteq Registers
  BY DEF SysWords, MsrEl1, MsrTimer, Target, Registers
<1>3. w.op # "msr_sctlr" => "m" \notin Target(w.op)
  BY DEF SysWords, MsrEl1, MsrTimer, Target
<1>4. w.op # "msr_sctlr" => d.m = FALSE
  BY <1>0, <1>1, <1>3 DEF Keeps, IsCore, Fields
<1>5. CASE w.op = "msr_plat"
  <2>1. N!FieldValid(w.a) /\ N!FieldValid(w.b)
    BY <1>5 DEF N!Admits, N!MsrEl1, N!MsrTimer
  <2>2. a = [v EXCEPT !.ovI = w.a, !.ovF = w.b]
    BY <1>5, <2>1 DEF N!Written, N!Configure
  <2>3. d = [y EXCEPT !.ovI = w.a, !.ovF = w.b]
    BY <1>5 DEF R!Written
  <2>4. a.ovI = d.ovI /\ a.ovF = d.ovF
    BY <1>0, <2>2, <2>3 DEF IsNative, Shared, IsCore, Fields
  <2>5. Keeps(a, v, {"ovI", "ovF"}) /\ Target(w.op) = {"ovI", "ovF"}
    BY <1>5, <2>2 DEF Keeps, Target
  <2> QED
    BY <1>1, <1>2, <1>4, <1>5, <2>4, <2>5 DEF SameOn
<1>6. CASE w.op = "msr_hcr"
  <2>1. PICK b \in BOOLEAN : b = (w.a = 1)
    OBVIOUS
  <2>2. a = [v EXCEPT !.hcr = b]
    BY <1>6, <2>1 DEF N!Written
  <2>3. d = [y EXCEPT !.hcr = b]
    BY <1>6, <2>1 DEF R!Written
  <2>4. a.hcr = d.hcr
    BY <1>0, <2>2, <2>3 DEF IsNative, Shared, IsCore, Fields
  <2>5. Keeps(a, v, {"hcr"}) /\ Target(w.op) = {"hcr"}
    BY <1>6, <2>2 DEF Keeps, Target
  <2> QED
    BY <1>1, <1>2, <1>4, <1>6, <2>4, <2>5 DEF SameOn
<1>7. CASE w.op = "msr_sctlr"
  <2>1. (w.a = 1) = FALSE
    BY <1>7 DEF KeepsOff
  <2>2. a = [v EXCEPT !.m = FALSE]
    BY <1>7, <2>1 DEF N!Written
  <2>3. d = [y EXCEPT !.m = FALSE]
    BY <1>7, <2>1 DEF R!Written
  <2>4. a.m = d.m /\ d.m = FALSE
    BY <1>0, <2>2, <2>3 DEF IsNative, Shared, IsCore, Fields
  <2>5. Keeps(a, v, {"m"}) /\ Target(w.op) = {"m"}
    BY <1>7, <2>2 DEF Keeps, Target
  <2> QED
    BY <1>1, <1>2, <2>4, <2>5 DEF SameOn
<1>8. CASE w.op = "msr_ttbr"
  <2>1. a = [v EXCEPT !.ttbr = w.a] /\ d = [y EXCEPT !.ttbr = w.a]
    BY <1>8 DEF N!Written, R!Written
  <2>2. a.ttbr = d.ttbr
    BY <1>0, <2>1 DEF IsNative, Shared, IsCore, Fields
  <2>3. Keeps(a, v, {"ttbr"}) /\ Target(w.op) = {"ttbr"}
    BY <1>8, <2>1 DEF Keeps, Target
  <2> QED
    BY <1>1, <1>2, <1>4, <1>8, <2>2, <2>3 DEF SameOn
<1>9. CASE w.op = "msr_tcr"
  <2>1. a = [v EXCEPT !.tcr = w.a] /\ d = [y EXCEPT !.tcr = w.a]
    BY <1>9 DEF N!Written, R!Written
  <2>2. a.tcr = d.tcr
    BY <1>0, <2>1 DEF IsNative, Shared, IsCore, Fields
  <2>3. Keeps(a, v, {"tcr"}) /\ Target(w.op) = {"tcr"}
    BY <1>9, <2>1 DEF Keeps, Target
  <2> QED
    BY <1>1, <1>2, <1>4, <1>9, <2>2, <2>3 DEF SameOn
<1>10. CASE w.op = "msr_vbar"
  <2>1. a = [v EXCEPT !.vbar[1] = w.a] /\ d = [y EXCEPT !.vbar[1] = w.a]
    BY <1>10 DEF N!Written, R!Written
  <2>2. a.vbar = Put(v.vbar, 1, w.a) /\ d.vbar = Put(y.vbar, 1, w.a)
    BY <1>0, <2>1 DEF IsNative, Shared, IsCore, Fields, Put
  <2>3. Keeps(a, v, {"vbar"}) /\ Target(w.op) = {"vbar"}
    BY <1>10, <2>1 DEF Keeps, Target
  <2> QED
    BY <1>0, <1>1, <1>2, <1>4, <1>10, <2>2, <2>3 DEF SameOn
<1>11. CASE w.op = "msr_elr"
  <2>1. a = [v EXCEPT !.elr[1] = w.a] /\ d = [y EXCEPT !.elr[1] = w.a]
    BY <1>11 DEF N!Written, R!Written
  <2>2. a.elr = Put(v.elr, 1, w.a) /\ d.elr = Put(y.elr, 1, w.a)
    BY <1>0, <2>1 DEF IsNative, Shared, IsCore, Fields, Put
  <2>3. Keeps(a, v, {"elr"}) /\ Target(w.op) = {"elr"}
    BY <1>11, <2>1 DEF Keeps, Target
  <2> QED
    BY <1>0, <1>1, <1>2, <1>4, <1>11, <2>2, <2>3 DEF SameOn
<1>12. CASE w.op = "msr_spsr"
  <2>1. PICK ps : ps = [lvl |-> w.a, h |-> w.b, mask |-> {}]
    OBVIOUS
  <2>2. a = [v EXCEPT !.spsr[1] = ps] /\ d = [y EXCEPT !.spsr[1] = ps]
    BY <1>12, <2>1 DEF N!Written, R!Written
  <2>3. a.spsr = Put(v.spsr, 1, ps) /\ d.spsr = Put(y.spsr, 1, ps)
    BY <1>0, <2>2 DEF IsNative, Shared, IsCore, Fields, Put
  <2>4. Keeps(a, v, {"spsr"}) /\ Target(w.op) = {"spsr"}
    BY <1>12, <2>2 DEF Keeps, Target
  <2> QED
    BY <1>0, <1>1, <1>2, <1>4, <1>12, <2>3, <2>4 DEF SameOn
<1>13. CASE w.op = "mrs_el1"
  <2>1. a = v /\ Target(w.op) = {}
    BY <1>13 DEF N!Written, Target
  <2>2. Keeps(a, v, {})
    BY <2>1 DEF Keeps
  <2> QED
    BY <1>1, <1>2, <1>4, <1>13, <2>1, <2>2 DEF SameOn
<1> QED
  BY <1>5, <1>6, <1>7, <1>8, <1>9, <1>10, <1>11, <1>12, <1>13 DEF SysWords, MsrEl1

(* A system register write both cores accept.                              *)
LEMMA SysregDone ==
  ASSUME NEW v, NEW y, Alike(v, y), v.left = 0, v.lag = 0, v.cnt = y.cnt, v.status = "run",
         y.pend = "none", MmuInv(y), NEW w \in Word, w.op \in SysWords,
         N!Admits(v, w), R!SysregFault(y, w) = "none", KeepsOff(w),
         NEW u, u = N!WriteSysreg(v, w), NEW pc, pc = v.pc + 4,
         NEW e, e = N!Advance(N!Retire(u, pc), 1),
         NEW f, f = R!Complete(R!Sysreg(y, w), w)
  PROVE  Paired(e, f)
<1>0. /\ IsNative(v) /\ IsCore(y) /\ Agree(v, y) /\ Stacks(v, y) /\ v.tim = y.tim /\ v.cnt \in Nat
      /\ y.m = FALSE /\ y.mmu.on = FALSE /\ y.tim \in [Timer -> TimerRec]
  BY SharedFields DEF Alike, Agree, Bare
<1>1. PICK a : a = N!Written(v, w)
  OBVIOUS
<1>2. PICK d : d = R!Written(y, w)
  OBVIOUS
<1> DEFINE T == Registers \cup {"tim"}
<1>3. /\ Keeps(a, v, T) /\ Keeps(d, y, T) /\ d.m = FALSE
      /\ SameProgram(a.tim, d.tim)
      /\ \A n \in Registers : a[n] = d[n]
  <2>1. CASE w.op \in MsrTimer
    <3>1. Keeps(a, v, {"tim"}) /\ Keeps(d, y, {"tim"}) /\ SameProgram(a.tim, d.tim)
      BY <1>1, <1>2, <2>1, TimersWritten
    <3>2. Keeps(a, v, T) /\ Keeps(d, y, T)
      BY <3>1 DEF Keeps
    <3>3. d.m = y.m
      BY <1>0, <3>1 DEF Keeps, IsCore, Fields
    <3>4. ASSUME NEW n \in Registers PROVE a[n] = d[n]
      <4>1. n \in Shared /\ n # "tim" /\ n \in DOMAIN v /\ n \in DOMAIN y
        BY <1>0 DEF Registers, Shared, IsNative, IsCore, Fields
      <4> QED
        BY <1>0, <3>1, <4>1 DEF Keeps, Agree
    <3> QED
      BY <1>0, <3>1, <3>2, <3>3, <3>4
  <2>2. CASE w.op \notin MsrTimer
    <3>1. /\ Keeps(a, v, Target(w.op)) /\ Keeps(d, y, Target(w.op))
          /\ Target(w.op) \subseteq Registers
          /\ SameOn(a, d, Target(w.op))
          /\ d.m = FALSE
      BY <1>0, <1>1, <1>2, <2>2, RegistersWritten
    <3>2. Keeps(a, v, T) /\ Keeps(d, y, T)
      BY <3>1 DEF Keeps
    <3>3. "tim" \notin Target(w.op)
      BY <3>1 DEF Registers
    <3>4. a.tim = v.tim /\ d.tim = y.tim
      BY <1>0, <3>1, <3>3 DEF Keeps, IsNative, Shared, IsCore, Fields
    <3>5. SameProgram(a.tim, d.tim)
      BY <1>0, <3>4 DEF SameProgram
    <3>6. ASSUME NEW n \in Registers PROVE a[n] = d[n]
      <4>1. n \in Shared /\ n \in DOMAIN v /\ n \in DOMAIN y
        BY <1>0 DEF Registers, Shared, IsNative, IsCore, Fields
      <4> QED
        BY <1>0, <3>1, <4>1 DEF Keeps, Agree, SameOn
    <3> QED
      BY <3>1, <3>2, <3>5, <3>6
  <2> QED
    BY <2>1, <2>2
<1>4. IsNative(a) /\ IsCore(d) /\ a.cnt = v.cnt
  BY <1>0, <1>3 DEF Keeps, IsNative, IsCore, Fields, Shared, Registers
<1>5. u = N!UpdateTimers(a)
  BY <1>1 DEF N!WriteSysreg
<1>6. Keeps(u, a, {"tim"}) /\ u.tim = Shown(a.tim, a.cnt)
  BY <1>4, <1>5, UpdateShows
<1>7. Keeps(u, v, T)
  BY <1>3, <1>6 DEF Keeps
<1>8. SameProgram(u.tim, d.tim)
  <2>1. a.tim \in [Timer -> TimerRec] /\ a.cnt \in Nat
    BY <1>0, <1>3, <1>4 DEF SameProgram
  <2>2. SameProgram(Shown(a.tim, a.cnt), a.tim)
    BY <2>1, ShownTyped
  <2> QED
    BY <1>3, <1>6, <2>2 DEF SameProgram
<1>9. PICK g : /\ R!Sysreg(y, w) = R!Next4(g) /\ Keeps(g, d, {"mmu"}) /\ g.mmu.on = FALSE
  <2>1. d.mmu = y.mmu /\ y.mmu \in [on : BOOLEAN, ttbr : Nat, tcr : Nat]
    BY <1>0, <1>3 DEF Keeps, IsCore, Fields, Registers, MmuInv
  <2>2. CASE ~R!Synced(y, w)
    <3>1. R!Sysreg(y, w) = R!Next4(d)
      BY <1>2, <2>2 DEF R!Sysreg
    <3>2. Keeps(d, d, {"mmu"})
      BY DEF Keeps
    <3> QED
      BY <1>0, <2>1, <3>1, <3>2
  <2>3. CASE R!Synced(y, w)
    <3>1. ~R!SyncFails(d)
      BY <1>3 DEF R!SyncFails
    <3>2. PICK g : g = R!SyncMmu(d)
      OBVIOUS
    <3>3. R!Sysreg(y, w) = R!Next4(g)
      BY <1>2, <2>3, <3>1, <3>2 DEF R!Sysreg
    <3>4. g = [d EXCEPT !.mmu.on = FALSE]
      BY <1>3, <3>2 DEF R!SyncMmu
    <3>5. g.mmu = [d.mmu EXCEPT !.on = FALSE]
      BY <1>4, <3>4 DEF IsCore, Fields
    <3>6. g.mmu.on = FALSE
      BY <2>1, <3>5
    <3>7. Keeps(g, d, {"mmu"})
      BY <3>2, SyncKeeps
    <3> QED
      BY <3>3, <3>6, <3>7
  <2> QED
    BY <2>2, <2>3
<1>10. /\ g.m = d.m /\ g.tim = d.tim /\ g.spEl = d.spEl /\ g.el = d.el /\ g.ps = d.ps
  BY <1>4, <1>9 DEF Keeps, IsCore, Fields
<1>11. d.spEl = y.spEl /\ d.el = y.el /\ d.ps = y.ps /\ u.spEl = v.spEl
  BY <1>0, <1>3, <1>7 DEF Keeps, IsCore, Fields, IsNative, Registers
<1>12. Stacks(u, g)
  BY <1>0, <1>10, <1>11, Zenon DEF Stacks
<1>13. Keeps(g, y, T \cup {"mmu"})
  BY <1>3, <1>9 DEF Keeps
<1>14. \A n \in (Shared \ {"pc", "tim"}) \cap (T \cup (T \cup {"mmu"})) : u[n] = g[n]
  <2>1. SUFFICES ASSUME NEW n \in (Shared \ {"pc", "tim"}) \cap (T \cup (T \cup {"mmu"}))
                 PROVE u[n] = g[n]
    OBVIOUS
  <2>2. n \in Registers /\ n # "tim" /\ n # "mmu" /\ n \in DOMAIN a /\ n \in DOMAIN d
    BY <1>4 DEF Shared, Registers, IsNative, IsCore, Fields
  <2>3. u[n] = a[n] /\ g[n] = d[n] /\ a[n] = d[n]
    BY <1>3, <1>6, <1>9, <2>2 DEF Keeps
  <2> QED
    BY <2>3
<1>15. SameProgram(u.tim, g.tim) /\ g.m = FALSE
  BY <1>3, <1>8, <1>10
<1>16. /\ T \cap {"cnt", "lag", "left", "status", "pc"} = {}
       /\ (T \cup {"mmu"}) \cap {"irq", "fiq", "cnt", "pend", "bus", "ext", "pc"} = {}
  BY DEF Registers
<1>17. f = R!Complete(R!Next4(g), w)
  BY <1>9
<1>18. PICK F : F = T
  OBVIOUS
<1>19. PICK G : G = T \cup {"mmu"}
  OBVIOUS
<1>20. /\ Keeps(u, v, F) /\ Keeps(g, y, G)
       /\ Apart(F, {"cnt", "lag", "left", "status", "pc"})
       /\ Apart(G, {"irq", "fiq", "cnt", "pend", "bus", "ext", "pc"})
       /\ SameOn(u, g, (Shared \ {"pc", "tim"}) \cap (F \cup G))
  BY <1>7, <1>13, <1>14, <1>16, <1>18, <1>19 DEF Apart, SameOn
<1> HIDE DEF T
<1> QED
  BY <1>9, <1>12, <1>15, <1>17, <1>20, SlowDone

(* The accesses both cores refuse, with the same exception.                *)
LEMMA SysregSame ==
  ASSUME NEW v, NEW y, Agree(v, y), y.el \in El, NEW w \in Word, w.op \in SysWords,
         ~ReferenceOnly(y, w), NEW kind, kind = N!Boundary(v, w), NEW s, s = R!SysregFault(y, w)
  PROVE  \/ s = "none" /\ N!Admits(v, w) /\ kind # "PrivilegedInstruction"
         \/ s = "PrivilegedInstruction" /\ kind = "PrivilegedInstruction"
         \/ s = "SystemRegisterTrap" /\ kind = "SystemRegisterTrap" /\ ~N!Admits(v, w)
<1>0. v.el = y.el /\ v.prof = y.prof /\ v.hcr = y.hcr
  BY SharedFields
<1>1. y.el \in Int /\ y.el >= 0
  BY DEF El
<1> USE DEF N!Immediate, N!MsrEl1, N!MsrTimer, N!Exclusive, R!MsrEl1
<1>2. CASE w.op = "msr_plat"
  <2>1. kind = "SystemRegisterTrap"
    BY <1>2 DEF N!Boundary
  <2>2. PICK b \in BOOLEAN : b <=> /\ y.prof = 1 /\ y.el = 1 /\ ~y.hcr
                                   /\ R!FieldValid(w.a) /\ R!FieldValid(w.b)
    OBVIOUS
  <2>3. N!Admits(v, w) <=> b
    BY <1>0, <1>2, <2>2 DEF N!Admits, N!FieldValid, R!FieldValid
  <2>4. s = IF b THEN "none" ELSE "SystemRegisterTrap"
    BY <1>2, <2>2 DEF R!SysregFault
  <2> QED
    BY <2>1, <2>3, <2>4
<1>3. CASE w.op = "msr_hcr"
  <2>1. ~(y.el < 2)
    BY <1>3 DEF ReferenceOnly
  <2>2. kind = "SystemRegisterTrap"
    BY <1>3 DEF N!Boundary
  <2>3. N!Admits(v, w)
    BY <1>0, <1>1, <1>3, <2>1 DEF N!Admits
  <2>4. s = "none"
    BY <1>1, <1>3, <2>1 DEF R!SysregFault, R!Minimum
  <2> QED
    BY <2>2, <2>3, <2>4
<1>4. CASE w.op \in MsrEl1
  <2>1. R!Minimum(w) = 1
    BY <1>4 DEF R!Minimum, MsrEl1
  <2>2. CASE y.el = 0
    <3>1. kind = "PrivilegedInstruction"
      BY <1>0, <1>4, <2>2 DEF N!Boundary, MsrEl1
    <3>2. s = "PrivilegedInstruction"
      BY <1>4, <2>1, <2>2 DEF R!SysregFault, MsrEl1
    <3> QED
      BY <3>1, <3>2
  <2>3. CASE y.el # 0
    <3>1. kind = "SystemRegisterTrap"
      BY <1>0, <1>4, <2>3 DEF N!Boundary, MsrEl1
    <3>2. PICK b \in BOOLEAN : b <=> (w.op = "msr_ttbr" /\ w.a = 2) \/ (w.op = "msr_tcr" /\ w.a = 3)
      OBVIOUS
    <3>3. s = IF b THEN "SystemRegisterTrap" ELSE "none"
      BY <1>1, <1>4, <2>1, <2>3, <3>2 DEF R!SysregFault, MsrEl1
    <3>4. y.el >= 1
      BY <1>1, <2>3
    <3>5. CASE w.op = "msr_ttbr"
      BY <1>0, <3>1, <3>2, <3>3, <3>4, <3>5 DEF N!Admits
    <3>6. CASE w.op = "msr_tcr"
      BY <1>0, <3>1, <3>2, <3>3, <3>4, <3>6 DEF N!Admits
    <3>7. CASE w.op \notin {"msr_ttbr", "msr_tcr"}
      <4>1. N!Admits(v, w)
        BY <1>0, <1>4, <3>4, <3>7 DEF N!Admits, MsrEl1
      <4> QED
        BY <3>1, <3>2, <3>3, <3>7, <4>1
    <3> QED
      BY <3>5, <3>6, <3>7
  <2> QED
    BY <2>2, <2>3
<1>5. CASE w.op \in MsrTimer
  <2>1. kind = "SystemRegisterTrap"
    BY <1>5 DEF N!Boundary, MsrTimer
  <2>2. N!Admits(v, w)
    BY <1>5 DEF N!Admits, MsrTimer
  <2>3. s = "none"
    BY <1>1, <1>5 DEF R!SysregFault, R!Minimum, MsrTimer
  <2> QED
    BY <2>1, <2>2, <2>3
<1> QED
  BY <1>2, <1>3, <1>4, <1>5 DEF SysWords

SlowOps == SysWords \cup Immediate \cup {"undef", "eret", "wfi"}

(* Every instruction that leaves the compiled code.                        *)
LEMMA SlowWords ==
  ASSUME NEW x, NEW y, Open(x, y), CpuInv(y), MmuInv(y), NEW w \in Word, w.op \in SlowOps,
         ~ReferenceOnly(y, w),
         NEW e, e = N!Execute(x, w), NEW f, f = R!Complete(R!ExecuteOne(y, w), w)
  PROVE  Paired(e, f)
<1>0. /\ Alike(x, y) /\ IsCore(y) /\ LevelInv(y) /\ BankInv(y) /\ Idle(y) /\ x.status = "run"
      /\ y.pend = "none" /\ IsNative(x) /\ y.m = FALSE /\ y.mmu.on = FALSE
      /\ SameProgram(y.tim, y.tim)
  BY OpenFields
<1>1. PICK v : v = N!EndBlock(x)
  OBVIOUS
<1>2. Alike(v, y) /\ v.left = 0 /\ v.lag = 0 /\ v.cnt = y.cnt
  BY <1>0, <1>1, EndBlockAlike
<1>3. Agree(v, y) /\ Stacks(v, y)
  BY <1>2 DEF Alike
<1>4. /\ v.el = y.el /\ v.m = FALSE /\ v.status = y.status /\ v.tim = y.tim
  BY <1>0, <1>3, SharedFields
<1>5. v.status = "run" /\ y.el \in El
  BY <1>0, <1>4 DEF Open, LevelInv
<1>6. e = N!SlowStep(v, w)
  BY <1>1 DEF N!Execute, SlowOps, SysWords, MsrEl1, MsrTimer, Immediate
<1>7. PICK kind : kind = N!Boundary(v, w)
  OBVIOUS
<1>8. PICK pc : pc = v.pc + 4
  OBVIOUS
<1>9. e = IF kind = "PrivilegedInstruction" THEN N!Commit(v, kind)
          ELSE IF N!Admits(v, w) THEN N!Advance(N!Retire(N!WriteSysreg(v, w), pc), 1)
          ELSE IF N!SetsPstate(v, w) THEN N!Advance(N!Retire(N!NewPstate(v, w), pc), 1)
          ELSE N!Commit(v, kind)
  BY <1>6, <1>7, <1>8, Zenon DEF N!SlowStep
<1>10. ASSUME NEW k \in Faults, e = N!Commit(v, k), R!ExecuteOne(y, w) = R!Done(y, k)
       PROVE  Paired(e, f)
  <2>1. k \in Kinds /\ k \notin Interrupts
    BY DEF Faults
  <2>2. f = Halts(y, k)
    BY <1>10, <2>1, CompleteFaults
  <2> QED
    BY <1>0, <1>1, <1>10, <2>1, <2>2, FaultAgree
<1>11. {"PrivilegedInstruction", "UndefinedInstruction", "SystemRegisterTrap"} \subseteq Faults
  BY DEF Faults, Kinds, Interrupts
<1> USE DEF N!Immediate, N!MsrEl1, N!MsrTimer, N!Exclusive, R!Privileged, R!Immediate, R!Exclusive,
            R!Device
<1>12. CASE w.op = "undef"
  <2>1. kind = "UndefinedInstruction"
    BY <1>7, <1>12 DEF N!Boundary
  <2>2. ~N!Admits(v, w)
    BY <1>12 DEF N!Admits
  <2>3. ~N!SetsPstate(v, w)
    BY <1>12 DEF N!SetsPstate
  <2>4. R!ExecuteOne(y, w) = R!Done(y, "UndefinedInstruction")
    BY <1>12 DEF R!ExecuteOne
  <2> QED
    BY <1>9, <1>10, <1>11, <2>1, <2>2, <2>3, <2>4
<1>13. CASE w.op \in Immediate \cup {"eret", "wfi"} /\ y.el = 0
  <2>1. kind = "PrivilegedInstruction"
    BY <1>4, <1>7, <1>13 DEF N!Boundary, Immediate
  <2>2. R!ExecuteOne(y, w) = R!Done(y, "PrivilegedInstruction")
    BY <1>13 DEF R!ExecuteOne, Immediate
  <2> QED
    BY <1>9, <1>10, <1>11, <2>1, <2>2
<1>14. CASE w.op \in {"eret", "wfi"} /\ y.el # 0
  <2>1. y.el > 0
    BY <1>5, <1>14 DEF El
  <2> QED
    BY <1>14, <2>1 DEF ReferenceOnly
<1>15. CASE w.op \in Immediate /\ y.el # 0
  <2>1. kind = "SystemRegisterTrap"
    BY <1>4, <1>7, <1>15 DEF N!Boundary, Immediate
  <2>2. ~N!Admits(v, w)
    BY <1>15 DEF N!Admits, Immediate
  <2>3. N!SetsPstate(v, w)
    BY <1>4, <1>15 DEF N!SetsPstate, Immediate
  <2>4. PICK u : u = N!NewPstate(v, w)
    OBVIOUS
  <2>5. PICK d : d = R!SetPstate(y, w)
    OBVIOUS
  <2>6. e = N!Advance(N!Retire(u, pc), 1)
    BY <1>9, <2>1, <2>2, <2>3, <2>4
  <2>7. f = R!Complete(R!Next4(d), w)
    BY <1>15, <2>5 DEF R!ExecuteOne, Immediate
  <2>8. PICK F : F = {"ps", "spEl", "sp"}
    OBVIOUS
  <2>9. /\ Keeps(u, v, F) /\ Keeps(d, y, F) /\ u.ps = d.ps /\ u.sp = d.sp /\ Stacks(u, d)
    BY <1>0, <1>3, <1>15, <2>4, <2>5, <2>8, SamePstate
  <2>10. /\ Apart(F, {"cnt", "lag", "left", "status", "pc"})
         /\ Apart(F, {"irq", "fiq", "cnt", "pend", "bus", "ext", "pc"})
         /\ SameOn(u, d, (Shared \ {"pc", "tim"}) \cap (F \cup F))
    BY <2>8, <2>9 DEF Apart, SameOn, Shared
  <2>11. u.tim = v.tim /\ d.tim = y.tim /\ d.m = y.m /\ d.mmu = y.mmu
    <3>1. IsNative(v)
      BY <1>3 DEF Agree
    <3> QED
      BY <1>0, <2>8, <2>9, <3>1 DEF Keeps, IsNative, Shared, IsCore, Fields
  <2>12. SameProgram(u.tim, d.tim) /\ d.m = FALSE /\ d.mmu.on = FALSE
    BY <1>0, <1>4, <2>11
  <2> QED
    BY <1>0, <1>2, <1>5, <1>8, <2>6, <2>7, <2>9, <2>10, <2>12, SlowDone
<1>16. CASE w.op \in SysWords
  <2>1. PICK s : s = R!SysregFault(y, w)
    OBVIOUS
  <2>2. \/ s = "none" /\ N!Admits(v, w) /\ kind # "PrivilegedInstruction"
        \/ s = "PrivilegedInstruction" /\ kind = "PrivilegedInstruction"
        \/ s = "SystemRegisterTrap" /\ kind = "SystemRegisterTrap" /\ ~N!Admits(v, w)
    BY <1>3, <1>5, <1>7, <1>16, <2>1, SysregSame
  <2>3. R!ExecuteOne(y, w) = R!Sysreg(y, w)
    BY <1>16 DEF R!ExecuteOne, SysWords, MsrEl1, MsrTimer
  <2>4. s # "none" => R!Sysreg(y, w) = R!Done(y, s)
    BY <2>1 DEF R!Sysreg
  <2>5. ~N!SetsPstate(v, w)
    BY <1>16 DEF N!SetsPstate, SysWords, MsrEl1, MsrTimer
  <2>6. CASE s = "none" /\ N!Admits(v, w) /\ kind # "PrivilegedInstruction"
    <3>1. KeepsOff(w)
      BY DEF KeepsOff, ReferenceOnly
    <3>2. PICK u : u = N!WriteSysreg(v, w)
      OBVIOUS
    <3>3. e = N!Advance(N!Retire(u, pc), 1)
      BY <1>9, <2>6, <3>2
    <3>4. f = R!Complete(R!Sysreg(y, w), w)
      BY <2>3
    <3> QED
      BY <1>0, <1>2, <1>5, <1>8, <1>16, <2>1, <2>6, <3>1, <3>2, <3>3, <3>4, SysregDone
  <2>7. CASE s = "PrivilegedInstruction" /\ kind = "PrivilegedInstruction"
    BY <1>9, <1>10, <1>11, <2>3, <2>4, <2>7
  <2>8. CASE s = "SystemRegisterTrap" /\ kind = "SystemRegisterTrap" /\ ~N!Admits(v, w)
    BY <1>9, <1>10, <1>11, <2>3, <2>4, <2>5, <2>8
  <2> QED
    BY <2>2, <2>6, <2>7, <2>8
<1> QED
  BY <1>12, <1>13, <1>14, <1>15, <1>16 DEF SlowOps

(* One instruction of both cores, whatever the word.                       *)
LEMMA StepAgree ==
  ASSUME NEW x, NEW y, Paired(x, y), CpuInv(y), MmuInv(y), y.status = "run", NEW w \in Word,
         ~ReferenceOnly(y, w), NEW e, e = N!Step(x, w), NEW f, f = R!Step(y, w)
  PROVE  Paired(e, f)
<1>1. PICK d : d = N!Dispatch(x)
  OBVIOUS
<1>2. PICK p : p = R!Poll(y)
  OBVIOUS
<1>3. e = IF d.status # "run" THEN d ELSE N!Execute(d, w)
  BY <1>1 DEF N!Step
<1>4. f = IF y.retired >= Budget THEN WithStatus(y, "Budget")
          ELSE IF p.status # "run" THEN p ELSE R!Complete(R!ExecuteOne(p, w), w)
  BY <1>2 DEF R!Step, WithStatus
<1>5. \/ y.retired >= Budget /\ Paired(d, WithStatus(y, "Budget")) /\ d.status # "run"
      \/ ~(y.retired >= Budget) /\ p.status # "run" /\ Paired(d, p) /\ d.status # "run"
      \/ ~(y.retired >= Budget) /\ p = y /\ Open(d, y) /\ d.status = "run"
  BY <1>1, <1>2, DispatchAgree
<1>6. CASE y.retired >= Budget /\ Paired(d, WithStatus(y, "Budget")) /\ d.status # "run"
  BY <1>3, <1>4, <1>6
<1>7. CASE ~(y.retired >= Budget) /\ p.status # "run" /\ Paired(d, p) /\ d.status # "run"
  BY <1>3, <1>4, <1>7
<1>8. CASE ~(y.retired >= Budget) /\ p = y /\ Open(d, y) /\ d.status = "run"
  <2>1. e = N!Execute(d, w) /\ f = R!Complete(R!ExecuteOne(y, w), w)
    BY <1>3, <1>4, <1>8
  <2>2. \/ w.op \in {"nop", "addsp", "b", "hlt"} \/ w.op \in {"str", "stp"} \/ w.op \in SlowOps
    BY DEF Word, Op, ReferenceOnly, SlowOps, SysWords, MsrEl1, MsrTimer, Immediate, Exclusive, Device
  <2> QED
    BY <1>8, <2>1, <2>2, SimpleWords, StoreWords, SlowWords
<1> QED
  BY <1>5, <1>6, <1>7, <1>8

-----------------------------------------------------------------------------
(* The cores of the specification. *)

AllOff == [t \in Timer |-> R!TimerOff]

Fresh(x, y, bus) ==
  /\ Agree(x, y)
  /\ x.cnt = 0 /\ x.left = 0 /\ x.lag = 0
  /\ y.cnt = 0 /\ y.bus = bus /\ y.ext = FALSE /\ y.m = FALSE /\ y.mmu.on = FALSE
  /\ y.tim = AllOff /\ y.pend = "none"

LEMMA ResetAgree ==
  ASSUME NEW el, NEW bus, NEW x, x = N!Reset(el), NEW y, y = R!Reset(el, bus)
  PROVE  Fresh(x, y, bus)
<1>1. IsNative(x) /\ IsCore(y)
  BY DEF N!Reset, R!Reset, IsNative, IsCore, Shared, Fields
<1>2. PICK ps : ps = R!WithMode([mask |-> {}], el)
  OBVIOUS
<1>3. PICK zero : zero = R!WithMode([mask |-> {}], 0)
  OBVIOUS
<1>4. /\ N!WithMode([mask |-> {}], el) = ps /\ N!WithMode([mask |-> {}], 0) = zero
  BY <1>2, <1>3 DEF N!WithMode, R!WithMode, N!ModeOf, R!ModeOf
<1>5. PICK tim : tim = AllOff
  OBVIOUS
<1>6. N!TimerOff = R!TimerOff
  BY DEF N!TimerOff, R!TimerOff
<1>7. /\ y.el = el /\ y.ps = ps /\ y.pc = 0 /\ y.sp = 0 /\ y.spsr = [l \in Bank |-> zero]
      /\ y.elr = [l \in Bank |-> 0] /\ y.esr = [l \in Bank |-> "none"]
      /\ y.vbar = [l \in Bank |-> 0] /\ y.pend = "none" /\ y.target = 0 /\ y.lower = FALSE
      /\ y.vector = 0 /\ y.tim = tim /\ y.prof = 0 /\ y.ovI = 0 /\ y.ovF = 0 /\ y.irq = FALSE
      /\ y.fiq = FALSE /\ y.hcr = FALSE /\ y.m = FALSE /\ y.ttbr = 0 /\ y.tcr = 0
      /\ y.retired = 0 /\ y.status = "run"
  BY <1>2, <1>3, <1>5 DEF R!Reset, R!Bank, Bank, R!Timer, Timer, AllOff
<1>8. /\ x.el = el /\ x.ps = ps /\ x.pc = 0 /\ x.sp = 0 /\ x.spsr = [l \in Bank |-> zero]
      /\ x.elr = [l \in Bank |-> 0] /\ x.esr = [l \in Bank |-> "none"]
      /\ x.vbar = [l \in Bank |-> 0] /\ x.pend = "none" /\ x.target = 0 /\ x.lower = FALSE
      /\ x.vector = 0 /\ x.tim = tim /\ x.prof = 0 /\ x.ovI = 0 /\ x.ovF = 0 /\ x.irq = FALSE
      /\ x.fiq = FALSE /\ x.hcr = FALSE /\ x.m = FALSE /\ x.ttbr = 0 /\ x.tcr = 0
      /\ x.retired = 0 /\ x.status = "run"
  BY <1>4, <1>5, <1>6 DEF N!Reset, N!Bank, Bank, N!Timer, Timer, AllOff
<1>9. Agree(x, y)
  <2>1. PICK s0, l0, e0, v0 : /\ s0 = [l \in Bank |-> zero] /\ l0 = [l \in Bank |-> 0]
                              /\ e0 = [l \in Bank |-> "none"] /\ v0 = [l \in Bank |-> 0]
    OBVIOUS
  <2>2. x.spsr = s0 /\ y.spsr = s0 /\ x.elr = l0 /\ y.elr = l0 /\ x.esr = e0 /\ y.esr = e0
        /\ x.vbar = v0 /\ y.vbar = v0
    BY <1>7, <1>8, <2>1
  <2>3. /\ x.el = y.el /\ x.ps = y.ps /\ x.pc = y.pc /\ x.sp = y.sp /\ x.spsr = y.spsr
        /\ x.elr = y.elr /\ x.esr = y.esr /\ x.vbar = y.vbar /\ x.pend = y.pend
        /\ x.target = y.target /\ x.lower = y.lower /\ x.vector = y.vector
    BY <1>7, <1>8, <2>2
  <2>4. /\ x.tim = y.tim /\ x.prof = y.prof /\ x.ovI = y.ovI /\ x.ovF = y.ovF /\ x.irq = y.irq
        /\ x.fiq = y.fiq /\ x.hcr = y.hcr /\ x.m = y.m /\ x.ttbr = y.ttbr /\ x.tcr = y.tcr
        /\ x.retired = y.retired /\ x.status = y.status
    BY <1>7, <1>8
  <2>5. ASSUME NEW n \in Shared PROVE x[n] = y[n]
    BY <2>3, <2>4 DEF Shared
  <2> QED
    BY <1>1, <2>5 DEF Agree
<1>10. x.cnt = 0 /\ x.left = 0 /\ x.lag = 0
  BY DEF N!Reset
<1>11. y.cnt = 0 /\ y.bus = bus /\ y.ext = FALSE /\ y.mmu.on = FALSE
  BY DEF R!Reset
<1> QED
  BY <1>5, <1>7, <1>9, <1>10, <1>11 DEF Fresh

BootFields == {"ps", "prof", "irq", "fiq", "spEl", "sp", "vbar"}

LEMMA BootPaired ==
  ASSUME NEW b \in BootState, NEW x, NEW y, Fresh(x, y, "ram"),
         NEW e, e = Booted(x, b), NEW f, f = Booted(y, b)
  PROVE  Paired(e, f)
<1>1. /\ Agree(x, y) /\ x.cnt = 0 /\ x.left = 0 /\ x.lag = 0
      /\ y.cnt = 0 /\ y.bus = "ram" /\ y.ext = FALSE /\ y.m = FALSE /\ y.mmu.on = FALSE
      /\ y.tim = AllOff
  BY DEF Fresh
<1>2. IsNative(x) /\ IsCore(y) /\ x.ps = y.ps
  BY <1>1, SharedFields DEF Agree
<1>3. PICK ps : ps = [y.ps EXCEPT !.mask = b.mask]
  OBVIOUS
<1>4. PICK sps : sps = [l \in El |-> 16 * l + 16]
  OBVIOUS
<1>5. PICK vb : vb = [l \in Bank |-> 4096 * l]
  OBVIOUS
<1>6. e = [x EXCEPT !.ps = ps, !.prof = b.prof, !.irq = b.irq, !.fiq = b.fiq,
                    !.spEl = sps, !.sp = 16 * b.el + 16, !.vbar = vb]
  BY <1>2, <1>3, <1>4, <1>5 DEF Booted, IsNative, Shared
<1>7. f = [y EXCEPT !.ps = ps, !.prof = b.prof, !.irq = b.irq, !.fiq = b.fiq,
                    !.spEl = sps, !.sp = 16 * b.el + 16, !.vbar = vb]
  BY <1>2, <1>3, <1>4, <1>5 DEF Booted, IsCore, Fields
<1>8. Keeps(e, x, BootFields) /\ Keeps(f, y, BootFields)
  BY <1>6, <1>7 DEF Keeps, BootFields
<1>9. /\ e.ps = ps /\ e.prof = b.prof /\ e.irq = b.irq /\ e.fiq = b.fiq /\ e.spEl = sps
      /\ e.sp = 16 * b.el + 16 /\ e.vbar = vb
  BY <1>2, <1>6 DEF IsNative, Shared
<1>10. /\ f.ps = ps /\ f.prof = b.prof /\ f.irq = b.irq /\ f.fiq = b.fiq /\ f.spEl = sps
       /\ f.sp = 16 * b.el + 16 /\ f.vbar = vb
  BY <1>2, <1>7 DEF IsCore, Fields
<1>11. Agree(e, f)
  <2>1. \A n \in Shared \cap (BootFields \cup BootFields) : e[n] = f[n]
    BY <1>9, <1>10 DEF BootFields, Shared
  <2> QED
    BY <1>1, <1>8, <2>1, AgreeStep
<1>12. Stacks(e, f)
  <2>1. sps \in [El -> Nat]
    BY <1>4 DEF El
  <2> QED
    BY <1>9, <1>10, <2>1 DEF Stacks
<1>13. e.cnt = 0 /\ e.left = 0 /\ e.lag = 0
  BY <1>1, <1>2, <1>8 DEF Keeps, IsNative, Shared, BootFields
<1>14. /\ f.cnt = 0 /\ f.bus = "ram" /\ f.ext = FALSE /\ f.m = FALSE /\ f.mmu.on = FALSE
       /\ f.tim = AllOff /\ f.pend = y.pend
  BY <1>1, <1>2, <1>8 DEF Keeps, IsCore, Fields, BootFields
<1>15. f.pend = "none"
  <2>1. y.pend = "none"
    BY DEF Fresh
  <2> QED
    BY <1>14, <2>1
<1>16. f.irq \in BOOLEAN /\ f.fiq \in BOOLEAN
  BY <1>10 DEF BootState
<1>17. f.tim \in [Timer -> TimerRec]
  <2>1. PICK off : off = R!TimerOff
    OBVIOUS
  <2>2. off \in TimerRec
    BY <2>1 DEF R!TimerOff, TimerRec
  <2> QED
    BY <1>14, <2>1, <2>2 DEF AllOff
<1>18. f.tim = Shown(f.tim, 0)
  <2>1. PICK off : off = R!TimerOff
    OBVIOUS
  <2>2. off \in TimerRec /\ off.en = FALSE /\ off.is = FALSE
    BY <2>1 DEF R!TimerOff, TimerRec
  <2>3. PICK T : T = f.tim
    OBVIOUS
  <2>4. T = [t \in Timer |-> off]
    BY <1>14, <2>1, <2>3 DEF AllOff
  <2>5. ASSUME NEW t \in Timer PROVE Shown(T, 0)[t] = off
    <3>1. T[t] = off
      BY <2>4
    <3>2. Shown(T, 0)[t] = [off EXCEPT !.is = off.en /\ ~off.im /\ 0 >= off.cval]
      BY <3>1 DEF Shown
    <3>3. (off.en /\ ~off.im /\ 0 >= off.cval) = FALSE
      BY <2>2
    <3>4. Shown(T, 0)[t] = [off EXCEPT !.is = FALSE]
      BY <3>2, <3>3
    <3> QED
      BY <2>2, <3>4 DEF TimerRec
  <2>6. Shown(T, 0) = [t \in Timer |-> Shown(T, 0)[t]]
    BY DEF Shown
  <2> QED
    BY <2>3, <2>4, <2>5, <2>6
<1>19. Bare(f)
  BY <1>14 DEF Bare
<1>20. e.left + e.lag <= BlockMax /\ e.cnt + e.lag = f.cnt
  BY <1>13, <1>14, CpuPairAssumption
<1>21. f.tim = Shown(f.tim, f.cnt) /\ f.cnt \in Nat /\ e.cnt \in Nat /\ e.lag \in Nat /\ e.left \in Nat
  BY <1>13, <1>14, <1>18
<1>22. Alike(e, f)
  BY <1>11, <1>12, <1>16, <1>17, <1>19, <1>20, <1>21 DEF Alike
<1> QED
  BY <1>13, <1>15, <1>22 DEF Paired, Recorded

LEMMA InitPair == Init => PairInv
<1> SUFFICES ASSUME Init PROVE PairInv
  OBVIOUS
<1>1. PICK b \in Families[fam].boots :
            /\ c = IF b.bus = "ram" THEN Booted(N!Reset(b.el), b) ELSE Parked
            /\ r = Booted(R!Reset(b.el, b.bus), b)
            /\ pair = (b.bus = "ram")
  BY DEF Init
<1>2. b \in BootState
  BY CpuPairAssumption DEF Init
<1>3. CASE b.bus = "ram"
  <2>1. c = Booted(N!Reset(b.el), b) /\ r = Booted(R!Reset(b.el, "ram"), b)
    BY <1>1, <1>3
  <2>2. PICK x, y : x = N!Reset(b.el) /\ y = R!Reset(b.el, "ram")
    OBVIOUS
  <2>3. Fresh(x, y, "ram")
    BY <2>2, ResetAgree
  <2>4. Paired(c, r)
    BY <1>2, <2>1, <2>2, <2>3, BootPaired
  <2> QED
    BY <1>1, <1>3, <2>4 DEF PairInv
<1>4. CASE b.bus # "ram"
  BY <1>1, <1>4 DEF PairInv
<1> QED
  BY <1>3, <1>4

LEMMA TakePaired ==
  ASSUME NEW x, NEW y, Paired(x, y), CpuInv(y), y.status # "run", y.pend # "none",
         NEW e, e = N!Take(x), NEW f, f = R!Take(y)
  PROVE  Paired(e, f)
<1>0. /\ Alike(x, y) /\ Recorded(x, y) /\ Agree(x, y) /\ Stacks(x, y) /\ y.ext = FALSE
      /\ x.left \in Nat /\ LevelInv(y) /\ BankInv(y) /\ IsCore(y)
  BY DEF Paired, Alike, Bare, CpuInv
<1>1. x.left = 0 /\ x.lag = 0
  BY <1>0 DEF Paired
<1>2. y.pend \in Kinds /\ y.target \in Bank
  BY DEF CpuInv, Waits, Idle
<1>3. PICK to \in Bank : y.target = to
  BY <1>2
<1>4. /\ x.spEl[SpIndex(y.el, y.ps)] = y.sp /\ y.spsr[to] = y.ps
      /\ (y.pend \notin Interrupts => y.esr[to] = y.pend) /\ (y.lower <=> y.el = 0)
  BY <1>0, <1>3 DEF Recorded
<1>5. /\ Agree(e, f) /\ Stacks(e, f)
      /\ Keeps(e, x, Taken) /\ Keeps(f, y, Taken) /\ f.pend = "none"
  BY <1>0, <1>2, <1>3, <1>4, TakeAgree
<1>6. Keeps(e, x, Polled) /\ Keeps(f, y, Polled)
  BY <1>5, KeepsWithin DEF Polled
<1>7. f.ext = FALSE
  BY <1>0, <1>5 DEF Keeps, Taken, Raised, Banked, IsCore, Fields
<1>8. Recorded(e, f)
  BY <1>5 DEF Recorded
<1> QED
  BY <1>0, <1>1, <1>5, <1>6, <1>7, <1>8, StopsPaired

LEMMA NextPair == CoreInv /\ LevelsInv /\ PairInv /\ [Next]_vars => PairInv'
<1> SUFFICES ASSUME CoreInv, LevelsInv, PairInv, [Next]_vars PROVE PairInv'
  OBVIOUS
<1>0. CpuInv(r) /\ MmuInv(r) /\ pair \in BOOLEAN
  BY DEF LevelsInv, CoreInv, PairInv
<1>1. ASSUME NEW w \in Families[fam].words, Step(w) PROVE PairInv'
  <2>1. w \in Word
    BY CpuPairAssumption DEF CoreInv
  <2>2. /\ r.status = "run" /\ r' = R!Step(r, w)
        /\ pair' = (pair /\ ~ReferenceOnly(r, w))
        /\ c' = IF pair' THEN N!Step(c, w) ELSE Parked
    BY <1>1 DEF Step
  <2>3. pair' \in BOOLEAN
    BY <2>2
  <2>4. CASE pair'
    <3>1. pair /\ ~ReferenceOnly(r, w) /\ c' = N!Step(c, w)
      BY <2>2, <2>4
    <3>2. Paired(c, r)
      BY <3>1 DEF PairInv
    <3>3. Paired(c', r')
      BY <1>0, <2>1, <2>2, <3>1, <3>2, StepAgree
    <3> QED
      BY <2>3, <2>4, <3>3 DEF PairInv
  <2>5. CASE ~pair'
    BY <2>2, <2>3, <2>5 DEF PairInv, Parked
  <2> QED
    BY <2>4, <2>5
<1>2. ASSUME TakePending PROVE PairInv'
  <2>1. /\ r' = R!Take(r) /\ r.status # "run" /\ r.pend # "none" /\ pair' = pair
        /\ c' = IF pair THEN N!Take(c) ELSE Parked
    BY <1>2 DEF TakePending
  <2>2. CASE pair
    <3>1. Paired(c, r) /\ c' = N!Take(c)
      BY <2>1, <2>2 DEF PairInv
    <3>2. Paired(c', r')
      BY <1>0, <2>1, <3>1, TakePaired
    <3> QED
      BY <1>0, <2>1, <2>2, <3>2 DEF PairInv
  <2>3. CASE ~pair
    BY <1>0, <2>1, <2>3 DEF PairInv, Parked
  <2> QED
    BY <2>2, <2>3
<1>3. ASSUME NEW l \in Families[fam].lines, RunAgain(l[1], l[2]) PROVE PairInv'
  BY <1>3 DEF RunAgain, PairInv, Parked
<1>4. ASSUME NEW on \in BOOLEAN, SetSource(on) PROVE PairInv'
  <2>1. r.bus = "m1" /\ c' = c /\ pair' = pair
    BY <1>4 DEF SetSource
  <2>2. ~pair
    BY <2>1 DEF PairInv, Paired, Alike, Bare
  <2> QED
    BY <1>0, <2>1, <2>2 DEF PairInv, Parked
<1>5. ASSUME UNCHANGED vars PROVE PairInv'
  <2>1. c' = c /\ r' = r /\ pair' = pair
    BY <1>5 DEF vars
  <2> QED
    BY <2>1, Zenon DEF PairInv, Parked
<1> QED
  BY <1>1, <1>2, <1>3, <1>4, <1>5 DEF Next, Ended

LEMMA PairedSees ==
  ASSUME NEW x, NEW y, Paired(x, y), LevelInv(y)
  PROVE  /\ [x.spEl EXCEPT ![SpIndex(x.el, x.ps)] = 0] = [y.spEl EXCEPT ![SpIndex(y.el, y.ps)] = 0]
         /\ x.left = 0 => x.cnt = y.cnt
<1>1. Agree(x, y) /\ Stacks(x, y) /\ x.cnt \in Nat /\ y.cnt \in Nat /\ x.lag \in Nat
      /\ x.cnt + x.lag = y.cnt
  BY DEF Paired, Alike
<1>2. PICK i \in El : i = SpIndex(y.el, y.ps)
  BY LevelRange DEF LevelInv
<1>3. SpIndex(x.el, x.ps) = i
  BY <1>1, <1>2, SharedFields
<1>4. [x.spEl EXCEPT ![i] = 0] = [y.spEl EXCEPT ![i] = 0]
  BY <1>1, <1>2 DEF Stacks
<1>5. x.left = 0 => x.lag = 0
  BY DEF Paired
<1> QED
  BY <1>1, <1>2, <1>3, <1>4, <1>5

(* The native core, which polls and counts between blocks only, stops      *)
(* where the reference core stops and shows what it shows (jit.c, vf_run   *)
(* and execute_native_block; arch.rs, run_bounded_with_bus), as long as no *)
(* instruction they are not written to agree on has been executed.         *)
THEOREM NativeFollowsReference == Spec => []NativeAgrees
<1>1. LevelsInv /\ PairInv => NativeAgrees
  <2> SUFFICES ASSUME LevelsInv, PairInv, pair PROVE NativeAgrees
    BY DEF NativeAgrees
  <2>1. Paired(c, r) /\ LevelInv(r)
    BY DEF PairInv, LevelsInv, CpuInv
  <2>2. Agree(c, r)
    BY <2>1 DEF Paired, Alike
  <2>3. /\ [c.spEl EXCEPT ![SpIndex(c.el, c.ps)] = 0] = [r.spEl EXCEPT ![SpIndex(r.el, r.ps)] = 0]
        /\ c.left = 0 => c.cnt = r.cnt
    BY <2>1, PairedSees
  <2>4. /\ c.el = r.el /\ c.ps = r.ps /\ c.pc = r.pc /\ c.sp = r.sp /\ c.spsr = r.spsr
        /\ c.elr = r.elr /\ c.esr = r.esr /\ c.vbar = r.vbar /\ c.pend = r.pend
        /\ c.target = r.target /\ c.lower = r.lower /\ c.vector = r.vector
        /\ c.tim = r.tim /\ c.ovI = r.ovI /\ c.ovF = r.ovF
        /\ c.hcr = r.hcr /\ c.m = r.m
        /\ c.ttbr = r.ttbr /\ c.tcr = r.tcr /\ c.retired = r.retired /\ c.status = r.status
    BY <2>2, SharedFields
  <2> QED
    BY <2>3, <2>4, Zenon DEF NativeAgrees
<1> QED
  BY <1>1, InitCore, NextCore, InitLevels, NextLevels, InitPair, NextPair, PTL DEF Spec

-----------------------------------------------------------------------------
(* Types. *)

LEMMA CoreTyped ==
  ASSUME NEW y, CpuInv(y)
  PROVE  Common(y) /\ R!StateValid(y)
<1>1. /\ LevelInv(y) /\ BankInv(y) /\ CountInv(y) /\ (Idle(y) \/ Waits(y))
  BY DEF CpuInv
<1>2. /\ y.pend \in Kinds \cup {"none"} /\ y.target \in El
      /\ (y.target = 0 <=> y.pend = "none") /\ (y.lower => y.el < y.target)
  BY <1>1 DEF Idle, Waits, Kinds, Interrupts, Bank, El
<1>3. R!ModeValid(y.el, y.ps)
  BY <1>1 DEF LevelInv, ModeValid, R!ModeValid
<1> QED
  BY <1>1, <1>2, <1>3 DEF Common, R!StateValid, LevelInv, BankInv, CountInv

LEMMA NativeTyped ==
  ASSUME NEW x, NEW y, Paired(x, y), CpuInv(y)
  PROVE  /\ Common(x) /\ N!StateValid(x)
         /\ x.left \in 0..BlockMax /\ x.lag \in 0..BlockMax
<1>1. /\ Agree(x, y) /\ x.spEl \in [El -> Nat]
      /\ x.cnt \in Nat /\ x.lag \in Nat /\ x.left \in Nat /\ x.left + x.lag <= BlockMax
  BY DEF Paired, Alike, Stacks
<1>2. Common(y) /\ ModeValid(y.el, y.ps)
  BY CoreTyped DEF CpuInv, LevelInv
<1>3. /\ x.el = y.el /\ x.ps = y.ps /\ x.pc = y.pc /\ x.sp = y.sp /\ x.spsr = y.spsr
      /\ x.elr = y.elr /\ x.esr = y.esr /\ x.vbar = y.vbar /\ x.pend = y.pend
      /\ x.target = y.target /\ x.vector = y.vector /\ x.retired = y.retired
  BY <1>1, SharedFields
<1>4. Common(x)
  BY <1>1, <1>2, <1>3 DEF Common
<1>5. N!StateValid(x)
  BY <1>2, <1>3, <1>4, SameNative DEF N!StateValid, Common
<1>6. x.left \in 0..BlockMax /\ x.lag \in 0..BlockMax
  BY <1>1, CpuPairAssumption
<1> QED
  BY <1>4, <1>5, <1>6

LEMMA ParkedTyped ==
  ASSUME NEW x, x = Parked
  PROVE  /\ Common(x) /\ N!StateValid(x)
         /\ x.left \in 0..BlockMax /\ x.lag \in 0..BlockMax
<1>1. PICK ps : ps = N!WithMode([mask |-> {}], 1)
  OBVIOUS
<1>2. PICK zero : zero = N!WithMode([mask |-> {}], 0)
  OBVIOUS
<1>3. ps \in Psr /\ zero \in Psr /\ ModeValid(1, ps)
  BY <1>1, <1>2 DEF N!WithMode, N!ModeOf, Psr, ModeValid, Bits, El
<1>4. /\ x.el = 1 /\ x.ps = ps /\ x.pc = 0 /\ x.sp = 0 /\ x.spEl = [l \in El |-> 0]
      /\ x.spsr = [l \in Bank |-> zero] /\ x.elr = [l \in Bank |-> 0]
      /\ x.esr = [l \in Bank |-> "none"] /\ x.vbar = [l \in Bank |-> 0]
      /\ x.pend = "none" /\ x.target = 0 /\ x.vector = 0 /\ x.cnt = 0 /\ x.retired = 0
      /\ x.left = 0 /\ x.lag = 0
  BY <1>1, <1>2 DEF Parked, N!Reset, N!El, El, N!Bank, Bank
<1>5. /\ x.spEl \in [El -> Nat] /\ x.spsr \in [Bank -> Psr] /\ x.elr \in [Bank -> Nat]
      /\ x.esr \in [Bank -> Kinds \cup {"none"}] /\ x.vbar \in [Bank -> Nat]
  BY <1>3, <1>4
<1>6. x.el \in El /\ x.target \in El /\ x.retired \in 0..Budget
  BY <1>4, CpuPairAssumption DEF El
<1>7. Common(x)
  BY <1>3, <1>4, <1>5, <1>6 DEF Common
<1>8. N!StateValid(x)
  BY <1>3, <1>4, <1>6, SameNative DEF N!StateValid
<1> QED
  BY <1>4, <1>7, <1>8, CpuPairAssumption

RunsInv == runs \in 1..MaxRuns

LEMMA InitRuns == Init => RunsInv
BY CpuPairAssumption DEF Init, RunsInv

LEMMA NextRuns == RunsInv /\ [Next]_vars => RunsInv'
<1> SUFFICES ASSUME RunsInv, [Next]_vars PROVE RunsInv'
  OBVIOUS
<1>1. ASSUME NEW w, Step(w) PROVE runs' = runs
  BY <1>1 DEF Step
<1>2. ASSUME TakePending PROVE runs' = runs
  BY <1>2 DEF TakePending
<1>3. ASSUME NEW p, NEW q, RunAgain(p, q) PROVE runs < MaxRuns /\ runs' = runs + 1
  BY <1>3 DEF RunAgain
<1>4. ASSUME NEW on, SetSource(on) PROVE runs' = runs
  BY <1>4 DEF SetSource
<1>5. ASSUME UNCHANGED vars PROVE runs' = runs
  BY <1>5 DEF vars
<1>6. runs' = runs \/ (runs < MaxRuns /\ runs' = runs + 1)
  BY <1>1, <1>2, <1>3, <1>4, <1>5 DEF Next, Ended
<1> QED
  BY <1>6, CpuPairAssumption DEF RunsInv

(* Whatever a guest executes and in whatever order a caller enters         *)
(* exceptions and starts runs, both cores are well typed, their modes      *)
(* agree with their levels and a pending exception with its target: no     *)
(* run is refused as a bad input (arch.c, vf_cpu_state_valid; arch.rs,     *)
(* GuestCpuState::state_valid).                                            *)
THEOREM CoresWellFormed == Spec => []CpuTypeOK
<1>1. CoreInv /\ LevelsInv /\ PairInv /\ RunsInv => CpuTypeOK
  <2> SUFFICES ASSUME CoreInv, LevelsInv, PairInv, RunsInv PROVE CpuTypeOK
    OBVIOUS
  <2>1. CpuInv(r) /\ r.status # "Input"
    BY DEF LevelsInv, CpuInv
  <2>2. Common(r) /\ R!StateValid(r)
    BY <2>1, CoreTyped
  <2>3. /\ Common(c) /\ N!StateValid(c)
        /\ c.left \in 0..BlockMax /\ c.lag \in 0..BlockMax
    <3>1. CASE pair
      <4>1. Paired(c, r)
        BY <3>1 DEF PairInv
      <4> QED
        BY <2>1, <4>1, NativeTyped
    <3>2. CASE ~pair
      <4>1. c = Parked
        BY <3>2 DEF PairInv
      <4> QED
        BY <4>1, ParkedTyped
    <3> QED
      BY <3>1, <3>2
  <2>4. pair \in BOOLEAN /\ ideal \subseteq 0..(RamBytes - 1) /\ runs \in 1..MaxRuns
    BY DEF PairInv, CoreInv, MonitorOf, RunsInv
  <2> QED
    BY <2>1, <2>2, <2>3, <2>4 DEF CpuTypeOK
<1> QED
  BY <1>1, InitCore, NextCore, InitLevels, NextLevels, InitPair, NextPair, InitRuns, NextRuns, PTL DEF Spec
=============================================================================
