---------------------------- MODULE ReferenceCpu ----------------------------
(***************************************************************************)
(* The reference core, runtime/preos/src/arch.rs, and the bus of the       *)
(* machine graph it runs on, runtime/preos/src/m1.rs.  It executes one     *)
(* instruction at a time and polls before each; what the native core       *)
(* leaves out (ERET, WFI, exclusives, translation, devices) it has.        *)
(*                                                                         *)
(* A core is a record.  g is the graph's timer and its interrupt           *)
(* controller: aicT and aicO are the pending bits of the timer's source    *)
(* and of any other, routed to this processor and enabled.                 *)
(***************************************************************************)
EXTENDS CpuWords

CONSTANT Regimes  \* the pairs <<TTBR, TCR>> that VfMmu::configure_tcr accepts

TimerOff == [en |-> FALSE, im |-> FALSE, is |-> FALSE, cval |-> 0]

Reset(el, bus) ==
    [el |-> el, ps |-> WithMode([mask |-> {}], el), pc |-> 0, sp |-> 0,
     spEl |-> [l \in El |-> 0], spsr |-> [l \in Bank |-> WithMode([mask |-> {}], 0)],
     elr |-> [l \in Bank |-> 0], esr |-> [l \in Bank |-> "none"],
     vbar |-> [l \in Bank |-> 0],
     pend |-> "none", target |-> 0, lower |-> FALSE, vector |-> 0,
     cnt |-> 0, tim |-> [t \in Timer |-> TimerOff],
     prof |-> 0, ovI |-> 0, ovF |-> 0, irq |-> FALSE, fiq |-> FALSE,
     ext |-> FALSE, hcr |-> FALSE, m |-> FALSE, ttbr |-> 0, tcr |-> 0,
     mmu |-> [on |-> FALSE, ttbr |-> 0, tcr |-> 0],
     excl |-> [valid |-> FALSE, addr |-> 0, size |-> 0],
     bus |-> bus,
     g |-> [cnt |-> 0, cmp |-> 0, en |-> FALSE, im |-> FALSE,
            aicT |-> FALSE, aicO |-> FALSE],
     waiting |-> FALSE, retired |-> 0, status |-> "run"]

StateValid(r) ==
    /\ ModeValid(r.el, r.ps)
    /\ r.target = 0 <=> r.pend = "none"
    /\ r.lower => r.el < r.target

\* GenericTimer::pending: computed when asked, whatever the status bit says.
Pending(r, t) == r.tim[t].en /\ ~r.tim[t].im /\ r.cnt >= r.tim[t].cval

AdvanceCounter(r) ==
    LET d == [r EXCEPT !.cnt = @ + 1]
    IN [d EXCEPT !.tim = [t \in Timer |-> [@[t] EXCEPT !.is = Pending(d, t)]]]

-----------------------------------------------------------------------------
\* Exceptions.

WriteBank(r, to, kind, pc) ==
    [r EXCEPT !.spsr[to] = r.ps, !.elr[to] = pc,
              !.esr[to] = IF kind \in Interrupts THEN @ ELSE kind]

Raise(r, kind) ==
    IF r.pend # "none" THEN r
    ELSE [WriteBank(r, TargetEl(r.el), kind, r.pc) EXCEPT
             !.pend = kind, !.target = TargetEl(r.el),
             !.lower = r.el # TargetEl(r.el)]

SaveSp(r) == [r EXCEPT !.spEl[SpIndex(r.el, r.ps)] = r.sp]

Offset(kind, from, ps) ==
    (IF from = 0 THEN 1024 ELSE IF ps.h = 1 THEN 512 ELSE 0)
    + (CASE kind \in {"TimerInterrupt", "ExternalInterrupt"} -> 128
         [] kind = "FiqInterrupt" -> 256
         [] OTHER -> 0)

Enter(r, to, at) ==
    [r EXCEPT !.el = to, !.ps = [WithMode(r.ps, to) EXCEPT !.mask = Bits],
              !.sp = r.spEl[to], !.pc = at, !.vector = at,
              !.pend = "none", !.target = 0, !.lower = FALSE]

\* Mutant: the interrupted stack pointer is not saved.
Take_NoSave(r) ==
    LET d == WriteBank(r, r.target, r.pend, r.elr[r.target])
    IN Enter(d, r.target, r.vbar[r.target] + Offset(r.pend, r.el, r.ps))

\* take_pending_exception.  A pending exception has the ELR of its bank.
Take(r) ==
    LET d == WriteBank(SaveSp(r), r.target, r.pend, r.elr[r.target])
    IN Enter(d, r.target, r.vbar[r.target] + Offset(r.pend, r.el, r.ps))

Routed(r) == r.el > 1 \/ r.hcr

Eligible(r) ==
    LET over(f) == IF r.prof = 1 THEN f ELSE 0
    IN IF r.fiq /\ over(r.ovF) # 2 /\ "F" \notin r.ps.mask THEN "FiqInterrupt"
       ELSE IF "I" \in r.ps.mask \/ over(r.ovI) = 2 THEN "none"
       ELSE IF \E t \in Timer : Pending(r, t) THEN "TimerInterrupt"
       ELSE IF r.irq \/ r.ext THEN "ExternalInterrupt" ELSE "none"

\* poll_interrupt and commit_pending_interrupt.  An external interrupt
\* consumes the processor's bit of the routed sources.
Poll(r) ==
    LET kind == Eligible(r)
        d == IF kind = "ExternalInterrupt" THEN [r EXCEPT !.ext = FALSE] ELSE r
    IN IF r.pend # "none" THEN r
       ELSE IF (r.irq \/ r.fiq \/ r.ext \/ \E t \in Timer : Pending(r, t)) /\ Routed(r)
       THEN [Raise(r, "SystemRegisterTrap") EXCEPT !.status = "SystemRegisterTrap"]
       ELSE IF kind = "none" THEN r
       ELSE [Take(Raise(d, kind)) EXCEPT !.status = kind]

-----------------------------------------------------------------------------
\* What an instruction leaves: the core and "run", "Halt", "Wait" or the kind
\* of exception it raises.

Done(r, how) == [core |-> r, how |-> how]
Next4(r) == Done([r EXCEPT !.pc = @ + 4], "run")

\* Mutant: any saved mode is restored.
Restorable_Any(ps) == TRUE

\* level_for_mode.
Restorable(ps) == ps.lvl \in El /\ ModeValid(ps.lvl, ps)

Eret(r) ==
    LET ps == r.spsr[r.el]
        d == SaveSp(r)
    IN IF ~Restorable(ps) THEN Done(r, "UndefinedInstruction")
       ELSE Done([d EXCEPT !.ps = ps, !.pc = r.elr[r.el], !.el = ps.lvl,
                           !.sp = d.spEl[ps.lvl]], "run")

SetPstate(r, w) ==
    CASE w.op = "daifset" -> [r EXCEPT !.ps.mask = @ \cup MaskBits(w.a)]
      [] w.op = "daifclr" -> [r EXCEPT !.ps.mask = @ \ MaskBits(w.a)]
      [] OTHER -> LET d == [SaveSp(r) EXCEPT !.ps.h = w.a]
                  IN [d EXCEPT !.sp = d.spEl[SpIndex(d.el, d.ps)]]

-----------------------------------------------------------------------------
\* System registers.

Minimum(w) == CASE w.op = "msr_hcr" -> 2 [] w.op \in MsrEl1 -> 1 [] OTHER -> 0

\* The accesses refused before anything is written.
SysregFault(r, w) ==
    IF w.op = "msr_plat"
    THEN IF /\ r.prof = 1 /\ r.el = 1 /\ ~r.hcr
            /\ FieldValid(w.a) /\ FieldValid(w.b)
         THEN "none" ELSE "SystemRegisterTrap"
    ELSE IF r.el < Minimum(w) THEN "PrivilegedInstruction"
    ELSE IF (w.op = "msr_ttbr" /\ w.a = 2) \/ (w.op = "msr_tcr" /\ w.a = 3)
    THEN "SystemRegisterTrap" ELSE "none"

WriteCtl(r, t, n) ==
    LET d == [r EXCEPT !.tim[t].en = Ctl(n).en, !.tim[t].im = Ctl(n).im]
    IN [d EXCEPT !.tim[t].is = Pending(d, t)]

Written(r, w) ==
    CASE w.op = "msr_plat" -> [r EXCEPT !.ovI = w.a, !.ovF = w.b]
      [] w.op = "msr_hcr" -> [r EXCEPT !.hcr = w.a = 1]
      [] w.op = "msr_sctlr" -> [r EXCEPT !.m = w.a = 1]
      [] w.op = "msr_ttbr" -> [r EXCEPT !.ttbr = w.a]
      [] w.op = "msr_tcr" -> [r EXCEPT !.tcr = w.a]
      [] w.op = "msr_vbar" -> [r EXCEPT !.vbar[1] = w.a]
      [] w.op = "msr_elr" -> [r EXCEPT !.elr[1] = w.a]
      [] w.op = "msr_spsr" ->
             [r EXCEPT !.spsr[1] = [lvl |-> w.a, h |-> w.b, mask |-> {}]]
      [] w.op = "msr_ctl" -> WriteCtl(r, w.t, w.a)
      [] w.op = "msr_cval" -> [r EXCEPT !.tim[w.t].cval = w.a]
      [] w.op = "msr_tval" -> [r EXCEPT !.tim["P"].cval = r.cnt + w.a]
      [] OTHER -> r

SyncFails(r) == r.m /\ <<r.ttbr, r.tcr>> \notin Regimes

SyncMmu(r) ==
    IF ~r.m THEN [r EXCEPT !.mmu.on = FALSE]
    ELSE IF SyncFails(r) THEN r
    ELSE [r EXCEPT !.mmu = [on |-> TRUE, ttbr |-> r.ttbr, tcr |-> r.tcr]]

Synced(r, w) == w.op = "msr_sctlr" \/ (w.op \in {"msr_ttbr", "msr_tcr"} /\ r.m)

\* Mutant: a refused regime leaves its register written.
Refused_Kept(r, w) == Done(SyncMmu(Written(r, w)), "SystemRegisterTrap")

\* A regime the walker refuses: the register is put back and synced again.
Refused(r, w) == Done(SyncMmu(r), "SystemRegisterTrap")

Sysreg(r, w) ==
    LET d == Written(r, w)
    IN IF SysregFault(r, w) # "none" THEN Done(r, SysregFault(r, w))
       ELSE IF ~Synced(r, w) THEN Next4(d)
       ELSE IF SyncFails(d) THEN Refused(r, w) ELSE Next4(SyncMmu(d))

-----------------------------------------------------------------------------
\* Memory.  The guest's tables map its memory twice, one copy after the other.

Mapped(r, va) == ~r.mmu.on \/ va < 2 * RamBytes
Physical(r, va) == IF r.mmu.on THEN va % RamBytes ELSE va

\* ExclusiveMonitor::clear_on_store.
Overlaps(x, addr, size) == x.addr < addr + size /\ addr < x.addr + x.size

ClearOnStore(r, addr, size) ==
    [r EXCEPT !.excl.valid = @ /\ ~Overlaps(r.excl, addr, size)]

Barred(r) == r.el > 1 \/ r.hcr

StoreFault(r, w) ==
    IF Barred(r) \/ (r.m /\ ~r.mmu.on) THEN "SystemRegisterTrap"
    ELSE IF ~Aligned(w.a, w.b)
    THEN IF r.mmu.on THEN "SystemRegisterTrap" ELSE "AlignmentFault"
    ELSE IF ~Mapped(r, w.a) THEN "TranslationFault"
    ELSE IF ~InRam(Physical(r, w.a), w.b) THEN "DataAbort" ELSE "none"

Store(r, w) ==
    IF StoreFault(r, w) # "none" THEN Done(r, StoreFault(r, w))
    ELSE Next4(ClearOnStore(r, Physical(r, w.a), w.b))

\* The bus of the graph has no pair transaction.
PairFault(r, w) ==
    IF Barred(r) \/ r.mmu.on \/ r.m THEN "SystemRegisterTrap"
    ELSE IF ~Aligned(w.a, w.b) THEN "AlignmentFault"
    ELSE IF r.bus = "m1" THEN "SystemRegisterTrap"
    ELSE IF \E i \in 0..1 : ~InRam(w.a + i * w.b, w.b) THEN "DataAbort" ELSE "none"

\* Mutant: the monitor sees the first element of a pair only.
PairCleared_First(r, w) == ClearOnStore(r, w.a, w.b)

PairCleared(r, w) == ClearOnStore(ClearOnStore(r, w.a, w.b), w.a + w.b, w.b)

StorePair(r, w) ==
    IF PairFault(r, w) # "none" THEN Done(r, PairFault(r, w))
    ELSE Next4(PairCleared(r, w))

Succeeds(r, w) ==
    r.excl = [valid |-> TRUE, addr |-> Physical(r, w.a), size |-> w.b]

ExclusiveFault(r, w) ==
    IF ~Aligned(w.a, w.b) THEN "AlignmentFault"
    ELSE IF ~Mapped(r, w.a) THEN "TranslationFault"
    ELSE IF ~InRam(Physical(r, w.a), w.b) /\ (w.op = "ldxr" \/ Succeeds(r, w))
    THEN "DataAbort" ELSE "none"

ExclusiveStep(r, w) ==
    IF ExclusiveFault(r, w) # "none" THEN Done(r, ExclusiveFault(r, w))
    ELSE IF w.op = "ldxr"
    THEN Next4([r EXCEPT !.excl = [valid |-> TRUE, addr |-> Physical(r, w.a), size |-> w.b]])
    ELSE Next4([r EXCEPT !.excl.valid = FALSE])

-----------------------------------------------------------------------------
\* The machine graph.

GraphPending(g) == g.en /\ ~g.im /\ g.cnt >= g.cmp

\* program_timer, on a guest write of the compare or of the control register.
ProgramTimer(g, cmp, ctl) ==
    LET d == [g EXCEPT !.cmp = cmp, !.en = ctl.en, !.im = ctl.im]
    IN [d EXCEPT !.aicT = @ /\ GraphPending(d)]

MmioFault(r, w) ==
    IF Barred(r) THEN "SystemRegisterTrap"
    ELSE IF r.mmu.on THEN "TranslationFault"
    ELSE IF r.bus = "ram" \/ (w.op = "mmio_ctl" /\ w.a > 3) THEN "DataAbort"
    ELSE IF w.op = "mmio_cnt" THEN "PermissionFault" ELSE "none"

\* A store to a device, and whether it programmed the timer.
MmioWritten(r, w) ==
    CASE w.op = "mmio_cmp" -> [r EXCEPT !.g = ProgramTimer(@, w.a, [en |-> @.en, im |-> @.im])]
      [] w.op = "mmio_ctl" -> [r EXCEPT !.g = ProgramTimer(@, @.cmp, Ctl(w.a))]
      [] OTHER -> [r EXCEPT !.g.aicO = TRUE]

Mmio(r, w) ==
    IF MmioFault(r, w) # "none" THEN Done(r, MmioFault(r, w))
    ELSE Next4(MmioWritten(r, w))

TimerDirty(w) == w.op \in {"mmio_cmp", "mmio_ctl"}

\* The device's programming reaches the architectural timer...
TakeProgram(r, w) ==
    IF ~TimerDirty(w) THEN r
    ELSE [r EXCEPT !.tim["P"] = [en |-> r.g.en, im |-> r.g.im, is |-> FALSE,
                                 cval |-> r.g.cmp]]

\* ... and sync_guest_timer mirrors the timer into the device.
SyncGuestTimer(r) ==
    LET p == r.tim["P"]
        g == [r.g EXCEPT !.cnt = r.cnt, !.cmp = p.cval, !.en = p.en, !.im = p.im]
    IN [r EXCEPT !.g = [g EXCEPT !.aicT = GraphPending(g)]]

RouteExternal(r) == [r EXCEPT !.ext = @ \/ r.g.aicO]

\* Mutant: the mirror comes before the device's programming is taken.
AfterInstruction_SyncFirst(r, w) ==
    IF r.bus = "ram" THEN r
    ELSE RouteExternal(TakeProgram(SyncGuestTimer(r), w))

AfterInstruction(r, w) ==
    IF r.bus = "ram" THEN r
    ELSE RouteExternal(SyncGuestTimer(TakeProgram(r, w)))

-----------------------------------------------------------------------------
\* The interpreter and its loop.

Privileged == Immediate \cup {"eret", "wfi", "tlbi"}

ExecuteOne(r, w) ==
    IF r.el = 0 /\ w.op \in Privileged THEN Done(r, "PrivilegedInstruction")
    ELSE
    CASE w.op = "undef" -> Done(r, "UndefinedInstruction")
      [] w.op = "svc" -> Done(r, "SupervisorCall")
      [] w.op = "addsp" -> Next4([r EXCEPT !.sp = @ + w.a])
      [] w.op = "b" -> Done([r EXCEPT !.pc = @ + 8], "run")
      [] w.op = "hlt" -> Done([r EXCEPT !.pc = @ + 4], "Halt")
      [] w.op = "wfi" -> Done([r EXCEPT !.pc = @ + 4, !.waiting = TRUE], "Wait")
      [] w.op = "eret" -> Eret(r)
      [] w.op = "clrex" -> Next4([r EXCEPT !.excl.valid = FALSE])
      [] w.op \in Immediate -> Next4(SetPstate(r, w))
      [] w.op \in Exclusive -> ExclusiveStep(r, w)
      [] w.op = "str" -> Store(r, w)
      [] w.op = "stp" -> StorePair(r, w)
      [] w.op \in Device -> Mmio(r, w)
      [] w.op \in {"nop", "tlbi", "dmb"} -> Next4(r)
      [] OTHER -> Sysreg(r, w)

Retire(r, w) == AfterInstruction(AdvanceCounter([r EXCEPT !.retired = @ + 1]), w)

Complete(x, w) ==
    IF x.how \in Kinds THEN [Raise(x.core, x.how) EXCEPT !.status = x.how]
    ELSE [Retire(x.core, w) EXCEPT !.status = x.how]

Step(r, w) ==
    IF r.retired >= Budget THEN [r EXCEPT !.status = "Budget"]
    ELSE LET d == Poll(r)
         IN IF d.status # "run" THEN d ELSE Complete(ExecuteOne(d, w), w)

\* run_bounded_with_bus on a state an earlier run left.
Rerun(r) ==
    IF ~StateValid(r) THEN [r EXCEPT !.status = "Input"]
    ELSE [r EXCEPT !.retired = 0, !.pc = 0, !.pend = "none", !.target = 0,
                   !.lower = FALSE, !.vector = 0, !.waiting = FALSE, !.status = "run"]
=============================================================================
