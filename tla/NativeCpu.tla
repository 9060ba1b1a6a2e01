----------------------------- MODULE NativeCpu -----------------------------
(***************************************************************************)
(* The native core: runtime/arch.c and the run loop of runtime/jit.c.  The *)
(* translator compiles a block of guest instructions and the loop polls    *)
(* for interrupts, and advances the counter, only between blocks.  An      *)
(* instruction the compiled code cannot run ends the block, and a slow     *)
(* step tries it.                                                          *)
(*                                                                         *)
(* A core is a record.  left is what the current block may still retire    *)
(* and lag what it has retired, which the counter does not show yet.       *)
(***************************************************************************)
EXTENDS CpuWords

CONSTANT BlockMax  \* the longest block of vf_run

TimerOff == [en |-> FALSE, im |-> FALSE, is |-> FALSE, cval |-> 0]

Reset(el) ==
    [el |-> el, ps |-> WithMode([mask |-> {}], el), pc |-> 0, sp |-> 0,
     spEl |-> [l \in El |-> 0], spsr |-> [l \in Bank |-> WithMode([mask |-> {}], 0)],
     elr |-> [l \in Bank |-> 0], esr |-> [l \in Bank |-> "none"],
     vbar |-> [l \in Bank |-> 0],
     pend |-> "none", target |-> 0, lower |-> FALSE, vector |-> 0,
     cnt |-> 0, tim |-> [t \in Timer |-> TimerOff],
     prof |-> 0, ovI |-> 0, ovF |-> 0, irq |-> FALSE, fiq |-> FALSE,
     hcr |-> FALSE, m |-> FALSE, ttbr |-> 0, tcr |-> 0,
     retired |-> 0, left |-> 0, lag |-> 0, status |-> "run"]

StateValid(c) ==
    /\ ModeValid(c.el, c.ps)
    /\ c.pend \in Kinds \cup {"none"} /\ c.target \in El

\* update_timer_status: the status bits are stored.
Fires(c, t) ==
    c.tim[t].en /\ ~c.tim[t].im /\ c.cnt >= c.tim[t].cval

UpdateTimers(c) ==
    [c EXCEPT !.tim = [t \in Timer |-> [c.tim[t] EXCEPT !.is = Fires(c, t)]]]

Advance(c, ticks) == UpdateTimers([c EXCEPT !.cnt = @ + ticks])

TimerPending(c) == \E t \in Timer : c.tim[t].is

-----------------------------------------------------------------------------
\* Exceptions: raise records one in the bank of its target, take enters it.

Raise(c, kind) ==
    LET to == TargetEl(c.el)
    IN IF ~StateValid(c) \/ c.pend # "none" THEN c
       ELSE [c EXCEPT
             !.spEl[SpIndex(c.el, c.ps)] = c.sp,
             !.pend = kind, !.target = to, !.lower = c.el < to,
             !.spsr[to] = c.ps, !.elr[to] = c.pc,
             !.esr[to] = IF kind \in Interrupts THEN @ ELSE kind]

VectorOffset(c) ==
    (IF c.lower THEN 1024 ELSE IF c.spsr[c.target].h = 1 THEN 512 ELSE 0)
    + (CASE c.pend \in {"TimerInterrupt", "ExternalInterrupt"} -> 128
         [] c.pend = "FiqInterrupt" -> 256
         [] OTHER -> 0)

Take(c) ==
    LET to == c.target
        at == c.vbar[to] + VectorOffset(c)
    IN [c EXCEPT !.el = to, !.ps = [WithMode(c.spsr[to], to) EXCEPT !.mask = Bits],
                 !.sp = c.spEl[to], !.pc = at, !.vector = at,
                 !.pend = "none", !.target = 0, !.lower = FALSE]

\* vf_cpu_commit_status, for a status that is an exception.
Commit(c, kind) == [Raise(c, kind) EXCEPT !.status = kind]

Routed(c) == c.el > 1 \/ c.hcr

Eligible(c) ==
    LET over(f) == IF c.prof = 1 THEN f ELSE 0
    IN IF c.fiq /\ "F" \notin c.ps.mask /\ over(c.ovF) # 2 THEN "FiqInterrupt"
       ELSE IF "I" \in c.ps.mask \/ over(c.ovI) = 2 THEN "none"
       ELSE IF TimerPending(c) THEN "TimerInterrupt"
       ELSE IF c.irq THEN "ExternalInterrupt" ELSE "none"

\* vf_cpu_poll_interrupt: the status tells whether the run goes on.
Poll(c) ==
    IF c.pend # "none" THEN c
    ELSE IF (c.irq \/ c.fiq \/ TimerPending(c)) /\ Routed(c)
    THEN Commit(c, "SystemRegisterTrap")
    ELSE IF Eligible(c) = "none" THEN c
    ELSE [Take(Raise(c, Eligible(c))) EXCEPT !.status = Eligible(c)]

-----------------------------------------------------------------------------
\* System registers.

Configure(c, irq, fiq) ==
    IF FieldValid(irq) /\ FieldValid(fiq)
    THEN [c EXCEPT !.ovI = irq, !.ovF = fiq] ELSE c

\* The accesses vf_cpu_read_sysreg and vf_cpu_write_sysreg accept.
Admits(c, w) ==
    CASE w.op = "msr_plat" ->
             /\ c.prof = 1 /\ c.el = 1 /\ ~c.hcr
             /\ FieldValid(w.a) /\ FieldValid(w.b)
      [] w.op = "msr_hcr" -> c.el >= 2
      [] w.op \in MsrEl1 \ {"msr_ttbr", "msr_tcr"} -> c.el >= 1
      [] w.op = "msr_ttbr" -> c.el >= 1 /\ w.a # 2
      [] w.op = "msr_tcr" -> c.el >= 1 /\ w.a # 3
      [] w.op \in MsrTimer -> TRUE
      [] OTHER -> FALSE

Written(c, w) ==
    CASE w.op = "msr_plat" -> Configure(c, w.a, w.b)
      [] w.op = "msr_hcr" -> [c EXCEPT !.hcr = w.a = 1]
      [] w.op = "msr_sctlr" -> [c EXCEPT !.m = w.a = 1]
      [] w.op = "msr_ttbr" -> [c EXCEPT !.ttbr = w.a]
      [] w.op = "msr_tcr" -> [c EXCEPT !.tcr = w.a]
      [] w.op = "msr_vbar" -> [c EXCEPT !.vbar[1] = w.a]
      [] w.op = "msr_elr" -> [c EXCEPT !.elr[1] = w.a]
      [] w.op = "msr_spsr" ->
             [c EXCEPT !.spsr[1] = [lvl |-> w.a, h |-> w.b, mask |-> {}]]
      [] w.op = "msr_ctl" ->
             [c EXCEPT !.tim[w.t].en = Ctl(w.a).en, !.tim[w.t].im = Ctl(w.a).im]
      [] w.op = "msr_cval" -> [c EXCEPT !.tim[w.t].cval = w.a]
      [] w.op = "msr_tval" -> [c EXCEPT !.tim["P"].cval = c.cnt + w.a]
      [] OTHER -> c

WriteSysreg(c, w) == UpdateTimers(Written(c, w))

-----------------------------------------------------------------------------
\* The compiled block.

\* Mutant: Enabled timers do not shorten a block.
BlockLimit_NoTimer(c) ==
    LET left == Budget - c.retired
    IN IF c.irq \/ c.fiq THEN 1 ELSE IF left > BlockMax THEN BlockMax ELSE left

BlockLimit(c) ==
    LET left == Budget - c.retired
    IN IF c.irq \/ c.fiq \/ (\E t \in Timer : c.tim[t].en) THEN 1
       ELSE IF left > BlockMax THEN BlockMax ELSE left

Retire(c, pc) == [c EXCEPT !.pc = pc, !.retired = @ + 1]

\* execute_native_block: the counter follows when the block has ended.
EndBlock(c) == [Advance(c, c.lag) EXCEPT !.left = 0, !.lag = 0]

InBlock(c, pc) ==
    LET d == [Retire(c, pc) EXCEPT !.left = @ - 1, !.lag = @ + 1]
    IN IF d.left = 0 THEN EndBlock(d) ELSE d

LeaveBlock(c, pc) == EndBlock([Retire(c, pc) EXCEPT !.lag = @ + 1])

\* The first fault of a store of n elements, if any.
StoreFault(c, w, n) ==
    IF c.el > 1 \/ c.hcr THEN "SystemRegisterTrap"
    ELSE IF ~Aligned(w.a, w.b) THEN "AlignmentFault"
    ELSE IF \E i \in 0..(n - 1) : ~InRam(w.a + i * w.b, w.b) THEN "DataAbort"
    ELSE "none"

Elements(w) == IF w.op = "stp" THEN 2 ELSE 1

\* known_privileged and system_boundary: what ends a block without being run.
Boundary(c, w) ==
    LET privileged == w.op \in Immediate \cup MsrEl1 \cup {"eret", "wfi"}
    IN IF w.op \in {"undef", "svc"} \cup Exclusive THEN "UndefinedInstruction"
       ELSE IF c.el = 0 /\ privileged THEN "PrivilegedInstruction"
       ELSE "SystemRegisterTrap"

\* pstate_slow_step.
SetsPstate(c, w) == w.op \in Immediate /\ c.el # 0 /\ ~c.m

NewPstate(c, w) ==
    LET ps == CASE w.op = "daifset" -> [c.ps EXCEPT !.mask = @ \cup MaskBits(w.a)]
                [] w.op = "daifclr" -> [c.ps EXCEPT !.mask = @ \ MaskBits(w.a)]
                [] OTHER -> [c.ps EXCEPT !.h = w.a]
        banks == [c.spEl EXCEPT ![SpIndex(c.el, c.ps)] = c.sp]
    IN IF w.op = "spsel"
       THEN [c EXCEPT !.ps = ps, !.spEl = banks, !.sp = banks[SpIndex(c.el, ps)]]
       ELSE [c EXCEPT !.ps = ps]

\* The status a block leaves with at w and what the slow steps make of it.
SlowStep(c, w) ==
    LET kind == Boundary(c, w)
    IN IF kind = "PrivilegedInstruction" THEN Commit(c, kind)
       ELSE IF Admits(c, w) THEN Advance(Retire(WriteSysreg(c, w), c.pc + 4), 1)
       ELSE IF SetsPstate(c, w) THEN Advance(Retire(NewPstate(c, w), c.pc + 4), 1)
       ELSE Commit(c, kind)

Execute(c, w) ==
    CASE w.op = "nop" -> InBlock(c, c.pc + 4)
      [] w.op = "addsp" -> InBlock([c EXCEPT !.sp = @ + w.a], c.pc + 4)
      [] w.op = "b" -> LeaveBlock(c, c.pc + 8)
      [] w.op = "hlt" -> [LeaveBlock(c, c.pc + 4) EXCEPT !.status = "Halt"]
      [] w.op \in {"str", "stp"} ->
             LET fault == StoreFault(c, w, Elements(w))
             IN IF fault = "none" THEN InBlock(c, c.pc + 4)
                ELSE Commit(EndBlock(c), fault)
      [] OTHER -> SlowStep(EndBlock(c), w)

\* One turn of vf_run: the gates of the loop and of a block, then w.
Dispatch(c) ==
    IF c.left > 0 THEN c
    ELSE IF c.retired >= Budget THEN [c EXCEPT !.status = "Budget"]
    ELSE IF c.m THEN [c EXCEPT !.status = "SystemRegisterTrap"]
    ELSE LET d == Poll(c)
         IN IF d.status # "run" THEN d ELSE [d EXCEPT !.left = BlockLimit(d)]

Step(c, w) ==
    LET d == Dispatch(c) IN IF d.status # "run" THEN d ELSE Execute(d, w)
=============================================================================
