------------------------------ MODULE CpuPair ------------------------------
(***************************************************************************)
(* The two cores side by side on one instruction stream, as the            *)
(* differential tests of the repository run them, and the caller that owns *)
(* the reference core between bounded runs: it may enter a pending         *)
(* exception, change the interrupt lines, raise or acknowledge a source of *)
(* the machine graph and start another run on the same state.              *)
(*                                                                         *)
(* The guest's program is not fixed: each step executes any word of the    *)
(* family of words the run was started with.                               *)
(***************************************************************************)
EXTENDS CpuWords

CONSTANTS
    BlockMax,  \* the longest block of the native loop
    Regimes,   \* the translation regimes the walker accepts
    Families,  \* name -> [words, boots, lines]
    MaxRuns    \* bounded runs on one state

Op == MsrEl1 \cup MsrTimer \cup Immediate \cup Exclusive \cup Device \cup
    {"nop", "addsp", "b", "hlt", "wfi", "eret", "svc", "undef", "dmb", "tlbi",
     "clrex", "str", "stp", "msr_plat", "msr_hcr"}

\* An instruction.  Only CTL and CVAL are modelled for both timers; an access to
\* memory has a size.
Word == {w \in [op : Op, a : Nat, b : Nat, t : Timer] :
            /\ w.op \in {"str", "stp"} \cup Exclusive => w.b > 0
            /\ w.op \notin {"msr_ctl", "msr_cval"} => w.t = "P"
            /\ w.op = "spsel" => w.a \in 0..1
            /\ w.op = "msr_spsr" => w.a \in El \cup {NoLevel} /\ w.b \in 0..1}

\* What a caller sets before it starts the cores.
BootState == [el : El, mask : SUBSET Bits, prof : 0..1, irq : BOOLEAN,
              fiq : BOOLEAN, bus : {"ram", "m1"}]

ASSUME CpuPairAssumption ==
    /\ RamBytes \in Nat \ {0}
    /\ Budget \in Nat \ {0}
    /\ BlockMax \in Nat \ {0}
    /\ MaxRuns \in Nat \ {0}
    /\ \A f \in DOMAIN Families :
           /\ Families[f].words \subseteq Word
           /\ Families[f].boots \subseteq BootState
           /\ Families[f].lines \subseteq BOOLEAN \X BOOLEAN

VARIABLES
    c,      \* the native core
    r,      \* the reference core
    fam,    \* the family of words
    pair,   \* both cores have executed the same instructions so far
    saved,  \* the context an exception interrupted, while its handler only waits
    ideal,  \* the bytes reserved by the last load-exclusive, {} if lost
    asked,  \* the physical timer as the guest last programmed it
    runs    \* bounded runs started

vars == <<c, r, fam, pair, saved, ideal, asked, runs>>

N == INSTANCE NativeCpu
R == INSTANCE ReferenceCpu

\* What c holds once the cores have parted.
Parked == N!Reset(1)

\* A boot: the level, masks, lines, profile and vector base a caller sets, with
\* a different stack pointer in every bank.
Booted(core, b) ==
    [core EXCEPT !.ps.mask = b.mask, !.prof = b.prof, !.irq = b.irq, !.fiq = b.fiq,
                 !.spEl = [l \in El |-> 16 * l + 16], !.sp = 16 * b.el + 16,
                 !.vbar = [l \in Bank |-> 4096 * l]]

NoContext == [phase |-> "none", ctx |-> <<>>]
Context(x) == [el |-> x.el, ps |-> x.ps, pc |-> x.pc, sp |-> x.sp]

Init ==
    /\ fam \in DOMAIN Families
    /\ \E b \in Families[fam].boots :
          /\ c = IF b.bus = "ram" THEN Booted(N!Reset(b.el), b) ELSE Parked
          /\ r = Booted(R!Reset(b.el, b.bus), b)
          /\ pair = (b.bus = "ram")
    /\ saved = NoContext /\ ideal = {} /\ runs = 1
    /\ asked = [en |-> FALSE, im |-> FALSE, cval |-> 0]

-----------------------------------------------------------------------------
\* Steps.

\* The words for which the cores are not written to agree.
ReferenceOnly(x, w) ==
    \/ w.op \in {"svc", "ldxr", "stxr", "clrex", "dmb", "tlbi"} \cup Device
    \/ w.op \in {"eret", "wfi"} /\ x.el > 0
    \/ w.op = "msr_sctlr" /\ w.a = 1
    \/ w.op = "msr_hcr" /\ x.el < 2

Executes(s, t) == t.retired = s.retired + 1

\* The physical bytes a retired store wrote.
StoredBytes(s, w) ==
    CASE w.op = "str" -> Bytes(R!Physical(s, w.a), w.b)
      [] w.op = "stp" -> Bytes(w.a, 2 * w.b)
      [] OTHER -> {}

NextIdeal(s, t, w) ==
    IF ~Executes(s, t) THEN ideal
    ELSE IF w.op = "ldxr" THEN Bytes(R!Physical(s, w.a), w.b)
    ELSE IF w.op \in {"stxr", "clrex"} \/ StoredBytes(s, w) \cap ideal # {} THEN {}
    ELSE ideal

\* A system register and a device register program the same timer.
NextAsked(s, t, w) ==
    IF ~Executes(s, t) \/ w.t # "P" THEN asked
    ELSE IF w.op \in {"msr_ctl", "mmio_ctl"}
    THEN [asked EXCEPT !.en = Ctl(w.a).en, !.im = Ctl(w.a).im]
    ELSE IF w.op \in {"msr_cval", "mmio_cmp"} THEN [asked EXCEPT !.cval = w.a]
    ELSE IF w.op = "msr_tval" THEN [asked EXCEPT !.cval = s.cnt + w.a]
    ELSE asked

\* A handler that does nothing but return keeps the context it was entered with.
NextSaved(s, t, w) ==
    IF t.status \in Interrupts THEN [phase |-> "in", ctx |-> Context(s)]
    ELSE IF t.status = "Budget" THEN saved
    ELSE IF ~Executes(s, t) THEN NoContext
    ELSE IF saved.phase = "in" /\ w.op = "eret" THEN [saved EXCEPT !.phase = "back"]
    ELSE IF saved.phase = "in" /\ w.op = "nop" THEN saved
    ELSE NoContext

Step(w) ==
    /\ r.status = "run"
    /\ r' = R!Step(r, w)
    /\ pair' = (pair /\ ~ReferenceOnly(r, w))
    /\ c' = IF pair' THEN N!Step(c, w) ELSE Parked
    /\ saved' = NextSaved(r, r', w)
    /\ ideal' = NextIdeal(r, r', w)
    /\ asked' = NextAsked(r, r', w)
    /\ UNCHANGED <<fam, runs>>

\* The caller enters the exception a run has left pending.
TakePending ==
    /\ r.status # "run" /\ r.pend # "none"
    /\ r' = R!Take(r)
    /\ c' = IF pair THEN N!Take(c) ELSE Parked
    /\ saved' = [phase |-> "in", ctx |-> Context(r)]
    /\ UNCHANGED <<fam, pair, ideal, asked, runs>>

\* The caller starts another run, with the lines as they are by then.
RunAgain(irq, fiq) ==
    /\ r.status \notin {"run", "Input"} /\ runs < MaxRuns
    /\ r' = R!Rerun([r EXCEPT !.irq = irq, !.fiq = fiq])
    /\ runs' = runs + 1 /\ pair' = FALSE /\ c' = Parked
    /\ saved' = IF saved.phase = "in" THEN saved ELSE NoContext
    /\ UNCHANGED <<fam, ideal, asked>>

\* Another device of the graph raises its source, or a driver acknowledges it.
SetSource(on) ==
    /\ r.bus = "m1" /\ r.status # "run" /\ r.g.aicO # on
    /\ r' = [r EXCEPT !.g.aicO = on]
    /\ UNCHANGED <<c, fam, pair, saved, ideal, asked, runs>>

Ended ==
    /\ r.status # "run" /\ runs = MaxRuns
    /\ UNCHANGED vars

Next ==
    \/ \E w \in Families[fam].words : Step(w)
    \/ TakePending
    \/ \E l \in Families[fam].lines : RunAgain(l[1], l[2])
    \/ \E on \in BOOLEAN : SetSource(on)
    \/ Ended

Spec == Init /\ [][Next]_vars

-----------------------------------------------------------------------------
\* Properties.

Common(x) ==
    /\ x.el \in El /\ x.ps \in Psr /\ x.spsr \in [Bank -> Psr]
    /\ x.spEl \in [El -> Nat] /\ x.elr \in [Bank -> Nat] /\ x.vbar \in [Bank -> Nat]
    /\ x.esr \in [Bank -> Kinds \cup {"none"}] /\ x.pend \in Kinds \cup {"none"}
    /\ x.target \in El /\ {x.pc, x.sp, x.vector, x.cnt} \subseteq Nat
    /\ x.retired \in 0..Budget

\* Types, and what vf_cpu_state_valid and GuestCpuState::state_valid ask of a
\* state before a run: whatever a guest executes and in whatever order a caller
\* enters exceptions and starts runs, the mode agrees with the level and the
\* pending exception with its target, so that no later run is refused.
CpuTypeOK ==
    /\ Common(c) /\ N!StateValid(c) /\ c.left \in 0..BlockMax /\ c.lag \in 0..BlockMax
    /\ Common(r) /\ R!StateValid(r) /\ r.status # "Input"
    /\ pair \in BOOLEAN /\ ideal \subseteq 0..(RamBytes - 1) /\ runs \in 1..MaxRuns

\* The native core, which polls for interrupts and advances its counter between
\* blocks only, stops where the reference core, which polls before every
\* instruction, stops: same reason, same level, masks, stack pointers, exception
\* banks, pending exception and number of retired instructions at every
\* instruction, and the same counter and timers whenever no block is open.
NativeAgrees ==
    LET idle(x) == [x.spEl EXCEPT ![SpIndex(x.el, x.ps)] = 0]
        seen(x) == <<x.status, x.retired, x.el, x.ps, x.pc, x.sp, idle(x), x.spsr, x.elr,
                     x.esr, x.vbar, x.pend, x.target, x.lower, x.vector,
                     x.ovI, x.ovF, x.hcr, x.m, x.ttbr, x.tcr>>
    IN pair => /\ seen(c) = seen(r)
               /\ c.left = 0 => c.cnt = r.cnt /\ c.tim = r.tim

\* An exception entry followed by ERET resumes the interrupted program: level,
\* masks, program counter and stack pointer are the ones it had, even when the
\* handler ran in a later bounded run with other lines.  The stack pointer of a
\* program that ran on SP_EL0 above EL0 is exempt, a correction the repository
\* announces as still to come.
RoundTrip ==
    saved.phase = "back" =>
        LET ctx == saved.ctx
        IN /\ <<r.el, r.ps, r.pc>> = <<ctx.el, ctx.ps, ctx.pc>>
           /\ (ctx.el = 0 \/ ctx.ps.h = 1) => r.sp = ctx.sp

\* The walker is on exactly when SCTLR.M is set, and then with the roots and the
\* controls the guest reads back, although a write the walker refuses is undone
\* by a second synchronisation after the first has failed.
MmuFollowsRegisters ==
    /\ r.mmu.on = r.m
    /\ r.mmu.on => r.mmu.ttbr = r.ttbr /\ r.mmu.tcr = r.tcr

\* The monitor holds a reservation exactly while no retired store has written one
\* of the reserved physical bytes, through whatever alias, width or pair, and no
\* store-exclusive or CLREX has consumed it.
MonitorExact ==
    /\ r.excl.valid <=> ideal # {}
    /\ r.excl.valid => Bytes(r.excl.addr, r.excl.size) = ideal

\* The processor's timer is the one the guest programmed last, by a system
\* register or by the device window; after every instruction the device's timer
\* is the same, the controller's timer source is pending exactly when the
\* processor's timer is, and a pending source of another device has reached the
\* processor.
GraphFollowsCpu ==
    LET p == r.tim["P"]
    IN /\ asked = [en |-> p.en, im |-> p.im, cval |-> p.cval]
       /\ r.bus = "m1" =>
             /\ r.g.cnt = r.cnt /\ r.g.cmp = p.cval /\ r.g.en = p.en /\ r.g.im = p.im
             /\ r.g.aicT = R!Pending(r, "P")
             /\ (r.status = "run" /\ r.retired > 0 /\ r.g.aicO) => r.ext
=============================================================================
