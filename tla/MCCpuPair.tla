----------------------------- MODULE MCCpuPair -----------------------------
(***************************************************************************)
(* Six families of words, each with the boots that make them matter.  An   *)
(* enabled timer expires after one or two instructions, a block holds two. *)
(***************************************************************************)
EXTENDS CpuPair, TLC

W(op, a, b) == [op |-> op, a |-> a, b |-> b, t |-> "P"]
V(op, a) == [op |-> op, a |-> a, b |-> 0, t |-> "V"]

Boot(el, mask, irq, fiq) ==
    [el |-> el, mask |-> mask, prof |-> 0, irq |-> irq, fiq |-> fiq, bus |-> "ram"]
Plain0(el) == Boot(el, {}, FALSE, FALSE)

Low == <<FALSE, FALSE>>

Lines == [words |-> {W("nop", 0, 0), W("addsp", 1, 0), W("spsel", 0, 0), W("spsel", 1, 0),
                     W("daifclr", 3, 0), W("daifset", 2, 0), W("eret", 0, 0),
                     W("msr_plat", 2, 0), W("msr_plat", 0, 2), W("msr_plat", 1, 0)},
          lines |-> {Low, <<TRUE, FALSE>>, <<FALSE, TRUE>>},
          boots |-> {[Boot(el, Bits, irq, fiq) EXCEPT !.prof = p] :
                         el \in 0..1, irq, fiq \in BOOLEAN, p \in 0..1}
                    \cup {Plain0(0)}]

Timers == [words |-> {W("nop", 0, 0), W("addsp", 1, 0), W("b", 0, 0), W("hlt", 0, 0),
                      W("msr_ctl", 1, 0), W("msr_ctl", 3, 0), V("msr_ctl", 1),
                      W("msr_cval", 3, 0), V("msr_cval", 2), W("msr_tval", 2, 0),
                      W("daifclr", 2, 0), W("eret", 0, 0)},
           lines |-> {Low},
           boots |-> {Plain0(0), Plain0(1), Boot(1, {"I"}, FALSE, FALSE), Plain0(2)}]

Levels == [words |-> {W("undef", 0, 0), W("svc", 0, 0), W("eret", 0, 0), W("wfi", 0, 0),
                      W("tlbi", 0, 0), W("mrs_el1", 0, 0), W("msr_vbar", 8192, 0),
                      W("msr_elr", 64, 0), W("msr_spsr", 1, 0), W("msr_spsr", 2, 1),
                      W("msr_spsr", 0, 1), W("msr_spsr", NoLevel, 0), W("msr_hcr", 1, 0),
                      W("nop", 0, 0), W("str", 0, 4), W("stp", 12, 4), W("daifset", 3, 0)},
           lines |-> {Low, <<TRUE, FALSE>>},
           boots |-> {Boot(el, {}, irq, FALSE) : el \in El, irq \in BOOLEAN}]

Regime == [words |-> {W("msr_sctlr", 0, 0), W("msr_sctlr", 1, 0), W("msr_ttbr", 0, 0),
                      W("msr_ttbr", 1, 0), W("msr_ttbr", 2, 0), W("msr_tcr", 0, 0),
                      W("msr_tcr", 1, 0), W("msr_tcr", 3, 0), W("str", 20, 4),
                      W("str", 32, 4), W("str", 2, 4), W("stp", 0, 4)},
           lines |-> {Low},
           boots |-> {Plain0(1)}]

Reservation == [words |-> {W("ldxr", 0, 8), W("ldxr", 4, 4), W("ldxr", 20, 4), W("ldxr", 2, 4),
                           W("stxr", 4, 4), W("stxr", 0, 8), W("clrex", 0, 0), W("dmb", 0, 0),
                           W("str", 4, 4), W("str", 7, 1), W("str", 20, 4), W("stp", 0, 4),
                           W("stp", 8, 8), W("msr_sctlr", 1, 0), W("stxr", 40, 4)},
                lines |-> {Low},
                boots |-> {Plain0(1)}]

Graph == [words |-> {W("nop", 0, 0), W("mmio_cmp", 2, 0), W("mmio_cmp", 4, 0),
                     W("mmio_ctl", 1, 0), W("mmio_ctl", 3, 0), W("mmio_ctl", 4, 0),
                     W("mmio_cnt", 0, 0), W("mmio_show", 0, 0), W("msr_ctl", 1, 0),
                     W("msr_cval", 3, 0), W("daifclr", 3, 0), W("eret", 0, 0), W("stp", 0, 4)},
          lines |-> {Low},
          boots |-> {[Boot(1, Bits, FALSE, FALSE) EXCEPT !.bus = "m1"],
                     [Plain0(0) EXCEPT !.bus = "m1"]}]

MCFamilies == "lines" :> Lines @@ "timers" :> Timers @@ "levels" :> Levels @@
              "regime" :> Regime @@ "reservation" :> Reservation @@ "graph" :> Graph

MCRegimes == {<<0, 0>>, <<1, 0>>, <<1, 1>>}
=============================================================================
