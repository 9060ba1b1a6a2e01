-------------------------------- MODULE Aic --------------------------------
(***************************************************************************)
(* The wired interrupt controller (devices/aic_v1.c) as operators on its   *)
(* state.  A bank of 32-bit words is the set of interrupts whose bit is 1. *)
(* REV, INFO, WHOAMI and the stored-only GLB_CFG take part in nothing and  *)
(* are left out, as are writes with bits of interrupts that do not exist,  *)
(* which are refused whole.                                                *)
(***************************************************************************)
EXTENDS Integers, FiniteSets

CONSTANTS IrqCount, CpuCount

Irq == 0..(IrqCount - 1)
Cpu == 0..(CpuCount - 1)
NoIrq == -1

\* aic_reset_state(), which the guest's write to RST also runs.
AicReset == [level |-> {}, software |-> {}, masked |-> Irq,
             target |-> [i \in Irq |-> {0}]]

SetLine(a, irq, high) ==
  [a EXCEPT !.level = IF high THEN @ \cup {irq} ELSE @ \ {irq}]

Deliverable(a, cpu) ==
  {i \in (a.level \cup a.software) \ a.masked : cpu \in a.target[i]}

\* next_irq(): the lowest deliverable interrupt.
NextIrq(a, cpu) ==
  IF Deliverable(a, cpu) = {} THEN NoIrq
  ELSE CHOOSE i \in Deliverable(a, cpu) : \A j \in Deliverable(a, cpu) : i <= j

\* Mutant: a read of EVENT delivers without masking.
AfterEvent_Unmasked(a, cpu) == a

\* A read of EVENT acknowledges what it delivers by masking it.
AfterEvent(a, cpu) ==
  [a EXCEPT !.masked = @ \cup ({NextIrq(a, cpu)} \ {NoIrq})]

WriteTarget(a, irq, cpus) == [a EXCEPT !.target[irq] = cpus]

\* The four write banks: SW_SET, SW_CLR, MASK_SET, MASK_CLR.
WriteBank(a, bank, irqs) ==
  CASE bank = "SW_SET"   -> [a EXCEPT !.software = @ \cup irqs]
    [] bank = "SW_CLR"   -> [a EXCEPT !.software = @ \ irqs]
    [] bank = "MASK_SET" -> [a EXCEPT !.masked = @ \cup irqs]
    [] bank = "MASK_CLR" -> [a EXCEPT !.masked = @ \ irqs]
=============================================================================
