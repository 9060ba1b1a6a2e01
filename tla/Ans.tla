-------------------------------- MODULE Ans --------------------------------
(***************************************************************************)
(* The ANS NVMe stub (devices/ans_v1.c) as operators on its state: the     *)
(* enable bit, the two admin doorbells, the completion tail, the interrupt *)
(* status and mask, and the one-shot armed Identify.  CSTS.RDY follows     *)
(* CC.EN exactly and has no field of its own.                              *)
(*                                                                         *)
(* Left out: registers that are only stored and read back, the identify    *)
(* payload, and the command's bytes.  What the submission queue fetch      *)
(* tells apart in those bytes is the field asq: unbound, or bound with an  *)
(* entry whose data fills one aligned page, one whose data spans two pages *)
(* and one that some check on its own bytes refuses.  prp says which of    *)
(* the two data pages are bound.                                           *)
(* The bound completion queue is the number of entries it has room for     *)
(* (none when its base register is 0).                                     *)
(***************************************************************************)
EXTENDS Integers

CONSTANT DbMask   \* VF_ANS_DB_VALUE_MASK: the last value of a doorbell

Doorbell == 0..DbMask
NoAcq == -1

Bump(index) == (index + 1) % (DbMask + 1)

AnsInit == [en |-> FALSE, sqt |-> 0, cqh |-> 0, tail |-> 0,
            phase |-> 1, intm |-> FALSE, irq |-> FALSE, armed |-> FALSE,
            pci |-> FALSE, asq |-> "UNBOUND", acq |-> NoAcq, prp |-> {}]

\* vf_ans_irq_check(), and the level ans_sync_pci_irq() drives.
IrqCheck(a) == a.irq /\ ~a.intm

\* ans_apply_cc_enable(): clearing CC.EN is the controller reset, which
\* keeps the bound queues.
ApplyCcEnable(a, en) ==
  IF en THEN [a EXCEPT !.en = TRUE]
  ELSE [a EXCEPT !.en = FALSE, !.sqt = 0, !.cqh = 0, !.tail = 0, !.phase = 1,
                 !.intm = FALSE, !.irq = FALSE, !.armed = FALSE]

\* vf_ans_arm_admin_identify() with arguments it accepts; disarm.
ArmIdentify(a) == [a EXCEPT !.armed = TRUE]
DisarmIdentify(a) == [a EXCEPT !.armed = FALSE]

\* ans_check_admin_acq_slot(): room for the entry at the tail.
AcqSlotFree(a) == a.acq = NoAcq \/ a.tail < a.acq

\* ans_fetch_admin_asq_identify(): without a submission page nothing is
\* fetched; an entry over two pages needs the second page bound if the first is.
FetchAccepts(a) ==
  \/ a.asq \in {"UNBOUND", "ALIGNED"}
  \/ a.asq = "SPLIT" /\ (1 \in a.prp => 2 \in a.prp)

\* ans_post_admin_identify_cqe().
PostCqe(a) == [a EXCEPT !.phase = 1 - @, !.tail = Bump(@), !.irq = TRUE]

\* The doorbell's one shot fires: the tail moved while a command is armed.
Fires(a, tail) == tail # a.sqt /\ a.armed

\* ans_try_admin_identify_on_doorbell() posts a completion only when the
\* fetch and the completion slot allow it and the gates on DMA (dma) do.
Completes(a, tail, dma) ==
  Fires(a, tail) /\ FetchAccepts(a) /\ AcqSlotFree(a) /\ a.en /\ dma

\* A write to the admin submission doorbell.  The arm is cleared before the
\* first check, whatever the checks then say.
DoorbellSq(a, tail, dma) ==
  LET b == [a EXCEPT !.sqt = tail, !.armed = @ /\ ~Fires(a, tail)] IN
  IF Completes(a, tail, dma) THEN PostCqe(b) ELSE b

\* Mutant: draining any completion clears the interrupt status.
DoorbellCq_ClearsAlways(a, head) == [a EXCEPT !.cqh = head, !.irq = FALSE]

\* A write to the admin completion doorbell: ans_refresh_admin_cq_irq().
DoorbellCq(a, head) ==
  [a EXCEPT !.cqh = head, !.irq = @ /\ head # a.tail]

MaskIrq(a, mask) == [a EXCEPT !.intm = mask]

BindAsq(a, asq) == [a EXCEPT !.asq = asq]
BindAcq(a, slots) == [a EXCEPT !.acq = slots]

\* vf_ans_bind_identify_prp1(), vf_ans_bind_identify_prp2().
BindPrp(a, page, bound) ==
  [a EXCEPT !.prp = IF bound THEN @ \cup {page} ELSE @ \ {page}]
=============================================================================
