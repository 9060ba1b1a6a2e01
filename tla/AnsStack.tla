------------------------------ MODULE AnsStack ------------------------------
(***************************************************************************)
(* The composite ANS storage function: the NVMe stub (ans_v1.c), the PCIe  *)
(* stub's command register (ans_pci_v1.c), the mailbox (ans_mbox_v1.c),    *)
(* ASCWrap (ascwrap_v1.c) and the autoboot map (ans_autoboot_v1.c).        *)
(*                                                                         *)
(* Liveness of the firmware side is a chain: autoboot ARMED mirrors        *)
(* ASCWrap READY, which mirrors mailbox STARTED, which holds only while    *)
(* the linked PCIe function masters the bus.  No link is told when the one *)
(* below changes; each flag is recomputed only when somebody looks at it.  *)
(*                                                                         *)
(* The host is a legal NVMe host: it rings the submission doorbell only    *)
(* while the completion queue has room and moves the completion head only  *)
(* over completions that were posted.  Interrupt routing is M1Bridge's.    *)
(* The variable part, fixed in the initial state, selects the half of the  *)
(* interface a behaviour exercises: the queues, or the chain of gates.     *)
(***************************************************************************)
EXTENDS Integers

CONSTANTS DbMask,      \* last value of a doorbell
          AcqSizes     \* sizes of the completion pages the host binds

ASSUME AnsStackAssumption == DbMask \in Nat \ {0} /\ AcqSizes \subseteq 0..DbMask

Nvme == INSTANCE Ans
Pci == INSTANCE AnsPci

VARIABLES
  ans,        \* the NVMe stub
  pci,        \* the PCIe stub
  mbox,       \* flags and reply slot of the mailbox, and its PCIe link
  asc,        \* READY and the mailbox link of ASCWrap
  boot,       \* ARMED, ASCWrap link and write-seen flag of autoboot
  gates,      \* which of the three the NVMe stub is bound to
  part,       \* the half of the interface this behaviour exercises
  undrained,  \* history: completions posted and not yet drained
  masterLost  \* history: the linked function lost BusMaster since the start

chain == <<mbox, asc, boot>>
vars == <<ans, pci, mbox, asc, boot, gates, part, undrained, masterLost>>

\* All three announce themselves present and in bootstrap, a status that no
\* operation changes.  The reply slot keeps a message after it was drained.
MboxInit ==
  [started |-> FALSE, reply |-> "NONE", pending |-> FALSE, linked |-> FALSE]
AscInit == [ready |-> FALSE, linked |-> FALSE]
BootInit == [armed |-> FALSE, linked |-> FALSE, written |-> FALSE]

Init ==
  /\ ans = Nvme!AnsInit
  /\ pci = Pci!PciInit
  /\ mbox = MboxInit
  /\ asc = AscInit
  /\ boot = BootInit
  /\ gates = [mbox |-> FALSE, asc |-> FALSE, boot |-> FALSE]
  /\ part \in {"queue", "chain"}
  /\ undrained = 0
  /\ masterLost = FALSE

-----------------------------------------------------------------------------
(* Looking at a flag recomputes it, and everything below it. *)

\* ans_mbox_reconcile_started(): drops STARTED, never restores it.
MboxSeen(m, p) == [m EXCEPT !.started = @ /\ (m.linked => p.master)]

\* Mutant: READY is only ever set.
AscSeen_Sticky(s, m) ==
  [s EXCEPT !.ready = s.linked /\ (@ \/ m.started)]

\* ascwrap_reconcile_ready(), on a mailbox already looked at.
AscSeen(s, m) == [s EXCEPT !.ready = s.linked /\ m.started]

\* ans_autoboot_reconcile_armed(), on an ASCWrap already looked at.
BootSeen(b, s) == [b EXCEPT !.armed = b.linked /\ s.ready]

LookAtMbox ==
  mbox' = MboxSeen(mbox, pci) /\ UNCHANGED <<asc, boot>>

\* An unlinked ASCWrap does not look at the mailbox.
LookAtAsc ==
  /\ mbox' = IF asc.linked THEN MboxSeen(mbox, pci) ELSE mbox
  /\ asc' = AscSeen(asc, mbox')
  /\ UNCHANGED boot

LookAtBoot ==
  /\ mbox' = IF boot.linked /\ asc.linked THEN MboxSeen(mbox, pci) ELSE mbox
  /\ asc' = IF boot.linked THEN AscSeen(asc, mbox') ELSE asc
  /\ boot' = BootSeen(boot, asc')

-----------------------------------------------------------------------------
(* The Identify DMA gates, in the order vf_ans_identify_cns_ctrl_dma()     *)
(* tries them: each is looked at only if the ones before it were open.     *)

HostGate == ans.en /\ (ans.pci => pci.master)

DmaGates ==
  LET look2 == HostGate /\ gates.mbox
      m2 == IF look2 THEN MboxSeen(mbox, pci) ELSE mbox
      ok2 == HostGate /\ (gates.mbox => m2.started)
      look3 == ok2 /\ gates.asc
      m3 == IF look3 /\ asc.linked THEN MboxSeen(m2, pci) ELSE m2
      s3 == IF look3 THEN AscSeen(asc, m3) ELSE asc
      ok3 == ok2 /\ (gates.asc => s3.ready)
      look4 == ok3 /\ gates.boot
      m4 == IF look4 /\ boot.linked /\ asc.linked THEN MboxSeen(m3, pci) ELSE m3
      s4 == IF look4 /\ boot.linked THEN AscSeen(s3, m4) ELSE s3
      b4 == IF look4 THEN BootSeen(boot, s4) ELSE boot
  IN [open |-> ok3 /\ (gates.boot => b4.armed), mbox |-> m4, asc |-> s4, boot |-> b4]

-----------------------------------------------------------------------------
(* The NVMe stub. *)

\* The NVMe stub enters state a and drives the PCIe stub's pin.
AnsStep(a) ==
  /\ ans' = a
  /\ pci' = IF a.pci THEN Pci!SetIrq(pci, Nvme!IrqCheck(a)) ELSE pci
  /\ UNCHANGED <<gates, part, masterLost>>

\* Only bookkeeping of the stub changes.
AnsQuiet(a) ==
  /\ ans' = a
  /\ UNCHANGED <<pci, mbox, asc, boot, gates, part, undrained, masterLost>>

WriteCc(en) ==
  /\ AnsStep(Nvme!ApplyCcEnable(ans, en))
  /\ undrained' = IF en THEN undrained ELSE 0
  /\ UNCHANGED chain

ArmIdentify == AnsQuiet(Nvme!ArmIdentify(ans))
DisarmIdentify == AnsQuiet(Nvme!DisarmIdentify(ans))

\* A write to the submission doorbell.  The gates are tried, and looked at,
\* only for a command that the queues accept.
WriteSqTail(tail) ==
  LET tried == Nvme!Completes([ans EXCEPT !.en = TRUE], tail, TRUE)
      posts == Nvme!Completes(ans, tail, DmaGates.open)
      after == Nvme!DoorbellSq(ans, tail, DmaGates.open)
  IN /\ undrained < (IF part = "queue" THEN DbMask ELSE 1)
     /\ IF posts THEN AnsStep(after)
        ELSE ans' = after /\ UNCHANGED <<pci, gates, part, masterLost>>
     /\ mbox' = IF tried THEN DmaGates.mbox ELSE mbox
     /\ asc' = IF tried THEN DmaGates.asc ELSE asc
     /\ boot' = IF tried THEN DmaGates.boot ELSE boot
     /\ undrained' = IF posts THEN undrained + 1 ELSE undrained

\* The host consumes n completions and rings the completion doorbell.
WriteCqHead(n) ==
  /\ n <= undrained
  /\ AnsStep(Nvme!DoorbellCq(ans, (ans.cqh + n) % (DbMask + 1)))
  /\ undrained' = undrained - n
  /\ UNCHANGED chain

WriteIntMask(mask) ==
  /\ part = "queue"
  /\ AnsStep(Nvme!MaskIrq(ans, mask))
  /\ UNCHANGED <<mbox, asc, boot, undrained>>

BindAsq(asq) == part = "queue" /\ AnsQuiet(Nvme!BindAsq(ans, asq))
BindAcq(slots) == part = "queue" /\ AnsQuiet(Nvme!BindAcq(ans, slots))
BindPrp(page, bound) == part = "queue" /\ AnsQuiet(Nvme!BindPrp(ans, page, bound))

AnsBindPci ==
  AnsStep([ans EXCEPT !.pci = TRUE]) /\ UNCHANGED <<mbox, asc, boot, undrained>>

AnsUnbindPci ==
  /\ ans' = [ans EXCEPT !.pci = FALSE]
  /\ pci' = IF ans.pci THEN Pci!SetIrq(pci, FALSE) ELSE pci
  /\ UNCHANGED <<mbox, asc, boot, gates, part, undrained, masterLost>>

\* vf_ans_bind_mbox(), vf_ans_bind_ascwrap(), vf_ans_bind_autoboot().
BindGate(g, bound) ==
  /\ part = "chain"
  /\ gates' = [gates EXCEPT ![g] = bound]
  /\ UNCHANGED <<ans, pci, mbox, asc, boot, part, undrained, masterLost>>

-----------------------------------------------------------------------------
(* The chain. *)

ChainStep ==
  part = "chain" /\ UNCHANGED <<ans, gates, part, undrained>>

\* A write to the command register, which tells nobody.
WriteConfig(master) ==
  /\ pci' = Pci!WriteConfig(pci, master)
  /\ masterLost' = (masterLost \/ (~master /\ mbox.started /\ mbox.linked))
  /\ UNCHANGED <<ans, mbox, asc, boot, gates, part, undrained>>

\* ans_mbox_post_reply(): one slot, whose unread message is overwritten.
PostReply(m, reply) == [m EXCEPT !.reply = reply, !.pending = TRUE]

Messages == {"PING", "GET_STATUS", "OTHER_OP", "OTHER_ENDPOINT"}

\* ans_mbox_handle_endpoint().
ReplyTo(msg) ==
  CASE msg = "PING" -> "PING_ACK"
    [] msg = "GET_STATUS" -> "STATUS_REPLY"
    [] OTHER -> "L1_REJECT"

\* vf_ans_mbox_start(): masters the bus of the linked function first.
MboxStart ==
  /\ ChainStep
  /\ pci' = IF mbox.linked THEN Pci!EnableMemoryBusMaster(pci) ELSE pci
  /\ mbox' = PostReply([mbox EXCEPT !.started = TRUE], "ANNOUNCE")
  /\ masterLost' = FALSE
  /\ UNCHANGED <<asc, boot>>

MboxBindPci(linked) ==
  /\ ChainStep
  /\ mbox' = MboxSeen([mbox EXCEPT !.linked = linked], pci)
  /\ masterLost' = FALSE
  /\ UNCHANGED <<pci, asc, boot>>

\* A message is answered only by a started mailbox.
MboxWriteA2I(msg) ==
  /\ ChainStep
  /\ mbox' = LET m == MboxSeen(mbox, pci) IN
             IF m.started THEN PostReply(m, ReplyTo(msg)) ELSE m
  /\ UNCHANGED <<pci, asc, boot, masterLost>>

MboxReadI2A ==
  /\ ChainStep
  /\ mbox' = [mbox EXCEPT !.pending = FALSE]
  /\ UNCHANGED <<pci, asc, boot, masterLost>>

MboxReadFlags == ChainStep /\ LookAtMbox /\ UNCHANGED <<pci, masterLost>>

AscBindMbox(linked) ==
  /\ ChainStep
  /\ mbox' = IF linked THEN MboxSeen(mbox, pci) ELSE mbox
  /\ asc' = AscSeen([asc EXCEPT !.linked = linked], mbox')
  /\ UNCHANGED <<pci, boot, masterLost>>

AscReadFlags == ChainStep /\ LookAtAsc /\ UNCHANGED <<pci, masterLost>>

BootBindAsc(linked) ==
  /\ ChainStep
  /\ mbox' = IF linked /\ asc.linked THEN MboxSeen(mbox, pci) ELSE mbox
  /\ asc' = IF linked THEN AscSeen(asc, mbox') ELSE asc
  /\ boot' = BootSeen([boot EXCEPT !.linked = linked], asc')
  /\ UNCHANGED <<pci, masterLost>>

BootReadFlags == ChainStep /\ LookAtBoot /\ UNCHANGED <<pci, masterLost>>

\* A write to the map: refused, after looking, when linked and not armed.
BootWriteMap ==
  /\ ChainStep
  /\ mbox' = IF boot.linked /\ asc.linked THEN MboxSeen(mbox, pci) ELSE mbox
  /\ asc' = IF boot.linked THEN AscSeen(asc, mbox') ELSE asc
  /\ boot' = LET b == IF boot.linked THEN BootSeen(boot, asc') ELSE boot IN
             [b EXCEPT !.written = @ \/ (b.linked => b.armed)]
  /\ UNCHANGED <<pci, masterLost>>

-----------------------------------------------------------------------------
SqTails == IF part = "queue" THEN Nvme!Doorbell ELSE {0, 1}

Next ==
  \/ \E b \in BOOLEAN :
       \/ WriteCc(b) \/ WriteIntMask(b) \/ WriteConfig(b)
       \/ MboxBindPci(b) \/ AscBindMbox(b) \/ BootBindAsc(b)
       \/ \E g \in {"mbox", "asc", "boot"} : BindGate(g, b)
  \/ ArmIdentify \/ DisarmIdentify
  \/ \E tail \in SqTails : WriteSqTail(tail)
  \/ \E n \in Nvme!Doorbell : WriteCqHead(n)
  \/ \E asq \in {"UNBOUND", "ALIGNED", "SPLIT", "BAD"} : BindAsq(asq)
  \/ \E slots \in AcqSizes \cup {Nvme!NoAcq} : BindAcq(slots)
  \/ \E page \in {1, 2}, b \in BOOLEAN : BindPrp(page, b)
  \/ \E msg \in Messages : MboxWriteA2I(msg)
  \/ AnsBindPci \/ AnsUnbindPci \/ MboxStart
  \/ MboxReadI2A \/ MboxReadFlags
  \/ AscReadFlags \/ BootReadFlags \/ BootWriteMap

Spec == Init /\ [][Next]_vars

-----------------------------------------------------------------------------
(* Properties *)

(* The stub's view of its completion queue is the host's: the distance     *)
(* from head to tail is the number of completions nobody drained, and the  *)
(* interrupt status is set exactly while there are any, across wrap-around *)
(* and controller resets (ans_v1.c:139-157,312-330).                       *)
QueueAgrees ==
  /\ (ans.tail - ans.cqh) % (DbMask + 1) = undrained
  /\ ans.irq <=> undrained > 0

\* What the chain is worth right now, whatever the cached flags say.
Started == mbox.started /\ (mbox.linked => pci.master)
Ready == asc.linked /\ Started
Armed == boot.linked /\ Ready

(* A completion is posted, a mailbox message answered and the autoboot map *)
(* written only while every link below the bound gate is up at that        *)
(* moment: no cached READY, ARMED or STARTED of a chain that has since     *)
(* broken lets one through (ans_v1.c:445-460, ans_mbox_v1.c:205-210,       *)
(* ans_autoboot_v1.c:102-117).                                             *)
ActsOnlyWhenLive ==
  [][/\ undrained' > undrained =>
          /\ ans.pci => pci.master
          /\ gates.mbox => Started
          /\ gates.asc => Ready
          /\ gates.boot => Armed
     /\ mbox'.reply \notin {mbox.reply, "ANNOUNCE"} => Started
     /\ boot'.written # boot.written => (boot.linked => Armed)]_vars

(* ANS_MBOX.md, 3: clearing BusMaster drops STARTED at the next look.      *)
StartedIsContinuous == Started => ~masterLost
=============================================================================
