------------------------------ MODULE M1Bridge ------------------------------
(***************************************************************************)
(* The M1 guest bridge (runtime/preos_bridge.c): one interrupt controller, *)
(* the leaf devices and the ANS storage stub with its PCIe stub, reached   *)
(* by guest MMIO accesses and by host entry points.  Every entry point     *)
(* runs to completion, so each is one action; the hard part is that a      *)
(* device's interrupt exists twice, in the device and as a line of the     *)
(* controller, and each entry point copies it or forgets to.               *)
(*                                                                         *)
(* Accesses with a wrong width or offset, writes to read-only windows and  *)
(* reads without effect change nothing and are left out.  The SMC, SART    *)
(* and GXF raise no interrupt: M1Machine adds them.  The NVRAM window has  *)
(* a specification of its own (Nvram).                                     *)
(* The variable driven, fixed in the initial state, names what a behaviour *)
(* exercises, so that the devices are explored a few at a time.            *)
(***************************************************************************)
EXTENDS Integers, FiniteSets

CONSTANTS IrqCount, CpuCount,                      \* the controller
          MaxTime, MaxGen, SeqMod, FifoDepth,      \* the leaf devices
          DbMask,                                  \* the ANS doorbells
          HostLines,    \* lines the host raises directly, wired to no device
          Focus         \* the sets of participants to explore

Ctl == INSTANCE Aic
Dev == INSTANCE M1Devices
Pci == INSTANCE AnsPci
Nvme == INSTANCE Ans

Leaf == {"timer", "storage", "adp", "recovery", "dart", "uart", "sep"}
Participant == Leaf \cup {"ans",      \* the ANS host entry points
                          "pci",      \* direct host control of the PCIe stub
                          "aic",      \* guest accesses to the controller
                          "aicReset", \* the guest resets the controller
                          \* guarded execution: its entries and exits, and
                          \* the registers that are written between them
                          "gxf", "gxfFrame", "gxfBank", "gxfTrap", "gxfVector",
                          "gxfLock", "sprr",
                          "smc", "sart", "sart3", "gpio"}

ASSUME M1BridgeAssumption ==
  /\ {MaxTime, MaxGen, FifoDepth, DbMask} \subseteq Nat
  /\ {IrqCount, CpuCount, SeqMod} \subseteq Nat \ {0}
  /\ HostLines \subseteq 7..(IrqCount - 1)
  /\ Focus \subseteq SUBSET Participant

VARIABLES
  ready,     \* g_m1_mmio_ready
  aic,       \* g_m1_aic
  dev,       \* the leaf devices
  pci,       \* g_m1_ans_pci
  ans,       \* g_m1_ans
  sqShadow,  \* g_m1_ans_admin_sq_tail, the host's copy of the doorbell
  driven,    \* the participants of this behaviour
  claimed    \* history: interrupts EVENT returned, not unmasked since

vars == <<ready, aic, dev, pci, ans, sqShadow, driven, claimed>>

\* The VF_M1_*_IRQ_LINE wiring.
Line == [timer |-> 0, storage |-> 1, adp |-> 2, recovery |-> 3, dart |-> 4,
         uart |-> 5, sep |-> 6]
StorageLine == Line["storage"]

DeviceInit == [timer |-> Dev!TimerInit, storage |-> Dev!StorageInit,
               adp |-> Dev!AdpInit, recovery |-> Dev!RecoveryInit,
               dart |-> Dev!DartInit, uart |-> Dev!UartInit, sep |-> Dev!SepInit]

Pending(state) == [timer |-> Dev!TimerPending(state.timer),
                   storage |-> Dev!StoragePending(state.storage),
                   adp |-> Dev!AdpPending(state.adp),
                   recovery |-> Dev!RecoveryPending(state.recovery),
                   dart |-> Dev!DartPending(state.dart),
                   uart |-> Dev!UartPending(state.uart),
                   sep |-> Dev!SepPending(state.sep)]

Init ==
  /\ ready = FALSE
  /\ aic = Ctl!AicReset
  /\ dev = DeviceInit
  /\ pci = Pci!PciInit
  /\ ans = Nvme!AnsInit
  /\ sqShadow = 0
  /\ driven \in Focus
  /\ claimed = {}

-----------------------------------------------------------------------------
(* The helpers every entry point is made of. *)

\* The entry point works on device d; the line is left alone.
Quiet(d, state) ==
  /\ ready /\ d \in driven
  /\ dev' = [dev EXCEPT ![d] = state]
  /\ UNCHANGED <<ready, aic, pci, ans, sqShadow, driven, claimed>>

\* The entry point works on device d and ends in <d>_sync_aic_irq().
Synced(d, state) ==
  /\ ready /\ d \in driven
  /\ dev' = [dev EXCEPT ![d] = state]
  /\ aic' = Ctl!SetLine(aic, Line[d], Pending(dev')[d])
  /\ UNCHANGED <<ready, pci, ans, sqShadow, driven, claimed>>

\* The line after the PCIe stub p synchronised it through the bound sink.
AfterSink(p) ==
  IF p.aicBound THEN Ctl!SetLine(aic, StorageLine, Pci!DeliveryPending(p)) ELSE aic

\* The controller after the ANS stub, in state a, drove the PCIe stub p.
AnsDrives(a, p) ==
  /\ ans' = a
  /\ pci' = IF a.pci THEN Pci!SetIrq(p, Nvme!IrqCheck(a)) ELSE p
  /\ aic' = IF a.pci THEN AfterSink(pci') ELSE aic
  /\ UNCHANGED <<ready, dev, driven, claimed>>

-----------------------------------------------------------------------------
(* Reset of the whole bridge. *)

\* vf_m1_guest_mmio_reset(): every device from its init function, then the
\* SEP announce mirrored, then ANS, PCIe and controller wired together.
MmioReset ==
  /\ ready' = TRUE
  /\ dev' = DeviceInit
  /\ ans' = [Nvme!AnsInit EXCEPT !.pci = TRUE]
  /\ pci' = Pci!BindMsiGpa(Pci!BindAic(Pci!PciInit))
  /\ aic' = Ctl!SetLine(Ctl!AicReset, Line["sep"], TRUE)
  /\ sqShadow' = 0
  /\ claimed' = {}
  /\ UNCHANGED driven

-----------------------------------------------------------------------------
(* The interrupt controller's own window, and the host's free lines. *)

AicOnly(a) ==
  /\ ready
  /\ aic' = a
  /\ UNCHANGED <<ready, dev, pci, ans, sqShadow, driven>>

DrivenLines == {Line[d] : d \in driven \cap Leaf} \cup HostLines

AicWriteReset ==
  "aicReset" \in driven /\ AicOnly(Ctl!AicReset) /\ claimed' = {}

AicReadEvent(cpu) ==
  /\ "aic" \in driven
  /\ AicOnly(Ctl!AfterEvent(aic, cpu))
  /\ claimed' = claimed \cup ({Ctl!NextIrq(aic, cpu)} \ {Ctl!NoIrq})

AicWriteTarget(irq, cpus) ==
  "aic" \in driven /\ AicOnly(Ctl!WriteTarget(aic, irq, cpus)) /\ UNCHANGED claimed

AicWriteBank(bank, irq) ==
  /\ "aic" \in driven
  /\ AicOnly(Ctl!WriteBank(aic, bank, {irq}))
  /\ claimed' = IF bank = "MASK_CLR" THEN claimed \ {irq} ELSE claimed

HostSetLine(irq, high) ==
  "aic" \in driven /\ AicOnly(Ctl!SetLine(aic, irq, high)) /\ UNCHANGED claimed

-----------------------------------------------------------------------------
(* The leaf devices. *)

TimerAdvance(ticks) == Synced("timer", Dev!TimerAdvance(dev.timer, ticks))
TimerWriteCompare(v) == Synced("timer", Dev!TimerCompare(dev.timer, v))
TimerWriteCtl(en, masked) == Synced("timer", Dev!TimerCtl(dev.timer, en, masked))

StorageAttach == Synced("storage", Dev!StorageAttach(dev.storage))
StorageDetach == Synced("storage", Dev!StorageDetach(dev.storage))

AdpConfigure == Synced("adp", Dev!AdpConfigure(dev.adp))
AdpWritePresent ==
  dev.adp.configured /\ Synced("adp", Dev!AdpPresent(dev.adp))
AdpWriteDisable == Synced("adp", Dev!AdpDisable(dev.adp))
AdpWriteAck == Synced("adp", Dev!AdpAckVblank(dev.adp))

RecoveryIngest(sequence, intact) ==
  /\ Dev!RecoveryAccepts(dev.recovery, sequence, intact)
  /\ Synced("recovery", Dev!RecoveryIngest(dev.recovery, sequence))
RecoveryClear == Synced("recovery", Dev!RecoveryClear(dev.recovery))

DartSimulateFault == Synced("dart", Dev!DartFault(dev.dart))
\* Mutant: clearing the error does not lower the line.
DartWriteErrorStatus_Unsynced(bits) == Quiet("dart", Dev!DartClear(dev.dart, bits))
\* The one DART write that synchronises; the lock does not refuse it.
DartWriteErrorStatus(bits) == Synced("dart", Dev!DartClear(dev.dart, bits))
DartWriteConfig(lock) ==
  ~dev.dart.locked /\ Quiet("dart", Dev!DartConfig(dev.dart, lock))

UartPushRx == dev.uart.rx < FifoDepth /\ Synced("uart", Dev!UartPushRx(dev.uart))
\* A read never synchronises.
UartReadRx == Quiet("uart", Dev!UartReadRx(dev.uart))
UartWriteFifoControl(enable, reset) ==
  Synced("uart", Dev!UartFifoControl(dev.uart, enable, reset))
UartWriteTx == Synced("uart", Dev!UartTx(dev.uart))
UartWriteStatus == Synced("uart", Dev!UartAck(dev.uart))

SepWriteMsgIn(request) == Synced("sep", Dev!SepHandle(dev.sep, request))
SepReadMsgOut == Synced("sep", Dev!SepDrain(dev.sep))

-----------------------------------------------------------------------------
(* ANS: the host entry points of the storage path. *)

Ans == ready /\ "ans" \in driven

\* Mutant: the shadow survives the controller reset.
AnsEnableIdentifyPath_KeepsShadow ==
  /\ Ans
  /\ AnsDrives(Nvme!ApplyCcEnable(Nvme!ApplyCcEnable(ans, FALSE), TRUE),
               Pci!EnableMemoryBusMaster(pci))
  /\ UNCHANGED sqShadow

\* Both writes to CC synchronise, with the same level.
AnsEnableIdentifyPath ==
  /\ Ans
  /\ AnsDrives(Nvme!ApplyCcEnable(Nvme!ApplyCcEnable(ans, FALSE), TRUE),
               Pci!EnableMemoryBusMaster(pci))
  /\ sqShadow' = 0

\* The DMA gate: only the PCIe stub is bound in the bridge.
AnsSubmitAdminIdentify ==
  LET armed == Nvme!ArmIdentify(ans)
      next == Nvme!Bump(sqShadow)
      dma == ~ans.pci \/ pci.master
      after == Nvme!DoorbellSq(armed, next, dma)
  IN /\ Ans
     /\ IF Nvme!Completes(armed, next, dma)
        THEN AnsDrives(after, pci)
        ELSE ans' = after /\ UNCHANGED <<ready, aic, dev, pci, driven, claimed>>
     /\ sqShadow' = next

AnsMaskAdminIrq(mask) ==
  Ans /\ AnsDrives(Nvme!MaskIrq(ans, mask), pci) /\ UNCHANGED sqShadow

AnsDrainAdminCq ==
  Ans /\ AnsDrives(Nvme!DoorbellCq(ans, ans.tail), pci) /\ UNCHANGED sqShadow

AnsBindPci ==
  Ans /\ AnsDrives([ans EXCEPT !.pci = TRUE], pci) /\ UNCHANGED sqShadow

\* vf_ans_bind_pci(NULL) lowers the pin it leaves.
AnsUnbindPci ==
  /\ Ans
  /\ ans' = [ans EXCEPT !.pci = FALSE]
  /\ pci' = IF ans.pci THEN Pci!SetIrq(pci, FALSE) ELSE pci
  /\ aic' = IF ans.pci THEN AfterSink(pci') ELSE aic
  /\ UNCHANGED <<ready, dev, sqShadow, driven, claimed>>

-----------------------------------------------------------------------------
(* The PCIe stub's own entry points. *)

PciStep(p) ==
  /\ ready /\ driven \cap {"ans", "pci"} # {}
  /\ pci' = p
  /\ UNCHANGED <<ready, dev, ans, sqShadow, driven, claimed>>

\* The entry points that end in ans_pci_sync_aic().
PciSynced(p) == PciStep(p) /\ aic' = AfterSink(p)

PciBindAic == PciSynced(Pci!BindAic(pci))
PciUnbindAic == PciStep(Pci!UnbindAic(pci)) /\ UNCHANGED aic
PciSetIrq(level) == "pci" \in driven /\ PciSynced(Pci!SetIrq(pci, level))
PciBindMsiGpa == PciStep(Pci!BindMsiGpa(pci)) /\ UNCHANGED aic
PciUnbindMsiGpa == PciStep(Pci!UnbindMsiGpa(pci)) /\ UNCHANGED aic
PciPrepareMsi(on, inWindow) ==
  PciSynced(Pci!ApplyMsiEnable(IF on THEN Pci!WriteMsiAddr(pci, inWindow) ELSE pci, on))
PciPrepareMsix(on) == PciSynced(Pci!ApplyMsixEnable(pci, on))

-----------------------------------------------------------------------------
\* Every entry point but the reset.
DeviceNext ==
  \/ AicWriteReset
  \/ \E cpu \in Ctl!Cpu : AicReadEvent(cpu)
  \/ \E irq \in DrivenLines :
       \/ \E cpus \in SUBSET Ctl!Cpu : AicWriteTarget(irq, cpus)
       \/ \E bank \in {"SW_SET", "SW_CLR", "MASK_SET", "MASK_CLR"} :
            AicWriteBank(bank, irq)
  \/ \E irq \in HostLines, high \in BOOLEAN : HostSetLine(irq, high)
  \/ \E ticks \in Dev!Time : TimerAdvance(ticks)
  \/ \E v \in Dev!Time : TimerWriteCompare(v)
  \/ \E en, masked \in BOOLEAN : TimerWriteCtl(en, masked)
  \/ StorageAttach \/ StorageDetach
  \/ AdpConfigure \/ AdpWritePresent \/ AdpWriteDisable \/ AdpWriteAck
  \/ \E sequence \in 0..(SeqMod - 1), intact \in BOOLEAN :
       RecoveryIngest(sequence, intact)
  \/ RecoveryClear
  \/ DartSimulateFault
  \/ \E bits \in BOOLEAN : DartWriteErrorStatus(bits) \/ DartWriteConfig(bits)
  \/ UartPushRx \/ UartReadRx \/ UartWriteTx \/ UartWriteStatus
  \/ \E enable, reset \in BOOLEAN : UartWriteFifoControl(enable, reset)
  \/ \E request \in Dev!SepRequest : SepWriteMsgIn(request)
  \/ SepReadMsgOut
  \/ AnsEnableIdentifyPath \/ AnsSubmitAdminIdentify \/ AnsDrainAdminCq
  \/ AnsBindPci \/ AnsUnbindPci
  \/ \E mask \in BOOLEAN : AnsMaskAdminIrq(mask)
  \/ PciBindAic \/ PciUnbindAic \/ PciBindMsiGpa \/ PciUnbindMsiGpa
  \/ \E level \in BOOLEAN : PciSetIrq(level) \/ PciPrepareMsix(level)
  \/ \E on, inWindow \in BOOLEAN : PciPrepareMsi(on, inWindow)

-----------------------------------------------------------------------------
(* Properties *)

\* The storage line has two drivers; every other device owns its line.
Owner == Leaf \ {"storage"}
High(d) == Line[d] \in aic.level
Mirrored(d) == High(d) <=> Pending(dev)[d]

(* A device's request and its line fall apart in one way only: the guest's *)
(* write to the controller's RST register, which clears levels it does not *)
(* own (aic_v1.c:156-159).  No other access to any window loses or invents *)
(* an interrupt.                                                           *)
MirrorLostOnlyByReset ==
  [][\A d \in Owner : (ready /\ Mirrored(d) /\ ready' /\ ~Mirrored(d)')
                        => aic' = Ctl!AicReset /\ dev' = dev]_vars

(* An interrupt that EVENT handed to one CPU is handed to no CPU again     *)
(* until the guest unmasks it, although its line stays high: the read      *)
(* masks what it returns (aic_v1.c:122-130).                               *)
ClaimedOnce == \A cpu \in Ctl!Cpu : Ctl!NextIrq(aic, cpu) \notin claimed

(* A pending ANS interrupt is latched on exactly the route that the MSI    *)
(* and MSI-X enables select, whatever was toggled while it was pending.    *)
RouteExclusive == Pci!RouteSelected(pci)

\* Nothing but the ANS stub drives its delivery chain.
AnsOwnsChain == ready /\ driven = {"ans"}

(* From submission to controller line: the host's shadow of the submission *)
(* tail is the doorbell's value, so that no submission is swallowed as a   *)
(* write of the same value; an undrained completion keeps the interrupt    *)
(* status set; while the PCIe stub is bound its delivery latch is the      *)
(* unmasked status; while the sink is bound the line is the latch.         *)
(* Submitting, masking, draining, rebinding and controller resets in any   *)
(* order keep the chain true (preos_bridge.c:672-703, ans_v1.c:113-157,    *)
(* 725, ans_pci_v1.c:39-51).                                               *)
CompletionSignalled ==
  /\ sqShadow = ans.sqt
  /\ AnsOwnsChain =>
       /\ ans.tail # ans.cqh => ans.irq
       /\ Pci!DeliveryPending(pci) <=> (ans.pci /\ Nvme!IrqCheck(ans))
       /\ pci.aicBound => (StorageLine \in aic.level <=> Pci!DeliveryPending(pci))

(* storage_v1.c:3 says the line is held while a disk is attached.          *)
StorageLineHeld == ready => (dev.storage.attached => High("storage"))
=============================================================================
