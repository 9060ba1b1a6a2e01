-------------------------- MODULE M1MachineProofs --------------------------
(***************************************************************************)
(* The guest bridge and the devices behind it, for every number of lines,  *)
(* CPUs and doorbell values, every set of devices that are driven, and     *)
(* every set of register values, permission slots, guest CPUs, regions,    *)
(* pages, pins and groups.                                                 *)
(*                                                                         *)
(* Interrupts.  Every entry point is a few calls, so a step has one of     *)
(* five shapes: a device is changed and its line copied, changed and its   *)
(* line left alone, the controller alone is written, the ANS stub drives   *)
(* the PCIe stub, or the PCIe stub is written on its own.  The invariant   *)
(* says what each shape relies on: an interrupt handed out is masked, a    *)
(* pending one is on the route the enables select, and the ANS chain       *)
(* agrees link by link.                                                    *)
(*                                                                         *)
(* Guarded execution keeps one mode in two places, the flag the accessors  *)
(* route by and the status bit the entries test: that they agree is what   *)
(* the separation of the banks and the exit's return address rest on.      *)
(* A flush reaches the bound CPU because a bridge that is ready has its    *)
(* hook installed for that very CPU.  The pin controller keeps the input   *)
(* levels twice, and an edge is seen because the copies agree between two  *)
(* calls.                                                                  *)
(***************************************************************************)
EXTENDS M1Machine, WellFoundedInduction, TLAPS

-----------------------------------------------------------------------------
(* The interrupts of the bridge. *)

AicT == [level : SUBSET Nat, software : SUBSET Nat, masked : SUBSET Nat,
         target : [Ctl!Irq -> SUBSET Ctl!Cpu]]

TimerT == [counter : Nat, compare : Nat, enabled : BOOLEAN, masked : BOOLEAN]
StorageT == [attached : BOOLEAN, generation : Nat]
AdpT == [configured : BOOLEAN, enabled : BOOLEAN, presented : BOOLEAN,
         vblank : BOOLEAN]
RecoveryT == [expected : Int, last : Int, ready : BOOLEAN]
DartT == [fault : BOOLEAN, locked : BOOLEAN]
UartT == [rx : Int, fifo : BOOLEAN, pending : BOOLEAN]
SepT == [reply : {"ANNOUNCE", "PING_ACK", "STATUS_REPLY", "L1_REJECT"},
         pending : BOOLEAN]
DevT == [timer : TimerT, storage : StorageT, adp : AdpT, recovery : RecoveryT,
         dart : DartT, uart : UartT, sep : SepT]

PciT == [master : BOOLEAN, intx : BOOLEAN, msi : BOOLEAN, msix : BOOLEAN,
         msiEnabled : BOOLEAN, msixEnabled : BOOLEAN, gpaBound : BOOLEAN,
         addrInWindow : BOOLEAN, messageWritten : BOOLEAN, aicBound : BOOLEAN,
         aicLineHigh : BOOLEAN]

Index == Int

\* The bridge binds no queue and no data page.
AnsT == [en : BOOLEAN, sqt : Index, cqh : Index, tail : Index, phase : Index,
         intm : BOOLEAN, irq : BOOLEAN, armed : BOOLEAN, pci : BOOLEAN,
         asq : {"UNBOUND"}, acq : {Nvme!NoAcq}, prp : {{}}]

BridgeType == /\ ready \in BOOLEAN /\ driven \subseteq Participant
              /\ aic \in AicT /\ dev \in DevT /\ pci \in PciT /\ ans \in AnsT
              /\ sqShadow \in Index

\* What EVENT handed out is masked; "none" is handed out by nobody.
ClaimsMasked == claimed \subseteq aic.masked /\ Ctl!NoIrq \notin claimed

\* The ANS stub and the host's shadow, whoever else drives the chain.
QueueShadowed == /\ sqShadow = ans.sqt
                 /\ ans.tail # ans.cqh => ans.irq

\* The chain while nothing but the ANS stub drives it; before the first
\* reset all of it is low.
ChainAgrees ==
  driven = {"ans"} =>
    /\ Pci!DeliveryPending(pci) <=> (ans.pci /\ Nvme!IrqCheck(ans))
    /\ pci.aicBound => (StorageLine \in aic.level <=> Pci!DeliveryPending(pci))

BridgeInv == BridgeType /\ ClaimsMasked /\ RouteExclusive /\ QueueShadowed /\ ChainAgrees

\* MirrorLostOnlyByReset, as a step.
MirrorStep ==
  \A d \in Owner : (ready /\ Mirrored(d) /\ ready' /\ ~Mirrored(d)')
                     => aic' = Ctl!AicReset /\ dev' = dev

-----------------------------------------------------------------------------
(* The controller's operators. *)

LEMMA LeastExists ==
  ASSUME NEW T, T \subseteq Nat, T # {}
  PROVE  \E i \in T : \A j \in T : i <= j
<1>1. PICK m \in T : \A k \in T : ~(<<k, m>> \in OpToRel(<, Nat))
  BY WFMin, NatLessThanWellFounded, Zenon
<1>2. \A k \in T : ~(k < m)
  BY <1>1, Zenon DEF OpToRel
<1> QED
  BY <1>2

(* What EVENT returns is deliverable, or "none" (aic_v1.c:122-130).        *)
LEMMA NextIsDeliverable ==
  ASSUME NEW a \in AicT, NEW cpu
  PROVE  Ctl!NextIrq(a, cpu) \in Ctl!Deliverable(a, cpu) \cup {Ctl!NoIrq}
<1>1. Ctl!Deliverable(a, cpu) \subseteq Nat
  BY DEF Ctl!Deliverable, AicT
<1>2. CASE Ctl!Deliverable(a, cpu) = {}
  BY <1>2 DEF Ctl!NextIrq
<1>3. CASE Ctl!Deliverable(a, cpu) # {}
  <2>1. \E i \in Ctl!Deliverable(a, cpu) : \A j \in Ctl!Deliverable(a, cpu) : i <= j
    BY <1>1, <1>3, LeastExists
  <2> QED
    BY <1>3, <2>1 DEF Ctl!NextIrq
<1> QED
  BY <1>2, <1>3

LEMMA ResetTyped == Ctl!AicReset \in AicT /\ Ctl!AicReset.level = {}
BY M1BridgeAssumption DEF Ctl!AicReset, AicT, Ctl!Irq, Ctl!Cpu

(* A line moves nothing but its own level (aic_v1.c:51-57).               *)
LEMMA LineMoves ==
  ASSUME NEW a \in AicT, NEW irq \in Nat, NEW high \in BOOLEAN
  PROVE  /\ Ctl!SetLine(a, irq, high) \in AicT
         /\ Ctl!SetLine(a, irq, high).masked = a.masked
         /\ irq \in Ctl!SetLine(a, irq, high).level <=> high
         /\ \A j \in Nat : j # irq =>
              (j \in Ctl!SetLine(a, irq, high).level <=> j \in a.level)
BY DEF Ctl!SetLine, AicT

-----------------------------------------------------------------------------
(* Lines and devices. *)

LEMMA LinesApart ==
  /\ \A d \in Leaf : Line[d] \in Nat /\ Line[d] < 7
  /\ \A d, e \in Leaf : Line[d] = Line[e] => d = e
  /\ StorageLine = Line["storage"]
  /\ \A irq \in HostLines : irq \in Nat /\ irq >= 7
BY M1BridgeAssumption DEF Leaf, Line, StorageLine

LEMMA PendingLocal ==
  ASSUME NEW s, NEW t, NEW d \in Leaf, s[d] = t[d]
  PROVE  Pending(s)[d] = Pending(t)[d]
BY DEF Leaf, Pending

LEMMA PendingBoolean ==
  ASSUME NEW s \in DevT, NEW d \in Leaf
  PROVE  Pending(s)[d] \in BOOLEAN
<1>1. CASE d = "timer"
  BY <1>1 DEF Pending, Dev!TimerPending
<1>2. CASE d = "storage"
  BY <1>2 DEF Pending, Dev!StoragePending, DevT, StorageT
<1>3. CASE d = "adp"
  BY <1>3 DEF Pending, Dev!AdpPending, DevT, AdpT
<1>4. CASE d = "recovery"
  BY <1>4 DEF Pending, Dev!RecoveryPending, DevT, RecoveryT
<1>5. CASE d = "dart"
  BY <1>5 DEF Pending, Dev!DartPending, DevT, DartT
<1>6. CASE d = "uart"
  BY <1>6 DEF Pending, Dev!UartPending, DevT, UartT
<1>7. CASE d = "sep"
  BY <1>7 DEF Pending, Dev!SepPending, DevT, SepT
<1> QED
  BY <1>1, <1>2, <1>3, <1>4, <1>5, <1>6, <1>7 DEF Leaf

(* Copying one device's request mirrors it and disturbs no other device.   *)
LEMMA SyncedKeeps ==
  ASSUME BridgeInv, NEW d \in Leaf, NEW state, Synced(d, state), dev' \in DevT
  PROVE  BridgeInv' /\ MirrorStep
<1> USE DEF BridgeInv
<1>1. /\ dev' = [dev EXCEPT ![d] = state] /\ DOMAIN dev = Leaf
      /\ d \in driven /\ Line[d] \in Nat
      /\ UNCHANGED <<ready, pci, ans, sqShadow, driven, claimed>>
  BY LinesApart DEF Synced, BridgeType, DevT, Leaf
<1>2. PICK p \in BOOLEAN : p = Pending(dev')[d]
  BY PendingBoolean
<1>3. aic' = Ctl!SetLine(aic, Line[d], p)
  BY <1>2 DEF Synced
<1>4. /\ aic' \in AicT /\ aic'.masked = aic.masked
      /\ Line[d] \in aic'.level <=> p
      /\ \A j \in Nat : j # Line[d] => (j \in aic'.level <=> j \in aic.level)
  BY <1>1, <1>3, LineMoves, Zenon DEF BridgeType
<1>5. BridgeType' /\ ClaimsMasked' /\ RouteExclusive' /\ QueueShadowed'
  BY <1>1, <1>4 DEF BridgeType, ClaimsMasked, RouteExclusive, QueueShadowed
<1>6. ChainAgrees'
  BY <1>1 DEF ChainAgrees, Leaf
<1>7. ASSUME NEW e \in Owner, Mirrored(e)
      PROVE  Mirrored(e)'
  <2>1. CASE e = d
    BY <1>2, <1>4, <2>1 DEF Mirrored, High
  <2>2. CASE e # d
    <3>1. e \in Leaf /\ Line[e] # Line[d] /\ Line[e] \in Nat
      BY <2>2, LinesApart DEF Owner
    <3>2. dev'[e] = dev[e]
      BY <1>1, <2>2
    <3>3. Pending(dev')[e] = Pending(dev)[e]
      BY <3>1, <3>2, PendingLocal
    <3> QED
      BY <1>4, <1>7, <3>1, <3>3 DEF Mirrored, High
  <2> QED
    BY <2>1, <2>2
<1> QED
  BY <1>5, <1>6, <1>7 DEF MirrorStep

(* An access that leaves the line alone does not change the request.       *)
LEMMA QuietKeeps ==
  ASSUME BridgeInv, NEW d \in Leaf, NEW state, Quiet(d, state), dev' \in DevT,
         Pending(dev')[d] = Pending(dev)[d]
  PROVE  BridgeInv' /\ MirrorStep
<1> USE DEF BridgeInv
<1>1. /\ dev' = [dev EXCEPT ![d] = state] /\ DOMAIN dev = Leaf
      /\ UNCHANGED <<ready, aic, pci, ans, sqShadow, driven, claimed>>
  BY DEF Quiet, BridgeType, DevT, Leaf
<1>2. BridgeInv'
  BY <1>1 DEF BridgeType, ClaimsMasked, RouteExclusive, QueueShadowed, ChainAgrees
<1>3. ASSUME NEW e \in Owner, Mirrored(e)
      PROVE  Mirrored(e)'
  <2>1. e = d \/ dev'[e] = dev[e]
    BY <1>1 DEF Owner
  <2>2. Pending(dev')[e] = Pending(dev)[e]
    BY <2>1, PendingLocal DEF Owner
  <2> QED
    BY <1>1, <1>3, <2>2 DEF Mirrored, High
<1> QED
  BY <1>2, <1>3 DEF MirrorStep

-----------------------------------------------------------------------------
(* The devices' entry points, one lemma for each device. *)

LEMMA TimerKeeps ==
  ASSUME BridgeInv,
         \/ \E ticks \in Dev!Time : TimerAdvance(ticks)
         \/ \E v \in Dev!Time : TimerWriteCompare(v)
         \/ \E en, masked \in BOOLEAN : TimerWriteCtl(en, masked)
  PROVE  BridgeInv' /\ MirrorStep
<1>1. dev \in DevT /\ "timer" \in Leaf
  BY DEF BridgeInv, BridgeType, Leaf
<1>2. \E state \in TimerT : Synced("timer", state)
  <2>1. ASSUME NEW ticks \in Dev!Time, TimerAdvance(ticks)
        PROVE  Dev!TimerAdvance(dev.timer, ticks) \in TimerT
    <3>1. dev.timer \in TimerT /\ MaxTime \in Nat /\ ticks \in 0..MaxTime
      BY <1>1, M1BridgeAssumption DEF DevT, Dev!Time
    <3> QED
      BY <3>1 DEF Dev!TimerAdvance, TimerT
  <2>2. ASSUME NEW v \in Dev!Time
        PROVE  Dev!TimerCompare(dev.timer, v) \in TimerT
    BY <1>1 DEF DevT, Dev!Time, Dev!TimerCompare, TimerT
  <2>3. ASSUME NEW en \in BOOLEAN, NEW masked \in BOOLEAN
        PROVE  Dev!TimerCtl(dev.timer, en, masked) \in TimerT
    BY <1>1 DEF DevT, Dev!TimerCtl, TimerT
  <2> QED
    BY <2>1, <2>2, <2>3 DEF TimerAdvance, TimerWriteCompare, TimerWriteCtl
<1>3. PICK state \in TimerT : Synced("timer", state)
  BY <1>2
<1>4. dev' \in DevT
  BY <1>1, <1>3 DEF Synced, DevT
<1> QED
  BY <1>1, <1>3, <1>4, SyncedKeeps

LEMMA StorageKeeps ==
  ASSUME BridgeInv, StorageAttach \/ StorageDetach
  PROVE  BridgeInv' /\ MirrorStep
<1>1. dev \in DevT /\ "storage" \in Leaf /\ MaxGen \in Nat
  BY M1BridgeAssumption DEF BridgeInv, BridgeType, Leaf
<1>2. PICK g \in Nat : g = dev.storage.generation
  BY <1>1 DEF DevT, StorageT
<1>3. Dev!StorageAttach(dev.storage) \in StorageT
  BY <1>1, <1>2 DEF Dev!StorageAttach, StorageT
<1>4. Dev!StorageDetach(dev.storage) \in StorageT
  BY <1>1 DEF Dev!StorageDetach, StorageT, DevT
<1>5. PICK state \in StorageT : Synced("storage", state)
  BY <1>3, <1>4 DEF StorageAttach, StorageDetach
<1>6. dev' \in DevT
  BY <1>1, <1>5 DEF Synced, DevT
<1> QED
  BY <1>1, <1>5, <1>6, SyncedKeeps

LEMMA AdpKeeps ==
  ASSUME BridgeInv, AdpConfigure \/ AdpWritePresent \/ AdpWriteDisable \/ AdpWriteAck
  PROVE  BridgeInv' /\ MirrorStep
<1>1. dev \in DevT /\ "adp" \in Leaf
  BY DEF BridgeInv, BridgeType, Leaf
<1>2. /\ Dev!AdpConfigure(dev.adp) \in AdpT /\ Dev!AdpPresent(dev.adp) \in AdpT
      /\ Dev!AdpDisable(dev.adp) \in AdpT /\ Dev!AdpAckVblank(dev.adp) \in AdpT
  BY <1>1 DEF Dev!AdpConfigure, Dev!AdpPresent, Dev!AdpDisable, Dev!AdpAckVblank,
       DevT, AdpT
<1>3. PICK state \in AdpT : Synced("adp", state)
  BY <1>2 DEF AdpConfigure, AdpWritePresent, AdpWriteDisable, AdpWriteAck
<1>4. dev' \in DevT
  BY <1>1, <1>3 DEF Synced, DevT
<1> QED
  BY <1>1, <1>3, <1>4, SyncedKeeps

LEMMA RecoveryKeeps ==
  ASSUME BridgeInv,
         \/ \E sequence \in 0..(SeqMod - 1), intact \in BOOLEAN :
              RecoveryIngest(sequence, intact)
         \/ RecoveryClear
  PROVE  BridgeInv' /\ MirrorStep
<1>1. /\ dev \in DevT /\ dev.recovery \in RecoveryT
      /\ "recovery" \in Leaf /\ SeqMod \in Nat \ {0}
  BY M1BridgeAssumption DEF BridgeInv, BridgeType, Leaf, DevT
<1>2. ASSUME NEW sequence \in 0..(SeqMod - 1)
      PROVE  Dev!RecoveryIngest(dev.recovery, sequence) \in RecoveryT
  <2>1. (dev.recovery.expected + 1) % SeqMod \in Int
    BY <1>1 DEF RecoveryT
  <2> QED
    BY <1>1, <2>1 DEF Dev!RecoveryIngest, RecoveryT
<1>3. Dev!RecoveryClear(dev.recovery) \in RecoveryT
  BY <1>1 DEF Dev!RecoveryClear, RecoveryT
<1>4. PICK state \in RecoveryT : Synced("recovery", state)
  BY <1>2, <1>3 DEF RecoveryIngest, RecoveryClear
<1>5. dev' \in DevT
  BY <1>1, <1>4 DEF Synced, DevT
<1> QED
  BY <1>1, <1>4, <1>5, SyncedKeeps

LEMMA DartKeeps ==
  ASSUME BridgeInv,
         \/ DartSimulateFault
         \/ \E bits \in BOOLEAN : DartWriteErrorStatus(bits) \/ DartWriteConfig(bits)
  PROVE  BridgeInv' /\ MirrorStep
<1>1. dev \in DevT /\ dev.dart \in DartT /\ "dart" \in Leaf
  BY DEF BridgeInv, BridgeType, Leaf, DevT
<1>2. /\ Dev!DartFault(dev.dart) \in DartT
      /\ \A bits \in BOOLEAN : Dev!DartClear(dev.dart, bits) \in DartT
  BY <1>1 DEF Dev!DartFault, Dev!DartClear, DartT
<1>3. ASSUME NEW state \in DartT, Synced("dart", state)
      PROVE  BridgeInv' /\ MirrorStep
  <2>1. dev' \in DevT
    BY <1>1, <1>3 DEF Synced, DevT
  <2> QED
    BY <1>1, <1>3, <2>1, SyncedKeeps
<1>4. ASSUME NEW lock \in BOOLEAN, DartWriteConfig(lock)
      PROVE  BridgeInv' /\ MirrorStep
  <2>1. PICK state : Quiet("dart", state) /\ state = Dev!DartConfig(dev.dart, lock)
    BY <1>4 DEF DartWriteConfig
  <2>2. state \in DartT /\ state.fault = dev.dart.fault
    BY <1>1, <2>1 DEF Dev!DartConfig, DartT
  <2>3. dev' \in DevT /\ dev'.dart = state
    BY <1>1, <2>1, <2>2 DEF Quiet, DevT
  <2>4. Pending(dev')["dart"] = Pending(dev)["dart"]
    BY <2>2, <2>3 DEF Pending, Dev!DartPending
  <2> QED
    BY <1>1, <2>1, <2>3, <2>4, QuietKeeps
<1> QED
  BY <1>2, <1>3, <1>4 DEF DartSimulateFault, DartWriteErrorStatus

LEMMA UartKeeps ==
  ASSUME BridgeInv,
         \/ UartPushRx \/ UartReadRx \/ UartWriteTx \/ UartWriteStatus
         \/ \E enable, reset \in BOOLEAN : UartWriteFifoControl(enable, reset)
  PROVE  BridgeInv' /\ MirrorStep
<1>1. dev \in DevT /\ dev.uart \in UartT /\ "uart" \in Leaf
  BY DEF BridgeInv, BridgeType, Leaf, DevT
<1>2. Dev!UartPushRx(dev.uart) \in UartT
  <2>1. dev.uart.rx + 1 \in Int
    BY <1>1 DEF UartT
  <2> QED
    BY <1>1, <2>1 DEF Dev!UartPushRx, UartT
<1>3. Dev!UartTx(dev.uart) \in UartT /\ Dev!UartAck(dev.uart) \in UartT
  BY <1>1 DEF Dev!UartTx, Dev!UartAck, UartT
<1>4. ASSUME NEW enable \in BOOLEAN, NEW reset \in BOOLEAN
      PROVE  Dev!UartFifoControl(dev.uart, enable, reset) \in UartT
  <2>1. PICK rx \in Int : rx = IF reset THEN 0 ELSE dev.uart.rx
    BY <1>1 DEF UartT
  <2>2. PICK pend \in BOOLEAN : pend = (dev.uart.pending /\ ~reset)
    OBVIOUS
  <2>3. Dev!UartFifoControl(dev.uart, enable, reset)
          = [dev.uart EXCEPT !.fifo = enable, !.rx = rx, !.pending = pend]
    BY <2>1, <2>2 DEF Dev!UartFifoControl
  <2> QED
    BY <1>1, <2>3 DEF UartT
<1>5. ASSUME NEW state \in UartT, Synced("uart", state)
      PROVE  BridgeInv' /\ MirrorStep
  <2>1. dev' \in DevT
    BY <1>1, <1>5 DEF Synced, DevT
  <2> QED
    BY <1>1, <1>5, <2>1, SyncedKeeps
<1>6. CASE UartReadRx
  <2>1. PICK state : Quiet("uart", state) /\ state = Dev!UartReadRx(dev.uart)
    BY <1>6 DEF UartReadRx
  <2>2. state \in UartT /\ state.pending = dev.uart.pending
    BY <1>1, <2>1 DEF Dev!UartReadRx, UartT
  <2>3. dev' \in DevT /\ dev'.uart = state
    BY <1>1, <2>1, <2>2 DEF Quiet, DevT
  <2>4. Pending(dev')["uart"] = Pending(dev)["uart"]
    BY <2>2, <2>3 DEF Pending, Dev!UartPending
  <2> QED
    BY <1>1, <2>1, <2>3, <2>4, QuietKeeps
<1> QED
  BY <1>2, <1>4, <1>5, <1>6, <1>3
  DEF UartPushRx, UartWriteTx, UartWriteStatus, UartWriteFifoControl

LEMMA SepKeeps ==
  ASSUME BridgeInv,
         SepReadMsgOut \/ \E request \in Dev!SepRequest : SepWriteMsgIn(request)
  PROVE  BridgeInv' /\ MirrorStep
<1>1. dev \in DevT /\ dev.sep \in SepT /\ "sep" \in Leaf
  BY DEF BridgeInv, BridgeType, Leaf, DevT
<1>2. /\ Dev!SepDrain(dev.sep) \in SepT
      /\ \A request \in Dev!SepRequest : Dev!SepHandle(dev.sep, request) \in SepT
  BY <1>1 DEF Dev!SepDrain, Dev!SepHandle, Dev!SepRequest, SepT
<1>3. PICK state \in SepT : Synced("sep", state)
  BY <1>2 DEF SepReadMsgOut, SepWriteMsgIn
<1>4. dev' \in DevT
  BY <1>1, <1>3 DEF Synced, DevT
<1> QED
  BY <1>1, <1>3, <1>4, SyncedKeeps

-----------------------------------------------------------------------------
(* The controller's own window. *)

\* Only the controller and the history of claims change.
AicStep == ready /\ UNCHANGED <<ready, dev, pci, ans, sqShadow, driven>>

LEMMA AicKeeps ==
  ASSUME BridgeInv, AicStep, aic' \in AicT, ClaimsMasked', driven # {"ans"},
         \/ aic' = Ctl!AicReset
         \/ \A j \in 0..6 : j \in aic'.level <=> j \in aic.level
  PROVE  BridgeInv' /\ MirrorStep
<1> USE DEF BridgeInv, AicStep
<1>1. BridgeInv'
  BY DEF BridgeType, RouteExclusive, QueueShadowed, ChainAgrees
<1>2. \A d \in Owner : Line[d] \in 0..6 /\ Pending(dev')[d] = Pending(dev)[d]
  BY DEF Owner, Leaf, Line
<1>3. ASSUME \A j \in 0..6 : j \in aic'.level <=> j \in aic.level,
             NEW d \in Owner, Mirrored(d)
      PROVE  Mirrored(d)'
  BY <1>2, <1>3 DEF Mirrored, High
<1> QED
  BY <1>1, <1>3 DEF MirrorStep

LEMMA DrivenAreLines == driven \subseteq Participant => DrivenLines \subseteq Nat
BY LinesApart DEF DrivenLines

LEMMA ControllerKeeps ==
  ASSUME BridgeInv,
         \/ AicWriteReset
         \/ \E cpu \in Ctl!Cpu : AicReadEvent(cpu)
         \/ \E irq \in DrivenLines :
              \/ \E cpus \in SUBSET Ctl!Cpu : AicWriteTarget(irq, cpus)
              \/ \E bank \in {"SW_SET", "SW_CLR", "MASK_SET", "MASK_CLR"} :
                   AicWriteBank(bank, irq)
         \/ \E irq \in HostLines, high \in BOOLEAN : HostSetLine(irq, high)
  PROVE  BridgeInv' /\ MirrorStep
<1>1. /\ aic \in AicT /\ DrivenLines \subseteq Nat
      /\ claimed \subseteq aic.masked /\ Ctl!NoIrq \notin claimed
  BY DrivenAreLines DEF BridgeInv, BridgeType, ClaimsMasked
<1>2. CASE AicWriteReset
  <2>1. AicStep /\ aic' = Ctl!AicReset /\ claimed' = {} /\ driven # {"ans"}
    BY <1>2 DEF AicWriteReset, AicOnly, AicStep
  <2>2. ClaimsMasked'
    BY <2>1 DEF ClaimsMasked
  <2> QED
    BY <2>1, <2>2, ResetTyped, AicKeeps
<1>3. ASSUME NEW cpu \in Ctl!Cpu, AicReadEvent(cpu)
      PROVE  BridgeInv' /\ MirrorStep
  <2>1. PICK n : n = Ctl!NextIrq(aic, cpu)
    OBVIOUS
  <2>2. n \in Nat \cup {Ctl!NoIrq}
    BY <1>1, <2>1, NextIsDeliverable DEF Ctl!Deliverable, AicT
  <2>3. /\ AicStep /\ driven # {"ans"}
        /\ aic' = [aic EXCEPT !.masked = @ \cup ({n} \ {Ctl!NoIrq})]
        /\ claimed' = claimed \cup ({n} \ {Ctl!NoIrq})
    BY <1>3, <2>1 DEF AicReadEvent, AicOnly, AicStep, Ctl!AfterEvent
  <2>4. aic' \in AicT /\ ClaimsMasked' /\ aic'.level = aic.level
    BY <1>1, <2>2, <2>3 DEF AicT, ClaimsMasked
  <2> QED
    BY <2>3, <2>4, AicKeeps
<1>4. ASSUME NEW irq \in DrivenLines, NEW cpus \in SUBSET Ctl!Cpu,
             AicWriteTarget(irq, cpus)
      PROVE  BridgeInv' /\ MirrorStep
  <2>1. /\ AicStep /\ driven # {"ans"} /\ claimed' = claimed
        /\ aic' = [aic EXCEPT !.target = [@ EXCEPT ![irq] = cpus]]
    BY <1>4 DEF AicWriteTarget, AicOnly, AicStep, Ctl!WriteTarget
  <2>2. [aic.target EXCEPT ![irq] = cpus] \in [Ctl!Irq -> SUBSET Ctl!Cpu]
    BY <1>1 DEF AicT
  <2>3. aic' \in AicT /\ aic'.masked = aic.masked /\ aic'.level = aic.level
    BY <1>1, <2>1, <2>2 DEF AicT
  <2>4. ClaimsMasked'
    BY <1>1, <2>1, <2>3 DEF ClaimsMasked
  <2> QED
    BY <2>1, <2>3, <2>4, AicKeeps
<1>5. ASSUME NEW irq \in DrivenLines,
             NEW bank \in {"SW_SET", "SW_CLR", "MASK_SET", "MASK_CLR"},
             AicWriteBank(bank, irq)
      PROVE  BridgeInv' /\ MirrorStep
  <2>1. /\ AicStep /\ driven # {"ans"} /\ aic' = Ctl!WriteBank(aic, bank, {irq})
        /\ claimed' = IF bank = "MASK_CLR" THEN claimed \ {irq} ELSE claimed
    BY <1>5 DEF AicWriteBank, AicOnly, AicStep
  <2>2. /\ aic' \in AicT /\ aic'.level = aic.level
        /\ aic'.masked = CASE bank = "MASK_SET" -> aic.masked \cup {irq}
                           [] bank = "MASK_CLR" -> aic.masked \ {irq}
                           [] OTHER -> aic.masked
    BY <1>1, <2>1 DEF AicT, Ctl!WriteBank
  <2>3. ClaimsMasked'
    BY <1>1, <2>1, <2>2 DEF ClaimsMasked
  <2> QED
    BY <2>1, <2>2, <2>3, AicKeeps
<1>6. ASSUME NEW irq \in HostLines, NEW high \in BOOLEAN, HostSetLine(irq, high)
      PROVE  BridgeInv' /\ MirrorStep
  <2>1. /\ AicStep /\ driven # {"ans"} /\ claimed' = claimed
        /\ aic' = Ctl!SetLine(aic, irq, high) /\ irq \in Nat /\ irq >= 7
    BY <1>6, LinesApart DEF HostSetLine, AicOnly, AicStep
  <2>2. /\ aic' \in AicT /\ aic'.masked = aic.masked
        /\ \A j \in Nat : j # irq => (j \in aic'.level <=> j \in aic.level)
    BY <1>1, <2>1, LineMoves, Zenon
  <2>3. ClaimsMasked'
    BY <1>1, <2>1, <2>2 DEF ClaimsMasked
  <2>4. \A j \in 0..6 : j \in aic'.level <=> j \in aic.level
    BY <2>1, <2>2
  <2> QED
    BY <2>1, <2>2, <2>3, <2>4, AicKeeps
<1> QED
  BY <1>2, <1>3, <1>4, <1>5, <1>6

-----------------------------------------------------------------------------
(* The PCIe stub's operators. *)

LEMMA SyncAicKeeps ==
  ASSUME NEW p \in PciT, Pci!RouteSelected(p)
  PROVE  /\ Pci!SyncAic(p) \in PciT /\ Pci!RouteSelected(Pci!SyncAic(p))
         /\ Pci!DeliveryPending(Pci!SyncAic(p)) <=> Pci!DeliveryPending(p)
         /\ Pci!SyncAic(p).aicBound = p.aicBound
BY DEF Pci!SyncAic, Pci!RouteSelected, Pci!DeliveryPending, PciT

LEMMA TryMessageKeeps ==
  ASSUME NEW p \in PciT, Pci!RouteSelected(p)
  PROVE  /\ Pci!TryMessage(p) \in PciT /\ Pci!RouteSelected(Pci!TryMessage(p))
         /\ Pci!DeliveryPending(Pci!TryMessage(p)) <=> Pci!DeliveryPending(p)
         /\ Pci!TryMessage(p).aicBound = p.aicBound
BY DEF Pci!TryMessage, Pci!RouteSelected, Pci!DeliveryPending, PciT

(* A new level is latched on the selected route, whatever was latched      *)
(* before (ans_pci_v1.c:188-214).                                          *)
LEMMA SetIrqLatches ==
  ASSUME NEW p \in PciT, NEW level \in BOOLEAN
  PROVE  /\ Pci!SetIrq(p, level) \in PciT
         /\ Pci!RouteSelected(Pci!SetIrq(p, level))
         /\ Pci!DeliveryPending(Pci!SetIrq(p, level)) <=> level
         /\ Pci!SetIrq(p, level).aicBound = p.aicBound
<1> DEFINE q == [p EXCEPT !.msix = level /\ p.msixEnabled,
                          !.msi  = level /\ p.msiEnabled /\ ~p.msixEnabled,
                          !.intx = level /\ ~p.msiEnabled /\ ~p.msixEnabled]
           r == IF q.msi THEN Pci!TryMessage(q) ELSE q
<1>1. q \in PciT /\ q.aicBound = p.aicBound
  BY DEF PciT
<1>2. Pci!RouteSelected(q) /\ (Pci!DeliveryPending(q) <=> level)
  BY DEF PciT, Pci!RouteSelected, Pci!DeliveryPending
<1> HIDE DEF q
<1>3. /\ r \in PciT /\ Pci!RouteSelected(r) /\ (Pci!DeliveryPending(r) <=> level)
      /\ r.aicBound = p.aicBound
  BY <1>1, <1>2, TryMessageKeeps
<1> HIDE DEF r
<1>4. Pci!SetIrq(p, level) = Pci!SyncAic(r)
  BY DEF Pci!SetIrq, q, r
<1> QED
  BY <1>3, <1>4, SyncAicKeeps

(* Toggling MSI moves a pending interrupt to the route it selects and      *)
(* neither loses nor invents one (ans_pci_v1.c:92-114).                    *)
LEMMA MsiMoves ==
  ASSUME NEW p \in PciT, Pci!RouteSelected(p), NEW on \in BOOLEAN
  PROVE  /\ Pci!ApplyMsiEnable(p, on) \in PciT
         /\ Pci!RouteSelected(Pci!ApplyMsiEnable(p, on))
         /\ Pci!DeliveryPending(Pci!ApplyMsiEnable(p, on)) <=> Pci!DeliveryPending(p)
         /\ Pci!ApplyMsiEnable(p, on).aicBound = p.aicBound
<1> DEFINE q == [p EXCEPT !.msiEnabled = on]
           toMsi == [q EXCEPT !.msi = TRUE, !.intx = FALSE]
           toIntx == [q EXCEPT !.msi = FALSE, !.intx = TRUE]
           Good(r) == /\ r \in PciT /\ Pci!RouteSelected(r)
                      /\ Pci!DeliveryPending(r) <=> Pci!DeliveryPending(p)
                      /\ r.aicBound = p.aicBound
<1>0. q \in PciT
  BY DEF PciT
<1>1. CASE p.msixEnabled
  <2>1. Good(q)
    BY <1>0, <1>1 DEF PciT, Pci!RouteSelected, Pci!DeliveryPending
  <2>2. Pci!ApplyMsiEnable(p, on) = Pci!SyncAic(q)
    BY <1>1 DEF Pci!ApplyMsiEnable
  <2> QED
    BY <2>1, <2>2, SyncAicKeeps
<1>2. CASE ~p.msixEnabled /\ on /\ ~p.msiEnabled /\ p.intx
  <2>1. Good(toMsi)
    BY <1>2 DEF PciT, Pci!RouteSelected, Pci!DeliveryPending
  <2>2. Pci!ApplyMsiEnable(p, on) = Pci!SyncAic(Pci!TryMessage(toMsi))
    BY <1>2 DEF Pci!ApplyMsiEnable
  <2> HIDE DEF toMsi
  <2>3. Good(Pci!TryMessage(toMsi))
    BY <2>1, TryMessageKeeps
  <2> QED
    BY <2>2, <2>3, SyncAicKeeps
<1>3. CASE ~p.msixEnabled /\ ~on /\ p.msiEnabled /\ p.msi
  <2>1. Good(toIntx)
    BY <1>3 DEF PciT, Pci!RouteSelected, Pci!DeliveryPending
  <2>2. Pci!ApplyMsiEnable(p, on) = Pci!SyncAic(toIntx)
    BY <1>3 DEF Pci!ApplyMsiEnable
  <2> HIDE DEF toIntx
  <2> QED
    BY <2>1, <2>2, SyncAicKeeps
<1>4. CASE /\ ~p.msixEnabled /\ ~(on /\ ~p.msiEnabled /\ p.intx)
           /\ ~(~on /\ p.msiEnabled /\ p.msi)
  <2>1. Good(q)
    BY <1>0, <1>4 DEF PciT, Pci!RouteSelected, Pci!DeliveryPending
  <2>2. Pci!ApplyMsiEnable(p, on) = Pci!SyncAic(q)
    BY <1>4 DEF Pci!ApplyMsiEnable
  <2> QED
    BY <2>1, <2>2, SyncAicKeeps
<1> QED
  BY <1>1, <1>2, <1>3, <1>4

(* The same for MSI-X, which takes precedence (ans_pci_v1.c:118-141).      *)
LEMMA MsixMoves ==
  ASSUME NEW p \in PciT, Pci!RouteSelected(p), NEW on \in BOOLEAN
  PROVE  /\ Pci!ApplyMsixEnable(p, on) \in PciT
         /\ Pci!RouteSelected(Pci!ApplyMsixEnable(p, on))
         /\ Pci!DeliveryPending(Pci!ApplyMsixEnable(p, on)) <=> Pci!DeliveryPending(p)
         /\ Pci!ApplyMsixEnable(p, on).aicBound = p.aicBound
<1> DEFINE q == [p EXCEPT !.msixEnabled = on]
           toMsix == [q EXCEPT !.msix = TRUE, !.intx = FALSE, !.msi = FALSE]
           toMsi == [q EXCEPT !.msix = FALSE, !.msi = TRUE, !.intx = FALSE]
           toIntx == [q EXCEPT !.msix = FALSE, !.intx = TRUE]
           Good(r) == /\ r \in PciT /\ Pci!RouteSelected(r)
                      /\ Pci!DeliveryPending(r) <=> Pci!DeliveryPending(p)
                      /\ r.aicBound = p.aicBound
<1>1. CASE on /\ ~p.msixEnabled /\ (p.intx \/ p.msi)
  <2>1. Good(toMsix)
    BY <1>1 DEF PciT, Pci!RouteSelected, Pci!DeliveryPending
  <2>2. Pci!ApplyMsixEnable(p, on) = Pci!SyncAic(toMsix)
    BY <1>1 DEF Pci!ApplyMsixEnable
  <2> HIDE DEF toMsix
  <2> QED
    BY <2>1, <2>2, SyncAicKeeps
<1>2. CASE ~on /\ p.msixEnabled /\ p.msix /\ p.msiEnabled
  <2>1. Good(toMsi)
    BY <1>2 DEF PciT, Pci!RouteSelected, Pci!DeliveryPending
  <2>2. Pci!ApplyMsixEnable(p, on) = Pci!SyncAic(Pci!TryMessage(toMsi))
    BY <1>2 DEF Pci!ApplyMsixEnable
  <2> HIDE DEF toMsi
  <2>3. Good(Pci!TryMessage(toMsi))
    BY <2>1, TryMessageKeeps
  <2> QED
    BY <2>2, <2>3, SyncAicKeeps
<1>3. CASE ~on /\ p.msixEnabled /\ p.msix /\ ~p.msiEnabled
  <2>1. Good(toIntx)
    BY <1>3 DEF PciT, Pci!RouteSelected, Pci!DeliveryPending
  <2>2. Pci!ApplyMsixEnable(p, on) = Pci!SyncAic(toIntx)
    BY <1>3 DEF Pci!ApplyMsixEnable
  <2> HIDE DEF toIntx
  <2> QED
    BY <2>1, <2>2, SyncAicKeeps
<1>4. CASE /\ ~(on /\ ~p.msixEnabled /\ (p.intx \/ p.msi))
           /\ ~(~on /\ p.msixEnabled /\ p.msix)
  <2>1. Good(q)
    BY <1>4 DEF PciT, Pci!RouteSelected, Pci!DeliveryPending
  <2>2. Pci!ApplyMsixEnable(p, on) = Pci!SyncAic(q)
    BY <1>4 DEF Pci!ApplyMsixEnable
  <2> HIDE DEF q
  <2> QED
    BY <2>1, <2>2, SyncAicKeeps
<1> QED
  BY <1>1, <1>2, <1>3, <1>4

-----------------------------------------------------------------------------
(* The ANS chain. *)

\* The line follows the sink, or nothing that it shows has changed.
LineFollows ==
  \/ aic' = AfterSink(pci')
  \/ /\ aic' = aic /\ (pci'.aicBound => pci.aicBound)
     /\ Pci!DeliveryPending(pci') <=> Pci!DeliveryPending(pci)

LEMMA ChainKeeps ==
  ASSUME BridgeInv, ready, UNCHANGED <<ready, dev, driven, claimed>>,
         pci' \in PciT, Pci!RouteSelected(pci'),
         ans' \in AnsT, sqShadow' \in Index, QueueShadowed', LineFollows,
         driven = {"ans"} =>
           (Pci!DeliveryPending(pci') <=> (ans'.pci /\ Nvme!IrqCheck(ans')))
  PROVE  BridgeInv' /\ MirrorStep
<1> USE DEF BridgeInv
<1>1. PICK high \in BOOLEAN : high <=> Pci!DeliveryPending(pci')
  BY DEF Pci!DeliveryPending
<1>2. /\ aic' \in AicT /\ aic'.masked = aic.masked
      /\ \A j \in Nat : j # StorageLine => (j \in aic'.level <=> j \in aic.level)
      /\ driven = {"ans"} => (pci'.aicBound => (StorageLine \in aic'.level <=> high))
  <2>1. CASE aic' = AfterSink(pci') /\ pci'.aicBound
    <3>1. aic' = Ctl!SetLine(aic, StorageLine, high) /\ StorageLine \in Nat
      <4>1. Pci!DeliveryPending(pci') = high
        BY <1>1 DEF Pci!DeliveryPending
      <4> QED
        BY <2>1, <4>1 DEF AfterSink, StorageLine, Line
    <3> QED
      BY <3>1, LineMoves, Zenon DEF BridgeType
  <2>2. CASE aic' = AfterSink(pci') /\ ~pci'.aicBound
    BY <2>2 DEF AfterSink, BridgeType
  <2>3. CASE /\ aic' = aic /\ (pci'.aicBound => pci.aicBound)
             /\ Pci!DeliveryPending(pci') <=> Pci!DeliveryPending(pci)
    BY <1>1, <2>3 DEF BridgeType, ChainAgrees
  <2> QED
    BY <2>1, <2>2, <2>3 DEF LineFollows
<1>3. BridgeType' /\ ClaimsMasked' /\ RouteExclusive'
  BY <1>2 DEF BridgeType, ClaimsMasked, RouteExclusive
<1>4. ChainAgrees'
  BY <1>1, <1>2 DEF ChainAgrees
<1>5. ASSUME NEW e \in Owner, Mirrored(e)
      PROVE  Mirrored(e)'
  <2>1. Line[e] \in Nat /\ Line[e] # StorageLine
    BY DEF Owner, Leaf, Line, StorageLine
  <2> QED
    BY <1>2, <1>5, <2>1 DEF Mirrored, High
<1> QED
  BY <1>3, <1>4, <1>5 DEF MirrorStep

(* The ANS stub drives the PCIe stub with its unmasked status.             *)
LEMMA DriveKeeps ==
  ASSUME BridgeInv, ready, NEW a \in AnsT, NEW p \in PciT, AnsDrives(a, p),
         Pci!RouteSelected(p), p.aicBound = pci.aicBound,
         Pci!DeliveryPending(p) <=> Pci!DeliveryPending(pci),
         ans.pci => a.pci, sqShadow' \in Index, QueueShadowed'
  PROVE  BridgeInv' /\ MirrorStep
<1>1. ans' = a /\ UNCHANGED <<ready, dev, driven, claimed>>
  BY DEF AnsDrives
<1>2. CASE a.pci
  <2>1. PICK level \in BOOLEAN : level = Nvme!IrqCheck(a)
    BY DEF Nvme!IrqCheck
  <2>2. pci' = Pci!SetIrq(p, level) /\ aic' = AfterSink(pci')
    BY <1>2, <2>1 DEF AnsDrives
  <2>3. /\ pci' \in PciT /\ Pci!RouteSelected(pci')
        /\ Pci!DeliveryPending(pci') <=> level
    BY <2>2, SetIrqLatches, Zenon
  <2>4. LineFollows
    BY <2>2 DEF LineFollows
  <2> QED
    BY <1>1, <1>2, <2>1, <2>3, <2>4, ChainKeeps
<1>3. CASE ~a.pci
  <2>1. pci' = p /\ aic' = aic /\ ~ans.pci
    BY <1>3 DEF AnsDrives
  <2>2. LineFollows
    BY <2>1 DEF LineFollows
  <2>3. driven = {"ans"} => ~Pci!DeliveryPending(pci')
    BY <2>1 DEF BridgeInv, ChainAgrees
  <2> QED
    BY <1>1, <1>3, <2>1, <2>2, <2>3, ChainKeeps
<1> QED
  BY <1>2, <1>3

LEMMA BumpTyped == \A i \in Index : Nvme!Bump(i) \in Index
<1>1. DbMask + 1 \in Nat \ {0}
  BY M1BridgeAssumption
<1>2. ASSUME NEW i \in Int, NEW m \in Nat \ {0}
      PROVE  (i + 1) % m \in Int
  OBVIOUS
<1> QED
  BY <1>1, <1>2 DEF Nvme!Bump, Index

LEMMA EnableKeeps ==
  ASSUME BridgeInv, AnsEnableIdentifyPath
  PROVE  BridgeInv' /\ MirrorStep
<1>1. ans \in AnsT /\ pci \in PciT /\ ready
  BY DEF BridgeInv, BridgeType, AnsEnableIdentifyPath, Ans
<1>2. PICK a : a = Nvme!ApplyCcEnable(Nvme!ApplyCcEnable(ans, FALSE), TRUE)
  OBVIOUS
<1>3. /\ a \in AnsT /\ a.pci = ans.pci
      /\ a.sqt = 0 /\ a.cqh = 0 /\ a.tail = 0
  <2>1. PICK off : off = Nvme!ApplyCcEnable(ans, FALSE)
    OBVIOUS
  <2>2. off = [ans EXCEPT !.en = FALSE, !.sqt = 0, !.cqh = 0, !.tail = 0, !.phase = 1,
                          !.intm = FALSE, !.irq = FALSE, !.armed = FALSE]
    BY <2>1 DEF Nvme!ApplyCcEnable
  <2>3. 0 \in Index /\ 1 \in Index
    BY DEF Index
  <2>4. /\ off \in AnsT /\ off.pci = ans.pci
        /\ off.sqt = 0 /\ off.cqh = 0 /\ off.tail = 0
    BY <1>1, <2>2, <2>3 DEF AnsT
  <2>5. a = [off EXCEPT !.en = TRUE]
    BY <1>2, <2>1 DEF Nvme!ApplyCcEnable
  <2> QED
    BY <2>4, <2>5 DEF AnsT
<1>4. PICK p : p = Pci!EnableMemoryBusMaster(pci)
  OBVIOUS
<1>5. /\ p \in PciT /\ p.aicBound = pci.aicBound /\ Pci!RouteSelected(p)
      /\ Pci!DeliveryPending(p) <=> Pci!DeliveryPending(pci)
  BY <1>1, <1>4 DEF Pci!EnableMemoryBusMaster, PciT, BridgeInv, RouteExclusive,
     Pci!RouteSelected, Pci!DeliveryPending
<1>6. AnsDrives(a, p) /\ sqShadow' = 0
  BY <1>2, <1>4 DEF AnsEnableIdentifyPath
<1>7. QueueShadowed' /\ sqShadow' \in Index
  BY <1>3, <1>6 DEF QueueShadowed, AnsDrives, Index
<1> QED
  BY <1>1, <1>3, <1>5, <1>6, <1>7, DriveKeeps

LEMMA SubmitKeeps ==
  ASSUME BridgeInv, AnsSubmitAdminIdentify
  PROVE  BridgeInv' /\ MirrorStep
<1>1. /\ ans \in AnsT /\ pci \in PciT /\ ready /\ sqShadow \in Index
      /\ sqShadow = ans.sqt /\ (ans.tail # ans.cqh => ans.irq)
      /\ Pci!RouteSelected(pci)
  BY DEF BridgeInv, BridgeType, AnsSubmitAdminIdentify, Ans, QueueShadowed,
     RouteExclusive
<1>2. PICK armed : armed = Nvme!ArmIdentify(ans)
  OBVIOUS
<1>3. armed \in AnsT /\ \A f \in {"cqh", "tail", "irq", "pci", "intm"} : armed[f] = ans[f]
  BY <1>1, <1>2 DEF Nvme!ArmIdentify, AnsT
<1>4. PICK next \in Index : next = Nvme!Bump(sqShadow)
  BY <1>1, BumpTyped
<1>5. PICK dma \in BOOLEAN : dma <=> (~ans.pci \/ pci.master)
  OBVIOUS
<1>6. PICK fires \in BOOLEAN : fires <=> Nvme!Fires(armed, next)
  OBVIOUS
<1>7. PICK b : b = [armed EXCEPT !.sqt = next, !.armed = @ /\ ~fires]
  OBVIOUS
<1>8. /\ b \in AnsT /\ b.sqt = next
      /\ \A f \in {"cqh", "tail", "irq", "pci", "intm"} : b[f] = ans[f]
  BY <1>3, <1>7 DEF AnsT
<1>9. PICK done \in BOOLEAN : done <=> Nvme!Completes(armed, next, dma)
  OBVIOUS
<1>10. b = [armed EXCEPT !.sqt = next, !.armed = @ /\ ~Nvme!Fires(armed, next)]
  BY <1>6, <1>7 DEF Nvme!Fires
<1>11. Nvme!DoorbellSq(armed, next, dma) = IF done THEN Nvme!PostCqe(b) ELSE b
  BY <1>9, <1>10 DEF Nvme!DoorbellSq
<1>12. dma = (~ans.pci \/ pci.master)
  BY <1>5
<1>13. CASE done
  <2>1. PICK a : a = Nvme!PostCqe(b)
    OBVIOUS
  <2>2. /\ a \in AnsT /\ a.sqt = next /\ a.pci = ans.pci /\ a.irq
    <3>1. b.tail \in Index /\ b.phase \in Index
      BY <1>8 DEF AnsT
    <3>2. Nvme!Bump(b.tail) \in Index /\ 1 - b.phase \in Index
      BY <3>1, BumpTyped DEF Index
    <3> QED
      BY <1>8, <2>1, <3>2 DEF Nvme!PostCqe, AnsT
  <2>3. AnsDrives(a, pci) /\ sqShadow' = next
    BY <1>2, <1>4, <1>9, <1>11, <1>12, <1>13, <2>1 DEF AnsSubmitAdminIdentify
  <2>4. QueueShadowed'
    BY <2>2, <2>3 DEF QueueShadowed, AnsDrives
  <2> QED
    BY <1>1, <1>4, <2>2, <2>3, <2>4, DriveKeeps
<1>14. CASE ~done
  <2>1. ans' = b /\ UNCHANGED <<ready, aic, dev, pci, driven, claimed>> /\ sqShadow' = next
    BY <1>2, <1>4, <1>9, <1>11, <1>12, <1>14 DEF AnsSubmitAdminIdentify
  <2>2. QueueShadowed' /\ LineFollows
    BY <1>1, <1>8, <2>1 DEF QueueShadowed, LineFollows
  <2>3. driven = {"ans"} =>
          (Pci!DeliveryPending(pci') <=> (ans'.pci /\ Nvme!IrqCheck(ans')))
    BY <1>8, <2>1 DEF BridgeInv, ChainAgrees, Nvme!IrqCheck
  <2> QED
    BY <1>1, <1>4, <1>8, <2>1, <2>2, <2>3, ChainKeeps
<1> QED
  BY <1>13, <1>14

LEMMA AnsOthersKeep ==
  ASSUME BridgeInv,
         \/ AnsDrainAdminCq \/ AnsBindPci \/ AnsUnbindPci
         \/ \E mask \in BOOLEAN : AnsMaskAdminIrq(mask)
  PROVE  BridgeInv' /\ MirrorStep
<1>1. /\ ans \in AnsT /\ pci \in PciT /\ ready /\ sqShadow \in Index
      /\ sqShadow = ans.sqt /\ (ans.tail # ans.cqh => ans.irq)
      /\ Pci!RouteSelected(pci)
  BY DEF BridgeInv, BridgeType, AnsDrainAdminCq, AnsBindPci, AnsUnbindPci,
     AnsMaskAdminIrq, Ans, QueueShadowed, RouteExclusive
<1>2. ASSUME NEW a \in AnsT, AnsDrives(a, pci), sqShadow' = sqShadow,
             ans.pci => a.pci, a.sqt = ans.sqt, a.tail # a.cqh => a.irq
      PROVE  BridgeInv' /\ MirrorStep
  <2>1. QueueShadowed'
    BY <1>1, <1>2 DEF QueueShadowed, AnsDrives
  <2> QED
    BY <1>1, <1>2, <2>1, DriveKeeps
<1>3. CASE AnsDrainAdminCq
  <2>1. PICK a : a = [ans EXCEPT !.cqh = ans.tail, !.irq = FALSE]
    OBVIOUS
  <2>2. a = Nvme!DoorbellCq(ans, ans.tail)
    BY <2>1 DEF Nvme!DoorbellCq
  <2>3. a \in AnsT /\ a.pci = ans.pci /\ a.sqt = ans.sqt /\ a.tail = a.cqh
    BY <1>1, <2>1 DEF AnsT
  <2>4. AnsDrives(a, pci) /\ sqShadow' = sqShadow
    BY <1>3, <2>2 DEF AnsDrainAdminCq
  <2> QED
    BY <1>2, <2>3, <2>4
<1>4. CASE AnsBindPci
  <2>1. PICK a : a = [ans EXCEPT !.pci = TRUE]
    OBVIOUS
  <2>2. /\ a \in AnsT /\ a.pci /\ a.sqt = ans.sqt
        /\ a.tail = ans.tail /\ a.cqh = ans.cqh /\ a.irq = ans.irq
    BY <1>1, <2>1 DEF AnsT
  <2>3. AnsDrives(a, pci) /\ sqShadow' = sqShadow
    BY <1>4, <2>1 DEF AnsBindPci
  <2> QED
    BY <1>1, <1>2, <2>2, <2>3
<1>5. ASSUME NEW mask \in BOOLEAN, AnsMaskAdminIrq(mask)
      PROVE  BridgeInv' /\ MirrorStep
  <2>1. PICK a : a = Nvme!MaskIrq(ans, mask)
    OBVIOUS
  <2>2. /\ a \in AnsT /\ a.pci = ans.pci /\ a.sqt = ans.sqt
        /\ a.tail = ans.tail /\ a.cqh = ans.cqh /\ a.irq = ans.irq
    BY <1>1, <2>1 DEF Nvme!MaskIrq, AnsT
  <2>3. AnsDrives(a, pci) /\ sqShadow' = sqShadow
    BY <1>5, <2>1 DEF AnsMaskAdminIrq
  <2> QED
    BY <1>1, <1>2, <2>2, <2>3
<1>6. CASE AnsUnbindPci
  <2>1. /\ ans' \in AnsT /\ ~ans'.pci /\ ans'.sqt = ans.sqt
        /\ ans'.tail = ans.tail /\ ans'.cqh = ans.cqh /\ ans'.irq = ans.irq
    BY <1>1, <1>6 DEF AnsUnbindPci, AnsT
  <2>2. sqShadow' = sqShadow /\ UNCHANGED <<ready, dev, driven, claimed>>
    BY <1>6 DEF AnsUnbindPci
  <2>3. QueueShadowed'
    BY <1>1, <2>1, <2>2 DEF QueueShadowed
  <2>4. CASE ans.pci
    <3>1. pci' = Pci!SetIrq(pci, FALSE) /\ aic' = AfterSink(pci')
      BY <1>6, <2>4 DEF AnsUnbindPci
    <3>2. pci' \in PciT /\ Pci!RouteSelected(pci') /\ ~Pci!DeliveryPending(pci')
      BY <1>1, <3>1, SetIrqLatches
    <3>3. LineFollows
      BY <3>1 DEF LineFollows
    <3> QED
      BY <1>1, <2>1, <2>2, <2>3, <3>2, <3>3, ChainKeeps
  <2>5. CASE ~ans.pci
    <3>1. pci' = pci /\ aic' = aic
      BY <1>6, <2>5 DEF AnsUnbindPci
    <3>2. LineFollows
      BY <3>1 DEF LineFollows
    <3>3. driven = {"ans"} => ~Pci!DeliveryPending(pci')
      BY <2>5, <3>1 DEF BridgeInv, ChainAgrees
    <3> QED
      BY <1>1, <2>1, <2>2, <2>3, <3>1, <3>2, <3>3, ChainKeeps
  <2> QED
    BY <2>4, <2>5
<1> QED
  BY <1>3, <1>4, <1>5, <1>6

(* The PCIe stub's entry points: only the direct level, which the ANS host *)
(* never sets, changes whether something is pending.                       *)
LEMMA PciKeeps ==
  ASSUME BridgeInv,
         \/ PciBindAic \/ PciUnbindAic \/ PciBindMsiGpa \/ PciUnbindMsiGpa
         \/ \E level \in BOOLEAN : PciSetIrq(level) \/ PciPrepareMsix(level)
         \/ \E on, inWindow \in BOOLEAN : PciPrepareMsi(on, inWindow)
  PROVE  BridgeInv' /\ MirrorStep
<1>1. /\ ans \in AnsT /\ pci \in PciT /\ sqShadow \in Index
      /\ Pci!RouteSelected(pci) /\ QueueShadowed
      /\ driven = {"ans"} =>
           (Pci!DeliveryPending(pci) <=> (ans.pci /\ Nvme!IrqCheck(ans)))
  BY DEF BridgeInv, BridgeType, RouteExclusive, ChainAgrees
<1>2. ASSUME NEW p \in PciT, Pci!RouteSelected(p), PciStep(p), LineFollows,
             driven = {"ans"} => (Pci!DeliveryPending(p) <=> Pci!DeliveryPending(pci))
      PROVE  BridgeInv' /\ MirrorStep
  <2>1. /\ pci' = p /\ ready /\ UNCHANGED <<ready, dev, ans, sqShadow, driven, claimed>>
    BY <1>2 DEF PciStep
  <2>2. QueueShadowed'
    BY <1>1, <2>1 DEF QueueShadowed
  <2> QED
    BY <1>1, <1>2, <2>1, <2>2, ChainKeeps
<1>3. ASSUME NEW p, PciSynced(p)
      PROVE  PciStep(p) /\ LineFollows
  BY <1>3 DEF PciSynced, PciStep, LineFollows
<1>4. CASE PciBindAic
  <2>1. PICK q : q = [pci EXCEPT !.aicBound = TRUE]
    OBVIOUS
  <2>2. /\ q \in PciT /\ Pci!RouteSelected(q)
        /\ Pci!DeliveryPending(q) <=> Pci!DeliveryPending(pci)
    BY <1>1, <2>1 DEF PciT, Pci!RouteSelected, Pci!DeliveryPending
  <2>3. PciSynced(Pci!SyncAic(q))
    BY <1>4, <2>1 DEF PciBindAic, Pci!BindAic
  <2> QED
    BY <1>2, <1>3, <2>2, <2>3, SyncAicKeeps
<1>5. CASE PciUnbindAic
  <2>1. PICK q : q = Pci!UnbindAic(pci)
    OBVIOUS
  <2>2. /\ q \in PciT /\ Pci!RouteSelected(q) /\ ~q.aicBound
        /\ Pci!DeliveryPending(q) <=> Pci!DeliveryPending(pci)
    BY <1>1, <2>1 DEF PciT, Pci!RouteSelected, Pci!DeliveryPending, Pci!UnbindAic
  <2>3. PciStep(q) /\ aic' = aic /\ pci' = q
    BY <1>5, <2>1 DEF PciUnbindAic, PciStep
  <2>4. LineFollows
    BY <2>2, <2>3 DEF LineFollows
  <2> QED
    BY <1>2, <2>2, <2>3, <2>4
<1>6. CASE PciBindMsiGpa \/ PciUnbindMsiGpa
  <2>1. PICK q \in {Pci!BindMsiGpa(pci), Pci!UnbindMsiGpa(pci)} :
          PciStep(q) /\ aic' = aic /\ pci' = q
    BY <1>6 DEF PciBindMsiGpa, PciUnbindMsiGpa, PciStep
  <2>2. /\ q \in PciT /\ Pci!RouteSelected(q) /\ q.aicBound = pci.aicBound
        /\ Pci!DeliveryPending(q) <=> Pci!DeliveryPending(pci)
    BY <1>1, <2>1 DEF PciT, Pci!RouteSelected, Pci!DeliveryPending,
       Pci!BindMsiGpa, Pci!UnbindMsiGpa
  <2>3. LineFollows
    BY <2>1, <2>2 DEF LineFollows
  <2> QED
    BY <1>2, <2>1, <2>2, <2>3
<1>7. ASSUME NEW level \in BOOLEAN, PciSetIrq(level)
      PROVE  BridgeInv' /\ MirrorStep
  <2>1. PciSynced(Pci!SetIrq(pci, level)) /\ driven # {"ans"}
    BY <1>7 DEF PciSetIrq
  <2> QED
    BY <1>1, <1>2, <1>3, <2>1, SetIrqLatches
<1>8. ASSUME NEW on \in BOOLEAN, PciPrepareMsix(on)
      PROVE  BridgeInv' /\ MirrorStep
  <2>1. PciSynced(Pci!ApplyMsixEnable(pci, on))
    BY <1>8 DEF PciPrepareMsix
  <2> QED
    BY <1>1, <1>2, <1>3, <2>1, MsixMoves
<1>9. ASSUME NEW on \in BOOLEAN, NEW inWindow \in BOOLEAN, PciPrepareMsi(on, inWindow)
      PROVE  BridgeInv' /\ MirrorStep
  <2>1. PICK q : q = IF on THEN Pci!WriteMsiAddr(pci, inWindow) ELSE pci
    OBVIOUS
  <2>2. /\ q \in PciT /\ Pci!RouteSelected(q)
        /\ Pci!DeliveryPending(q) <=> Pci!DeliveryPending(pci)
    BY <1>1, <2>1 DEF PciT, Pci!RouteSelected, Pci!DeliveryPending, Pci!WriteMsiAddr
  <2>3. PciSynced(Pci!ApplyMsiEnable(q, on))
    BY <1>9, <2>1 DEF PciPrepareMsi
  <2> QED
    BY <1>2, <1>3, <2>2, <2>3, MsiMoves
<1> QED
  BY <1>4, <1>5, <1>6, <1>7, <1>8, <1>9

-----------------------------------------------------------------------------
(* The steps of the machine. *)

LEMMA AnsInitTyped ==
  /\ Nvme!AnsInit \in AnsT /\ Nvme!AnsInit.sqt = 0 /\ Nvme!AnsInit.tail = 0
  /\ Nvme!AnsInit.cqh = 0 /\ ~Nvme!AnsInit.pci /\ ~Nvme!AnsInit.irq
BY DEF Nvme!AnsInit, AnsT, Index

LEMMA InitialInv == MachineInit => BridgeInv
<1> SUFFICES ASSUME MachineInit PROVE BridgeInv
  OBVIOUS
<1>1. Init
  BY DEF MachineInit
<1>2. driven \subseteq Participant
  BY <1>1, M1BridgeAssumption DEF Init
<1>3. dev \in DevT
  BY <1>1 DEF Init, DeviceInit, DevT, TimerT, StorageT, AdpT, RecoveryT, DartT,
     UartT, SepT, Dev!TimerInit, Dev!StorageInit, Dev!AdpInit, Dev!RecoveryInit,
     Dev!DartInit, Dev!UartInit, Dev!SepInit
<1>4. /\ pci \in PciT /\ RouteExclusive /\ ~Pci!DeliveryPending(pci) /\ ~pci.aicBound
  BY <1>1 DEF Init, Pci!PciInit, PciT, RouteExclusive, Pci!RouteSelected,
     Pci!DeliveryPending
<1>5. ans \in AnsT /\ ans.sqt = 0 /\ ans.tail = 0 /\ ans.cqh = 0 /\ ~ans.pci
  BY <1>1, AnsInitTyped DEF Init
<1>6. BridgeType
  <2>1. sqShadow \in Index
    BY <1>1 DEF Init, Index
  <2>2. aic \in AicT
    BY <1>1, ResetTyped DEF Init
  <2>3. ready \in BOOLEAN
    BY <1>1, Zenon DEF Init
  <2> QED
    BY <1>2, <1>3, <1>4, <1>5, <2>1, <2>2, <2>3 DEF BridgeType
<1> QED
  BY <1>1, <1>4, <1>5, <1>6
  DEF Init, BridgeInv, ClaimsMasked, QueueShadowed, ChainAgrees

LEMMA ResetKeeps ==
  ASSUME BridgeInv, MmioReset
  PROVE  BridgeInv' /\ MirrorStep
<1>1. /\ ready' = TRUE /\ dev' = DeviceInit /\ sqShadow' = 0 /\ claimed' = {}
      /\ driven' = driven /\ aic' = Ctl!SetLine(Ctl!AicReset, 6, TRUE)
  BY DEF MmioReset, Line
<1>2. dev' \in DevT
  BY <1>1 DEF DeviceInit, DevT, TimerT, StorageT, AdpT, RecoveryT, DartT,
     UartT, SepT, Dev!TimerInit, Dev!StorageInit, Dev!AdpInit, Dev!RecoveryInit,
     Dev!DartInit, Dev!UartInit, Dev!SepInit
<1>3. /\ pci' \in PciT /\ RouteExclusive' /\ ~Pci!DeliveryPending(pci')
  BY DEF MmioReset, Pci!BindMsiGpa, Pci!BindAic, Pci!SyncAic, Pci!PciInit, PciT,
     RouteExclusive, Pci!RouteSelected, Pci!DeliveryPending
<1>4. /\ ans' \in AnsT /\ ans'.sqt = 0 /\ ans'.tail = 0 /\ ans'.cqh = 0
      /\ ~Nvme!IrqCheck(ans')
  <2>1. PICK a : a = Nvme!AnsInit
    OBVIOUS
  <2>2. ans' = [a EXCEPT !.pci = TRUE]
    BY <2>1 DEF MmioReset
  <2> QED
    BY <2>1, <2>2, AnsInitTyped DEF AnsT, Nvme!IrqCheck
<1>5. /\ aic' \in AicT /\ 6 \in aic'.level
      /\ \A j \in Nat : j # 6 => (j \in aic'.level <=> j \in Ctl!AicReset.level)
  <2>1. 6 \in Nat
    OBVIOUS
  <2> QED
    BY <1>1, <2>1, ResetTyped, LineMoves, Zenon
<1>6. \A j \in Nat : j # 6 => j \notin aic'.level
  BY <1>5, ResetTyped
<1>7. BridgeType'
  <2>1. sqShadow' \in Index /\ ready' \in BOOLEAN
    BY <1>1 DEF Index
  <2>2. driven' \subseteq Participant
    BY <1>1 DEF BridgeInv, BridgeType
  <2> QED
    BY <1>2, <1>3, <1>4, <1>5, <2>1, <2>2 DEF BridgeType
<1>8. BridgeInv'
  <2>1. StorageLine \notin aic'.level
    BY <1>6 DEF StorageLine, Line
  <2>2. Ctl!NoIrq \notin {}
    OBVIOUS
  <2> QED
    BY <1>1, <1>3, <1>4, <1>7, <2>1
    DEF BridgeInv, ClaimsMasked, QueueShadowed, ChainAgrees
<1>9. ASSUME NEW d \in Owner
      PROVE  Mirrored(d)'
  <2>1. Pending(dev')[d] <=> d = "sep"
    <3>1. CASE d \in {"adp", "recovery"}
      BY <1>1, <3>1 DEF Pending, DeviceInit, Dev!AdpInit, Dev!RecoveryInit,
         Dev!AdpPending, Dev!RecoveryPending
    <3>2. CASE d = "timer"
      BY <1>1, <3>2 DEF Pending, DeviceInit, Dev!TimerInit, Dev!TimerPending
    <3>3. CASE d \in {"dart", "uart", "sep"}
      BY <1>1, <3>3 DEF Pending, DeviceInit, Dev!DartInit, Dev!UartInit, Dev!SepInit,
         Dev!DartPending, Dev!UartPending, Dev!SepPending
    <3> QED
      BY <3>1, <3>3, <3>2 DEF Owner, Leaf
  <2>2. Line[d] \in Nat /\ (Line[d] = 6 <=> d = "sep")
    BY DEF Line, Owner, Leaf
  <2> QED
    BY <1>5, <1>6, <2>1, <2>2 DEF Mirrored, High
<1> QED
  BY <1>8, <1>9 DEF MirrorStep

LEMMA UnchangedKeeps ==
  ASSUME BridgeInv, UNCHANGED vars
  PROVE  BridgeInv' /\ MirrorStep
<1>1. UNCHANGED <<ready, aic, dev, pci, ans, sqShadow, driven, claimed>>
  BY DEF vars
<1>2. BridgeInv'
  BY <1>1 DEF BridgeInv, BridgeType, ClaimsMasked, RouteExclusive, QueueShadowed,
     ChainAgrees
<1> QED
  BY <1>1, <1>2 DEF MirrorStep, Mirrored, High

LEMMA DeviceKeeps ==
  ASSUME BridgeInv, DeviceNext
  PROVE  BridgeInv' /\ MirrorStep
BY ControllerKeeps, TimerKeeps, StorageKeeps, AdpKeeps, RecoveryKeeps, DartKeeps,
   UartKeeps, SepKeeps, EnableKeeps, SubmitKeeps, AnsOthersKeep, PciKeeps
DEF DeviceNext

(* The devices beside the bridge touch none of its interrupts.             *)
LEMMA BridgeMoves ==
  ASSUME MachineNext
  PROVE  MmioReset \/ DeviceNext \/ UNCHANGED vars
<1>1. ASSUME GxfNext PROVE UNCHANGED vars
  BY <1>1 DEF GxfNext, GxfWriteAlias, GxfWriteGuarded, GxfWriteAspsr, GxfWriteConfig,
     GxfSetHcr, GxfWriteHcr, GxfWriteLock, GxfSetLock, GxfWriteCtl, GxfGenter,
     GxfAbort, GxfTakeException, GxfTcgExec, GxfGexit, GxfWriteSprr, GxfWriteMprr,
     GxfBindGuestTlb, GxfOnly
<1>2. ASSUME SmcNext PROVE UNCHANGED vars
  BY <1>2 DEF SmcNext, SmcReadKey, SmcGetKeyInfo, SmcWriteKey, SmcGetKeyByIndex,
     SmcGetSramAddr, SmcBadCommand, SmcReadKeyCount, SmcMessage, SmcStep
<1>3. ASSUME BoardNext PROVE UNCHANGED vars
  BY <1>3 DEF BoardNext, SartWrite, GpioWriteCfg, GpioSetIn, GpioWriteInt, GpioStep
<1> QED
  BY <1>1, <1>2, <1>3 DEF MachineNext, MachineReset

LEMMA StepKeeps ==
  ASSUME BridgeInv, [MachineNext]_machineVars
  PROVE  BridgeInv' /\ [MirrorStep]_vars
<1>1. CASE MachineNext
  BY <1>1, BridgeMoves, ResetKeeps, DeviceKeeps, UnchangedKeeps
<1>2. CASE UNCHANGED machineVars
  <2>1. UNCHANGED vars
    BY <1>2 DEF machineVars
  <2> QED
    BY <2>1, UnchangedKeeps
<1> QED
  BY <1>1, <1>2

-----------------------------------------------------------------------------
(* The bridge's inductive invariant holds in every reachable state.        *)
THEOREM BridgeInvariant == Spec => []BridgeInv
<1>1. BridgeInv /\ [MachineNext]_machineVars => BridgeInv'
  BY StepKeeps
<1> QED
  BY InitialInv, <1>1, PTL DEF Spec

(* An interrupt that EVENT handed to one CPU is handed to none again until *)
(* the guest unmasks it, for any number of CPUs and lines                  *)
(* (aic_v1.c:122-130).                                                     *)
THEOREM NothingClaimedTwice == Spec => []ClaimedOnce
<1>1. ASSUME BridgeInv PROVE ClaimedOnce
  <2>1. ASSUME NEW cpu \in Ctl!Cpu PROVE Ctl!NextIrq(aic, cpu) \notin claimed
    <3>1. Ctl!NextIrq(aic, cpu) \in Ctl!Deliverable(aic, cpu) \cup {Ctl!NoIrq}
      BY <1>1, NextIsDeliverable DEF BridgeInv, BridgeType
    <3>2. Ctl!Deliverable(aic, cpu) \cap aic.masked = {}
      BY DEF Ctl!Deliverable
    <3> QED
      BY <1>1, <3>1, <3>2 DEF BridgeInv, ClaimsMasked
  <2> QED
    BY <2>1 DEF ClaimedOnce
<1> QED
  BY BridgeInvariant, <1>1, PTL

(* A pending ANS interrupt is latched on exactly the route the enables     *)
(* select, however they were toggled (ans_pci_v1.c:92-141, 188-214).       *)
THEOREM OneRoute == Spec => []RouteExclusive
<1>1. BridgeInv => RouteExclusive
  BY DEF BridgeInv
<1> QED
  BY BridgeInvariant, <1>1, PTL

(* From submission to controller line every link of the storage path       *)
(* agrees with the one before it, for every doorbell width                 *)
(* (preos_bridge.c:672-703, ans_v1.c:113-157, ans_pci_v1.c:39-51).         *)
THEOREM CompletionReachesLine == Spec => []CompletionSignalled
<1>1. BridgeInv => CompletionSignalled
  BY DEF BridgeInv, QueueShadowed, ChainAgrees, CompletionSignalled, AnsOwnsChain
<1> QED
  BY BridgeInvariant, <1>1, PTL

(* No entry point but the guest's reset of the controller takes a device's *)
(* line and its request apart (aic_v1.c:156-159, preos_bridge.c).          *)
THEOREM LinesFollowRequests == Spec => MirrorLostOnlyByReset
<1>1. BridgeInv /\ [MachineNext]_machineVars => [MirrorStep]_vars
  BY StepKeeps
<1>2. [][MirrorStep]_vars => MirrorLostOnlyByReset
  BY PTL DEF MirrorStep, MirrorLostOnlyByReset
<1> QED
  BY BridgeInvariant, <1>1, <1>2, PTL DEF Spec

-----------------------------------------------------------------------------
(* Guarded execution. *)

RegBank == [Gx!BankReg -> Int]
CtlBank == [Gx!CtlReg -> Int]
Count == Nat

GxfT == [guarded : BOOLEAN, status : BOOLEAN, en : BOOLEAN, nest : BOOLEAN,
         el : RegBank, gl : RegBank, hcr : SUBSET Gx!HcrBit,
         lock : SUBSET Gx!LockBit, ctl : CtlBank, perm : Gx!PermWord,
         mprr : Gx!MaskWord, permGen : Count, flushes : Count]

GxfType == gxf \in GxfT /\ entry \in [pc : Int, nested : BOOLEAN]

OneMode == gxf.guarded = gxf.status

\* A bridge that is ready flushes the CPU that was bound last.
HookBound == /\ tlbCpu \in Vcpu \cup {NoCpu}
             /\ ready => hook = tlbCpu
             /\ tlbGen \in [Vcpu -> Nat]

GuardInv == GxfType /\ OneMode /\ HookBound /\ ExitUndoesEntry

-----------------------------------------------------------------------------
(* The SART and the pin controller. *)

SartT == [version : {0, 1, 3}, generation : Nat,
          size : [Regions -> [size : Int, flags : BOOLEAN]],
          addr : [Regions -> Int], size3 : [Regions -> Int]]

CfgT == [mode : Io!Mode, group : Io!Group \cup {Io!Masked}]
Bits == Int \X Int
GpioT == [cfg : [Io!Pin -> CfgT], int : [Io!Group -> SUBSET Bits],
          in : SUBSET Io!Pin, old : SUBSET Io!Pin]

\* The level the edges are found against is the level last seen.
GpioInv == /\ gpio \in GpioT
           /\ gpio.old = gpio.in
           /\ lines \in [Io!Group -> BOOLEAN]
           /\ edges \subseteq Io!Group \X Io!Pin
           /\ GpioLineTrue

SideInv == GuardInv /\ sart \in SartT /\ GpioInv

-----------------------------------------------------------------------------
(* The SMC's key table. *)

\* What a group of four bytes can hold.
Token == {Sm!Zero, <<"clkh">>, <<"clkh2">>, <<"rgen">>, <<"info">>}
            \cup {<<"count", n>> : n \in Nat}
Data == {d \in Seq(Token) : Len(d) = 2}
KeyEntry == [key : Sm!Key, size : 0..2, readable : BOOLEAN, writable : BOOLEAN,
             data : Data]
Value(e) == SubSeq(e.data, 1, e.size)
BootEntry(i) == Sm!SmcInit.keys[i]
AtBoot(i) == i <= Len(Sm!SmcInit.keys)

\* A table of keys that answers for what the guest stored.  The count key is
\* the first one and never written, so its refresh on a read touches nothing
\* the guest stored.
Answers(keys, st) ==
  /\ keys \in Seq(KeyEntry) /\ Len(keys) \in 1..MaxKeys
  /\ keys[1].key = "NKEY" /\ ~keys[1].writable /\ "NKEY" \notin DOMAIN st
  /\ \A i, j \in DOMAIN keys : keys[i].key = keys[j].key => i = j
  /\ \A key \in DOMAIN st : \E i \in DOMAIN keys :
       keys[i].key = key /\ Value(keys[i]) = st[key]
  /\ \A i \in DOMAIN keys \ {1} :
       AtBoot(i) /\ ~keys[i].writable => keys[i] = BootEntry(i)

SmcT == [sram : Data, keys : Seq(KeyEntry)]

SmcInv == smc \in SmcT /\ Answers(smc.keys, stored)

\* The table is empty until the first reset fills it.
SmcBound == /\ ready => SmcInv
            /\ ~ready => smc.keys = <<>> /\ stored = NoKeys

-----------------------------------------------------------------------------
(* Guarded execution: the actions. *)

\* BanksSeparate and ChangeAnnounced, as steps.
BanksKept ==
  /\ gxf'.guarded = gxf'.status
  /\ gxf.guarded => gxf'.el = gxf.el
  /\ ~gxf.guarded /\ ~gxf'.guarded => gxf'.gl = gxf.gl

AnnounceStep ==
  /\ \A c \in Vcpu : tlbGen'[c] = tlbGen[c] + (IF Merged /\ c = tlbCpu THEN 1 ELSE 0)
  /\ Merged => \A s \in Slots :
                 gxf'.perm[s] \ gxf.mprr[s] = gxf.perm[s] \ gxf.mprr[s]

\* What the device's state may become without a flush.
Unflushed(g) ==
  /\ g \in GxfT /\ g.guarded = g.status /\ g.permGen = gxf.permGen
  /\ gxf.guarded => g.el = gxf.el
  /\ ~gxf.guarded /\ ~g.guarded => g.gl = gxf.gl

\* The exit from g goes where the exit from gxf goes.
SameExit(g) == /\ g.guarded = gxf.guarded /\ g.nest = gxf.nest
               /\ gxf.guarded => g.gl["elr"] = gxf.gl["elr"]

LEMMA GxfTyped ==
  ASSUME GuardInv
  PROVE  /\ gxf \in GxfT /\ gxf.guarded = gxf.status
         /\ gxf.guarded \in BOOLEAN /\ gxf.nest \in BOOLEAN
         /\ gxf.el \in RegBank /\ gxf.gl \in RegBank
         /\ gxf.nest => gxf.guarded
         /\ gxf.permGen \in Nat
BY DEF GuardInv, GxfType, GxfT, OneMode, ExitUndoesEntry, Count

(* A call that works on the device alone flushes nothing.                  *)
LEMMA QuietStep ==
  ASSUME GuardInv, NEW p, NEW g, Unflushed(g), GxfOnly(p, g),
         entry' \in [pc : Int, nested : BOOLEAN], ExitUndoesEntry'
  PROVE  GuardInv' /\ BanksKept /\ AnnounceStep
<1>1. /\ gxf' = g /\ tlbGen' = tlbGen /\ tlbCpu' = tlbCpu /\ hook' = hook
      /\ ready' = ready
  BY DEF GxfOnly, vars
<1>2. gxf.permGen \in Nat /\ tlbGen \in [Vcpu -> Nat]
  BY GxfTyped DEF GuardInv, HookBound
<1>3. ~Merged
  BY <1>1, <1>2 DEF Merged, Unflushed
<1>4. AnnounceStep
  BY <1>1, <1>2, <1>3 DEF AnnounceStep
<1>5. GuardInv'
  BY <1>1 DEF GuardInv, GxfType, OneMode, HookBound, Unflushed
<1> QED
  BY <1>1, <1>4, <1>5 DEF BanksKept, Unflushed

(* ... and one that leaves the exit alone keeps what is known of it.       *)
LEMMA ForgetStep ==
  ASSUME GuardInv, NEW p, NEW g, Unflushed(g), GxfOnly(p, g), NEW when \in BOOLEAN,
         Forget(when), g.nest => g.guarded, ~when => SameExit(g)
  PROVE  GuardInv' /\ BanksKept /\ AnnounceStep
<1>1. gxf' = g /\ entry' = IF when THEN NoEntry ELSE entry
  BY DEF GxfOnly, Forget
<1>2. /\ entry \in [pc : Int, nested : BOOLEAN]
      /\ NoEntry \in [pc : Int, nested : BOOLEAN]
  BY DEF GuardInv, GxfType, NoEntry
<1>3. ExitUndoesEntry'
  BY <1>1 DEF GuardInv, ExitUndoesEntry, SameExit
<1> QED
  BY <1>1, <1>2, <1>3, QuietStep

LEMMA SavedTyped ==
  ASSUME NEW bank \in RegBank, NEW w \in Int,
         NEW regs, regs \subseteq {"elr", "spsr", "esr", "far"}
  PROVE  /\ Gx!Saved(bank, Frame(w), regs) \in RegBank
         /\ "elr" \in regs => Gx!Saved(bank, Frame(w), regs)["elr"] = w
BY DEF Gx!Saved, Frame, RegBank, Gx!BankReg

LEMMA AlignedTyped == \A reg, value : value \in Int => Gx!Aligned(reg, value) \in Int
BY DEF Gx!Aligned

(* An EL1 name reaches the bank of the mode, and a locked VBAR nothing.    *)
LEMMA AliasKeeps ==
  ASSUME GuardInv, NEW p \in driven \cap DOMAIN RegsOf, NEW reg \in RegsOf[p],
         NEW value \in Words, NEW el \in 0..2, GxfWriteAlias(p, reg, value, el)
  PROVE  GuardInv' /\ BanksKept /\ AnnounceStep
<1>1. PICK g : g = Gx!AliasWrite(gxf, reg, value, el)
  OBVIOUS
<1>2. GxfOnly(p, g) /\ Forget(Redirects(reg))
  BY <1>1 DEF GxfWriteAlias
<1>3. PICK v \in Int : v = Gx!Aligned(reg, value)
  BY AlignedTyped, M1MachineAssumption
<1>4. reg \in Gx!BankReg
  BY DEF RegsOf, Gx!BankReg
<1>5. PICK when \in BOOLEAN : when <=> Redirects(reg)
  OBVIOUS
<1>6. Forget(when)
  BY <1>2, <1>5 DEF Forget, Redirects
<1>7. /\ Unflushed(g) /\ (g.nest => g.guarded) /\ (~when => SameExit(g))
  <2>1. CASE reg = "vbar" /\ Gx!VmsaLocked(gxf, el, "vbar")
    <3>1. g = gxf
      BY <1>1, <2>1 DEF Gx!AliasWrite
    <3> QED
      BY <3>1, GxfTyped DEF Unflushed, SameExit
  <2>2. CASE ~(reg = "vbar" /\ Gx!VmsaLocked(gxf, el, "vbar")) /\ gxf.guarded
    <3>1. g = [gxf EXCEPT !.gl = [@ EXCEPT ![reg] = v]]
      BY <1>1, <1>3, <2>2 DEF Gx!AliasWrite, Gx!BankOf
    <3>2. PICK b : b = [gxf.gl EXCEPT ![reg] = v]
      OBVIOUS
    <3>3. b \in RegBank /\ (reg # "elr" => b["elr"] = gxf.gl["elr"])
      BY <1>4, <3>2, GxfTyped DEF RegBank, Gx!BankReg
    <3>4. /\ g \in GxfT /\ g.gl = b /\ g.guarded = gxf.guarded /\ g.nest = gxf.nest
          /\ g.status = gxf.status /\ g.permGen = gxf.permGen /\ g.el = gxf.el
      BY <3>1, <3>2, <3>3, GxfTyped DEF GxfT
    <3> QED
      BY <1>5, <2>2, <3>3, <3>4, GxfTyped DEF Unflushed, SameExit, Redirects
  <2>3. CASE ~(reg = "vbar" /\ Gx!VmsaLocked(gxf, el, "vbar")) /\ ~gxf.guarded
    <3>1. g = [gxf EXCEPT !.el = [@ EXCEPT ![reg] = v]]
      BY <1>1, <1>3, <2>3 DEF Gx!AliasWrite, Gx!BankOf
    <3>2. PICK b : b = [gxf.el EXCEPT ![reg] = v]
      OBVIOUS
    <3>3. b \in RegBank
      BY <1>4, <3>2, GxfTyped DEF RegBank
    <3>4. /\ g \in GxfT /\ g.gl = gxf.gl /\ g.guarded = gxf.guarded
          /\ g.nest = gxf.nest /\ g.status = gxf.status /\ g.permGen = gxf.permGen
      BY <3>1, <3>2, <3>3, GxfTyped DEF GxfT
    <3> QED
      BY <2>3, <3>4, GxfTyped DEF Unflushed, SameExit
  <2> QED
    BY <2>1, <2>2, <2>3
<1> QED
  BY <1>2, <1>6, <1>7, ForgetStep

LEMMA GuardedNameKeeps ==
  ASSUME GuardInv, NEW p \in driven \cap DOMAIN RegsOf, NEW reg \in RegsOf[p],
         NEW value \in Words, GxfWriteGuarded(p, reg, value)
  PROVE  GuardInv' /\ BanksKept /\ AnnounceStep
<1>1. PICK g : g = Gx!GuardedWrite(gxf, reg, value)
  OBVIOUS
<1>2. GxfOnly(p, g) /\ Forget(Redirects(reg)) /\ gxf.guarded
  BY <1>1 DEF GxfWriteGuarded, Gx!GuardedOnlyAllowed
<1>3. PICK v \in Int : v = Gx!Aligned(reg, value)
  BY AlignedTyped, M1MachineAssumption
<1>4. reg \in Gx!BankReg
  BY DEF RegsOf, Gx!BankReg
<1>5. PICK when \in BOOLEAN : when <=> Redirects(reg)
  OBVIOUS
<1>6. Forget(when)
  BY <1>2, <1>5 DEF Forget, Redirects
<1>7. PICK b : b = [gxf.gl EXCEPT ![reg] = v]
  OBVIOUS
<1>8. b \in RegBank /\ (reg # "elr" => b["elr"] = gxf.gl["elr"])
  BY <1>4, <1>7, GxfTyped DEF RegBank, Gx!BankReg
<1>9. g = [gxf EXCEPT !.gl = b]
  BY <1>1, <1>3, <1>7 DEF Gx!GuardedWrite
<1>10. /\ g \in GxfT /\ g.gl = b /\ g.guarded = gxf.guarded /\ g.nest = gxf.nest
       /\ g.status = gxf.status /\ g.permGen = gxf.permGen /\ g.el = gxf.el
  BY <1>8, <1>9, GxfTyped DEF GxfT
<1>11. Unflushed(g) /\ (g.nest => g.guarded) /\ (~when => SameExit(g))
  BY <1>2, <1>5, <1>8, <1>10, GxfTyped DEF Unflushed, SameExit, Redirects
<1> QED
  BY <1>2, <1>6, <1>11, ForgetStep

(* NEST can be set in guarded mode only.                                   *)
LEMMA AspsrKeeps ==
  ASSUME GuardInv, NEW nest \in BOOLEAN, GxfWriteAspsr(nest)
  PROVE  GuardInv' /\ BanksKept /\ AnnounceStep
<1>1. PICK g : g = [gxf EXCEPT !.nest = nest]
  OBVIOUS
<1>2. GxfOnly("gxfFrame", g) /\ Forget(TRUE) /\ gxf.guarded
  BY <1>1 DEF GxfWriteAspsr, Gx!GuardedOnlyAllowed, Gx!AspsrWrite
<1>3. /\ g \in GxfT /\ g.gl = gxf.gl /\ g.guarded = gxf.guarded
      /\ g.status = gxf.status /\ g.permGen = gxf.permGen /\ g.el = gxf.el
  BY <1>1, GxfTyped DEF GxfT
<1>4. Unflushed(g) /\ g.guarded
  BY <1>2, <1>3, GxfTyped DEF Unflushed
<1> QED
  BY <1>2, <1>4, ForgetStep

(* Configuration, traps, locks, MMU controls and permission masks touch    *)
(* neither bank nor mode.                                                  *)
LEMMA AsideKeeps ==
  ASSUME GuardInv, NEW p, NEW g, GxfOnly(p, g), Forget(FALSE), g \in GxfT,
         \A f \in {"guarded", "status", "nest", "el", "gl", "permGen"} : g[f] = gxf[f]
  PROVE  GuardInv' /\ BanksKept /\ AnnounceStep
<1>1. Unflushed(g) /\ SameExit(g) /\ (g.nest => g.guarded)
  BY GxfTyped DEF Unflushed, SameExit
<1> QED
  BY <1>1, ForgetStep

LEMMA SettingsKeep ==
  ASSUME GuardInv,
         \/ \E en \in BOOLEAN : GxfWriteConfig(en)
         \/ \E bits \in SUBSET Gx!HcrBit : GxfSetHcr(bits) \/ \E el \in 0..2 : GxfWriteHcr(bits, el)
         \/ \E bit \in Gx!LockBit : GxfWriteLock(bit) \/ GxfSetLock({bit})
         \/ \E mask \in MaskWords : GxfWriteMprr(mask)
  PROVE  GuardInv' /\ BanksKept /\ AnnounceStep
<1>1. ASSUME NEW en \in BOOLEAN, GxfWriteConfig(en)
      PROVE  GuardInv' /\ BanksKept /\ AnnounceStep
  <2>1. PICK g : g = [gxf EXCEPT !.en = en]
    OBVIOUS
  <2>2. GxfOnly("gxf", g) /\ Forget(FALSE)
    BY <1>1, <2>1 DEF GxfWriteConfig, Gx!ConfigWrite
  <2>3. /\ g \in GxfT
        /\ \A f \in {"guarded", "status", "nest", "el", "gl", "permGen"} : g[f] = gxf[f]
    BY <2>1, GxfTyped DEF GxfT
  <2> QED
    BY <2>2, <2>3, AsideKeeps
<1>2. ASSUME NEW bits \in SUBSET Gx!HcrBit,
             GxfSetHcr(bits) \/ \E el \in 0..2 : GxfWriteHcr(bits, el)
      PROVE  GuardInv' /\ BanksKept /\ AnnounceStep
  <2>1. PICK g : g = [gxf EXCEPT !.hcr = bits]
    OBVIOUS
  <2>2. GxfOnly("gxfTrap", g) /\ Forget(FALSE)
    BY <1>2, <2>1 DEF GxfSetHcr, GxfWriteHcr, Gx!SetHcr
  <2>3. /\ g \in GxfT
        /\ \A f \in {"guarded", "status", "nest", "el", "gl", "permGen"} : g[f] = gxf[f]
    BY <2>1, GxfTyped DEF GxfT
  <2> QED
    BY <2>2, <2>3, AsideKeeps
<1>3. ASSUME NEW bit \in Gx!LockBit, GxfWriteLock(bit) \/ GxfSetLock({bit})
      PROVE  GuardInv' /\ BanksKept /\ AnnounceStep
  <2>1. PICK locks \in SUBSET Gx!LockBit : GxfOnly("gxfLock", [gxf EXCEPT !.lock = locks])
    BY <1>3, GxfTyped DEF GxfWriteLock, GxfSetLock, Gx!LockWrite, Gx!SetLock, GxfT
  <2>2. PICK g : g = [gxf EXCEPT !.lock = locks]
    OBVIOUS
  <2>3. GxfOnly("gxfLock", g) /\ Forget(FALSE)
    BY <1>3, <2>1, <2>2 DEF GxfWriteLock, GxfSetLock
  <2>4. /\ g \in GxfT
        /\ \A f \in {"guarded", "status", "nest", "el", "gl", "permGen"} : g[f] = gxf[f]
    BY <2>2, GxfTyped DEF GxfT
  <2> QED
    BY <2>3, <2>4, AsideKeeps
<1>4. ASSUME NEW mask \in MaskWords, GxfWriteMprr(mask)
      PROVE  GuardInv' /\ BanksKept /\ AnnounceStep
  <2>1. PICK g : g = [gxf EXCEPT !.mprr = mask]
    OBVIOUS
  <2>2. GxfOnly("sprr", g) /\ Forget(FALSE) /\ mask \in Gx!MaskWord
    BY <1>4, <2>1, M1MachineAssumption DEF GxfWriteMprr, Gx!MprrWrite
  <2>3. /\ g \in GxfT
        /\ \A f \in {"guarded", "status", "nest", "el", "gl", "permGen"} : g[f] = gxf[f]
    BY <2>1, <2>2, GxfTyped DEF GxfT
  <2> QED
    BY <2>2, <2>3, AsideKeeps
<1> QED
  BY <1>1, <1>2, <1>3, <1>4

LEMMA ControlKeeps ==
  ASSUME GuardInv, NEW reg \in Controls, NEW value \in Words, NEW el \in 0..2,
         GxfWriteCtl(reg, value, el)
  PROVE  GuardInv' /\ BanksKept /\ AnnounceStep
<1>1. PICK g : g = Gx!CtlWrite(gxf, reg, value, el)
  OBVIOUS
<1>2. GxfOnly("gxfLock", g) /\ Forget(FALSE)
  BY <1>1 DEF GxfWriteCtl
<1>3. reg \in Gx!CtlReg /\ value \in Int
  BY M1MachineAssumption
<1>4. gxf.ctl \in CtlBank /\ gxf.ctl[reg] \in Int
  BY <1>3, GxfTyped DEF GxfT, CtlBank
<1>5. PICK v \in Int : v = IF reg = "sctlr" /\ Gx!VmsaLocked(gxf, el, "sctlrM")
                             THEN (value - (value % 2)) + (gxf.ctl[reg] % 2) ELSE value
  BY <1>3, <1>4
<1>6. PICK b : b = [gxf.ctl EXCEPT ![reg] = v]
  OBVIOUS
<1>7. b \in CtlBank
  BY <1>3, <1>4, <1>6 DEF CtlBank
<1>8. g = gxf \/ g = [gxf EXCEPT !.ctl = b]
  BY <1>1, <1>5, <1>6 DEF Gx!CtlWrite
<1>9. /\ g \in GxfT
      /\ \A f \in {"guarded", "status", "nest", "el", "gl", "permGen"} : g[f] = gxf[f]
  BY <1>7, <1>8, GxfTyped DEF GxfT
<1> QED
  BY <1>2, <1>9, AsideKeeps

LEMMA WordInt == \A w \in Words : w \in Int
BY M1MachineAssumption

(* An entry saves its frame in the guarded bank and turns the mode on in   *)
(* both places; it is marked as nested when it was taken there.            *)
LEMMA EntryKeeps ==
  ASSUME GuardInv, NEW p, NEW g, NEW w \in Words, NEW regs, NEW nested \in BOOLEAN,
         regs \subseteq {"elr", "spsr", "esr", "far"}, "elr" \in regs,
         GxfOnly(p, g),
         g = Gx!SyncGuarded([gxf EXCEPT !.gl = Gx!Saved(@, Frame(w), regs),
                                        !.nest = nested, !.status = TRUE]),
         entry' = [pc |-> w, nested |-> nested]
  PROVE  GuardInv' /\ BanksKept /\ AnnounceStep
<1>1. PICK b : b = Gx!Saved(gxf.gl, Frame(w), regs)
  OBVIOUS
<1>2. b \in RegBank /\ b["elr"] = w /\ w \in Int
  BY <1>1, SavedTyped, GxfTyped, WordInt
<1>3. PICK h : h = [gxf EXCEPT !.gl = b, !.nest = nested, !.status = TRUE]
  OBVIOUS
<1>4. /\ h \in GxfT /\ h.gl = b /\ h.nest = nested /\ h.status = TRUE
      /\ h.el = gxf.el /\ h.permGen = gxf.permGen
  BY <1>2, <1>3, GxfTyped DEF GxfT
<1>5. g = [h EXCEPT !.guarded = h.status]
  BY <1>1, <1>3 DEF Gx!SyncGuarded
<1>6. /\ g \in GxfT /\ g.gl = b /\ g.nest = nested /\ g.status = TRUE
      /\ g.guarded = TRUE /\ g.el = gxf.el /\ g.permGen = gxf.permGen
  BY <1>4, <1>5 DEF GxfT
<1>7. Unflushed(g)
  BY <1>6 DEF Unflushed
<1>8. gxf' = g
  BY DEF GxfOnly
<1>9. entry' \in [pc : Int, nested : BOOLEAN] /\ entry'.pc = w /\ entry'.nested = nested
  BY <1>2
<1>10. ExitUndoesEntry'
  BY <1>2, <1>6, <1>8, <1>9 DEF ExitUndoesEntry
<1> QED
  BY <1>7, <1>9, <1>10, QuietStep

LEMMA GenterKeeps ==
  ASSUME GuardInv, NEW w \in Words, GxfGenter(w)
  PROVE  GuardInv' /\ BanksKept /\ AnnounceStep
<1>1. PICK g : g = Gx!Genter(gxf, Frame(w))
  OBVIOUS
<1>2. PICK nested \in BOOLEAN : nested = FALSE
  OBVIOUS
<1>3. GxfOnly("gxf", g) /\ entry' = [pc |-> w, nested |-> nested]
  BY <1>1, <1>2 DEF GxfGenter
<1>4. g = Gx!SyncGuarded([gxf EXCEPT !.gl = Gx!Saved(@, Frame(w), {"elr", "spsr"}),
                                     !.nest = nested, !.status = TRUE])
  BY <1>1, <1>2 DEF Gx!Genter
<1> QED
  BY <1>3, <1>4, EntryKeeps

LEMMA AbortKeeps ==
  ASSUME GuardInv, NEW w \in Words, GxfAbort(w)
  PROVE  GuardInv' /\ BanksKept /\ AnnounceStep
<1>1. PICK g : g = Gx!Abort(gxf, Frame(w))
  OBVIOUS
<1>2. PICK nested \in BOOLEAN : nested = gxf.status
  BY GxfTyped
<1>3. GxfOnly("gxf", g) /\ entry' = [pc |-> w, nested |-> nested]
  BY <1>1, <1>2, GxfTyped DEF GxfAbort
<1>4. g = Gx!SyncGuarded(
            [gxf EXCEPT !.gl = Gx!Saved(@, Frame(w), {"elr", "spsr", "esr", "far"}),
                        !.nest = nested, !.status = TRUE])
  BY <1>1, <1>2 DEF Gx!Abort
<1> QED
  BY <1>3, <1>4, EntryKeeps

(* An exit undoes one nested abort, or leaves guarded mode.                *)
LEMMA GexitKeeps ==
  ASSUME GuardInv, GxfGexit
  PROVE  GuardInv' /\ BanksKept /\ AnnounceStep
<1>1. PICK g : g = Gx!Gexit(gxf)
  OBVIOUS
<1>2. GxfOnly("gxf", g) /\ Forget(TRUE) /\ gxf.guarded
  BY <1>1, GxfTyped DEF GxfGexit, Gx!GexitAllowed
<1>3. CASE gxf.nest
  <2>1. g = [gxf EXCEPT !.nest = FALSE]
    BY <1>1, <1>3 DEF Gx!Gexit
  <2>2. Unflushed(g) /\ (g.nest => g.guarded)
    BY <1>2, <2>1, GxfTyped DEF GxfT, Unflushed
  <2> QED
    BY <1>2, <2>2, ForgetStep
<1>4. CASE ~gxf.nest
  <2>1. PICK h : h = [gxf EXCEPT !.status = FALSE]
    OBVIOUS
  <2>2. g = [h EXCEPT !.guarded = h.status]
    BY <1>1, <1>4, <2>1 DEF Gx!Gexit, Gx!SyncGuarded
  <2>3. /\ h \in GxfT /\ ~h.nest /\ h.status = FALSE /\ h.el = gxf.el
        /\ h.permGen = gxf.permGen
    BY <1>4, <2>1, GxfTyped DEF GxfT
  <2>4. /\ g \in GxfT /\ ~g.nest /\ g.status = FALSE /\ g.guarded = FALSE
        /\ g.el = gxf.el /\ g.permGen = gxf.permGen
    BY <2>2, <2>3 DEF GxfT
  <2>5. Unflushed(g) /\ (g.nest => g.guarded)
    BY <1>2, <2>4 DEF Unflushed
  <2> QED
    BY <1>2, <2>5, ForgetStep
<1> QED
  BY <1>3, <1>4

(* An exception stays in its mode's bank.                                  *)
LEMMA ExceptionKeeps ==
  ASSUME GuardInv, NEW kind, NEW table, NEW w \in Words,
         GxfTakeException(kind, table, w)
  PROVE  GuardInv' /\ BanksKept /\ AnnounceStep
<1>1. PICK g : g = Gx!TakeException(gxf, kind, Frame(w))
  OBVIOUS
<1>2. GxfOnly("gxfVector", g) /\ Forget(gxf.guarded)
  BY <1>1 DEF GxfTakeException
<1>3. Gx!SavedBy(kind) \subseteq {"elr", "spsr", "esr", "far"}
  BY DEF Gx!SavedBy
<1>4. CASE gxf.guarded
  <2>1. PICK b : b = Gx!Saved(gxf.gl, Frame(w), Gx!SavedBy(kind))
    OBVIOUS
  <2>2. b \in RegBank
    BY <1>3, <2>1, SavedTyped, GxfTyped, WordInt
  <2>3. g = [gxf EXCEPT !.gl = b]
    BY <1>1, <1>4, <2>1, GxfTyped DEF Gx!TakeException
  <2>4. /\ g \in GxfT /\ g.guarded = gxf.guarded /\ g.nest = gxf.nest
        /\ g.status = gxf.status /\ g.el = gxf.el /\ g.permGen = gxf.permGen
    BY <2>2, <2>3, GxfTyped DEF GxfT
  <2>5. Unflushed(g) /\ (g.nest => g.guarded)
    BY <1>4, <2>4, GxfTyped DEF Unflushed
  <2>6. Forget(TRUE)
    BY <1>2, <1>4 DEF Forget
  <2> QED
    BY <1>2, <2>5, <2>6, ForgetStep
<1>5. CASE ~gxf.guarded
  <2>1. PICK b : b = Gx!Saved(gxf.el, Frame(w), Gx!SavedBy(kind))
    OBVIOUS
  <2>2. b \in RegBank
    BY <1>3, <2>1, SavedTyped, GxfTyped, WordInt
  <2>3. g = [gxf EXCEPT !.el = b]
    BY <1>1, <1>5, <2>1, GxfTyped DEF Gx!TakeException
  <2>4. /\ g \in GxfT /\ g.guarded = gxf.guarded /\ g.nest = gxf.nest
        /\ g.status = gxf.status /\ g.gl = gxf.gl /\ g.permGen = gxf.permGen
    BY <2>2, <2>3, GxfTyped DEF GxfT
  <2>5. Unflushed(g) /\ (g.nest => g.guarded) /\ SameExit(g)
    BY <1>5, <2>4, GxfTyped DEF Unflushed, SameExit
  <2>6. Forget(FALSE)
    BY <1>2, <1>5 DEF Forget
  <2> QED
    BY <1>2, <2>5, <2>6, ForgetStep
<1> QED
  BY <1>4, <1>5

(* The flush reaches the bound CPU and no other.                           *)
LEMMA TargetIsBound ==
  ASSUME HookBound, ready
  PROVE  \A c \in Vcpu : c \in FlushTarget <=> c = tlbCpu
<1>1. hook = tlbCpu /\ tlbCpu \in Vcpu \cup {NoCpu}
  BY DEF HookBound
<1>2. NoHook # NoCpu /\ NoHook \notin Vcpu /\ NoCpu \notin Vcpu
  BY M1MachineAssumption DEF NoHook, NoCpu
<1>3. hook # NoHook
  BY <1>1, <1>2
<1>4. CASE tlbCpu \in Vcpu
  BY <1>1, <1>3, <1>4 DEF FlushTarget
<1>5. CASE tlbCpu \notin Vcpu
  BY <1>1, <1>3, <1>5 DEF FlushTarget
<1> QED
  BY <1>4, <1>5

(* The merge changes no bit the mask denies (apple_gxf_v1.c:148-178).      *)
LEMMA MergeMasked ==
  ASSUME NEW perm, NEW request, NEW mask, NEW s \in Slots
  PROVE  Gx!Merge(perm, request, mask)[s] \ mask[s] = perm[s] \ mask[s]
BY DEF Gx!Merge

LEMMA MergeTyped ==
  ASSUME NEW perm \in Gx!PermWord, NEW request \in Gx!PermWord, NEW mask
  PROVE  Gx!Merge(perm, request, mask) \in Gx!PermWord
BY DEF Gx!Merge, Gx!PermWord, Gx!SlotBit, Gx!RWX

LEMMA SprrKeeps ==
  ASSUME GuardInv, NEW request \in PermWords, NEW el \in 0..1, GxfWriteSprr(request, el)
  PROVE  GuardInv' /\ BanksKept /\ AnnounceStep
<1>1. /\ gxf \in GxfT /\ gxf.permGen \in Count /\ gxf.flushes \in Count
      /\ gxf.perm \in Gx!PermWord /\ request \in Gx!PermWord /\ HookBound
  BY GxfTyped, M1MachineAssumption DEF GxfT, GuardInv
<1>2. /\ ready /\ ready' = ready /\ tlbCpu' = tlbCpu /\ hook' = hook /\ entry' = entry
      /\ gxf' = Gx!SprrWrite(gxf, request, el)
      /\ tlbGen' = [c \in Vcpu |->
                      IF el = 0 /\ c \in FlushTarget THEN tlbGen[c] + 1 ELSE tlbGen[c]]
  BY DEF GxfWriteSprr, Drives, vars
<1>3. /\ \A f \in {"guarded", "status", "nest", "el", "gl"} : gxf'[f] = gxf[f]
      /\ gxf' \in GxfT
      /\ gxf'.permGen = IF el = 0 THEN gxf.permGen + 1 ELSE gxf.permGen
      /\ el = 0 => gxf'.perm = Gx!Merge(gxf.perm, request, gxf.mprr)
  <2>1. CASE el = 0
    <3>1. PICK m : m = Gx!Merge(gxf.perm, request, gxf.mprr)
      OBVIOUS
    <3>2. m \in Gx!PermWord
      BY <1>1, <3>1, MergeTyped
    <3>3. PICK n \in Count, k \in Count : n = gxf.permGen + 1 /\ k = gxf.flushes + 1
      BY <1>1 DEF Count
    <3>4. PICK h : h = [gxf EXCEPT !.perm = m]
      OBVIOUS
    <3>5. /\ h \in GxfT /\ h.permGen = gxf.permGen /\ h.flushes = gxf.flushes
          /\ h.perm = m
          /\ \A f \in {"guarded", "status", "nest", "el", "gl"} : h[f] = gxf[f]
      BY <1>1, <3>2, <3>4 DEF GxfT
    <3>6. gxf' = [h EXCEPT !.permGen = n, !.flushes = k]
      BY <1>2, <2>1, <3>1, <3>3, <3>4, <3>5 DEF Gx!SprrWrite, Gx!PermChanged
    <3> QED
      BY <2>1, <3>1, <3>3, <3>5, <3>6 DEF GxfT
  <2>2. CASE el # 0
    <3>1. gxf' = [gxf EXCEPT !.perm = request]
      BY <1>2, <2>2 DEF Gx!SprrWrite
    <3> QED
      BY <1>1, <2>2, <3>1 DEF GxfT
  <2> QED
    BY <2>1, <2>2
<1>4. Merged <=> el = 0
  BY <1>1, <1>3 DEF Merged, Count
<1>5. tlbGen \in [Vcpu -> Nat]
  BY <1>1 DEF HookBound
<1>6. HookBound'
  BY <1>1, <1>2, <1>5 DEF HookBound
<1>7. \A c \in Vcpu : tlbGen'[c] = tlbGen[c] + (IF Merged /\ c = tlbCpu THEN 1 ELSE 0)
  BY <1>1, <1>2, <1>4, <1>5, TargetIsBound
<1>8. AnnounceStep
  BY <1>3, <1>4, <1>7, MergeMasked DEF AnnounceStep
<1>9. GuardInv' /\ BanksKept
  BY <1>2, <1>3, <1>6, GxfTyped
  DEF GuardInv, GxfType, OneMode, ExitUndoesEntry, BanksKept
<1> QED
  BY <1>8, <1>9

LEMMA BindKeeps ==
  ASSUME GuardInv, NEW cpu \in Vcpu \cup {NoCpu}, GxfBindGuestTlb(cpu)
  PROVE  GuardInv' /\ BanksKept /\ AnnounceStep
<1>1. /\ gxf' = gxf /\ tlbGen' = tlbGen /\ entry' = entry /\ ready' = ready
      /\ tlbCpu' = cpu /\ (ready => hook' = cpu)
  BY DEF GxfBindGuestTlb, vars
<1>2. gxf.permGen \in Nat /\ tlbGen \in [Vcpu -> Nat]
  BY GxfTyped DEF GuardInv, HookBound
<1>3. ~Merged
  BY <1>1, <1>2 DEF Merged
<1>4. AnnounceStep
  BY <1>1, <1>2, <1>3 DEF AnnounceStep
<1> QED
  BY <1>1, <1>4, GxfTyped
  DEF GuardInv, GxfType, OneMode, HookBound, ExitUndoesEntry, BanksKept

LEMMA GxfSteps ==
  ASSUME GuardInv, GxfNext
  PROVE  GuardInv' /\ BanksKept /\ AnnounceStep
<1>1. ASSUME NEW insn \in Insns, NEW el \in 0..1, NEW w \in Words, GxfTcgExec(insn, el, w)
      PROVE  GuardInv' /\ BanksKept /\ AnnounceStep
  BY <1>1, GenterKeeps, GexitKeeps DEF GxfTcgExec
<1> QED
  BY <1>1, AliasKeeps, GuardedNameKeeps, AspsrKeeps, SettingsKeep, ControlKeeps,
     GenterKeeps, AbortKeeps, ExceptionKeeps, GexitKeeps, SprrKeeps, BindKeeps
  DEF GxfNext

(* A step of another device leaves guarded execution alone.                *)
LEMMA GxfRest ==
  ASSUME GuardInv, UNCHANGED <<ready, gxfVars>>
  PROVE  GuardInv' /\ gxf' = gxf /\ AnnounceStep
<1>1. /\ ready' = ready /\ gxf' = gxf /\ tlbGen' = tlbGen /\ entry' = entry
      /\ tlbCpu' = tlbCpu /\ hook' = hook
  BY DEF gxfVars
<1>2. gxf.permGen \in Nat /\ tlbGen \in [Vcpu -> Nat]
  BY GxfTyped DEF GuardInv, HookBound
<1>3. ~Merged
  BY <1>1, <1>2 DEF Merged
<1>4. AnnounceStep
  BY <1>1, <1>2, <1>3 DEF AnnounceStep
<1> QED
  BY <1>1, <1>4 DEF GuardInv, GxfType, OneMode, HookBound, ExitUndoesEntry

LEMMA GxfInitTyped ==
  /\ Gx!GxfInit \in GxfT /\ Gx!GxfInit.guarded = FALSE /\ Gx!GxfInit.status = FALSE
  /\ Gx!GxfInit.nest = FALSE /\ Gx!GxfInit.permGen = 0
<1>1. Gx!ZeroBank \in RegBank /\ [r \in Gx!CtlReg |-> 0] \in CtlBank /\ 0 \in Count
  BY DEF Gx!ZeroBank, RegBank, CtlBank, Count
<1>2. [s \in Slots |-> {}] \in Gx!PermWord /\ [s \in Slots |-> {}] \in Gx!MaskWord
  BY DEF Gx!PermWord, Gx!MaskWord
<1> QED
  BY <1>1, <1>2 DEF Gx!GxfInit, GxfT

LEMMA GxfReset ==
  ASSUME GuardInv, MachineReset
  PROVE  GuardInv' /\ AnnounceStep
<1>1. /\ ready' = TRUE /\ gxf' = Gx!GxfInit /\ entry' = NoEntry /\ hook' = tlbCpu
      /\ tlbCpu' = tlbCpu /\ tlbGen' = tlbGen
  BY DEF MachineReset, MmioReset
<1>2. gxf.permGen \in Nat /\ tlbGen \in [Vcpu -> Nat] /\ tlbCpu \in Vcpu \cup {NoCpu}
  BY GxfTyped DEF GuardInv, HookBound
<1>3. ~Merged
  BY <1>1, <1>2, GxfInitTyped DEF Merged
<1>4. AnnounceStep
  BY <1>1, <1>2, <1>3 DEF AnnounceStep
<1>5. NoEntry \in [pc : Int, nested : BOOLEAN]
  BY DEF NoEntry
<1> QED
  BY <1>1, <1>2, <1>4, <1>5, GxfInitTyped
  DEF GuardInv, GxfType, OneMode, HookBound, ExitUndoesEntry

LEMMA GuardInitial == MachineInit => GuardInv
<1> SUFFICES ASSUME MachineInit PROVE GuardInv
  OBVIOUS
<1>1. /\ ready = FALSE /\ gxf = Gx!GxfInit /\ entry = NoEntry /\ tlbCpu = NoCpu
      /\ tlbGen = [c \in Vcpu |-> 0]
  BY DEF MachineInit, Init
<1>2. NoEntry \in [pc : Int, nested : BOOLEAN]
  BY DEF NoEntry
<1>3. HookBound
  BY <1>1 DEF HookBound
<1> QED
  BY <1>1, <1>2, <1>3, GxfInitTyped DEF GuardInv, GxfType, OneMode, ExitUndoesEntry

-----------------------------------------------------------------------------
(* The locks. *)

LocksStep ==
  gxf' # gxf /\ Drives("gxfLock") /\ gxf.lock # {} =>
    /\ WritesVbar /\ "vbar" \in gxf.lock => gxf'.el.vbar = gxf.el.vbar
    /\ \A reg \in Controls :
         WritesCtl(reg) /\ ~gxf.guarded =>
           /\ reg \in gxf.lock => gxf'.ctl[reg] = gxf.ctl[reg]
           /\ reg = "sctlr" /\ "sctlrM" \in gxf.lock =>
                gxf'.ctl[reg] % 2 = gxf.ctl[reg] % 2
    /\ (\E bit \in Gx!LockBit : GxfWriteLock(bit)) => gxf.lock \subseteq gxf'.lock

LEMMA LowBitKept ==
  ASSUME NEW a \in Int, NEW b \in Int
  PROVE  ((a - (a % 2)) + (b % 2)) % 2 = b % 2
OBVIOUS

LEMMA LocksKept ==
  ASSUME GuardInv
  PROVE  LocksStep
<1>1. ASSUME WritesVbar, "vbar" \in gxf.lock
      PROVE  gxf'.el = gxf.el
  <2>1. PICK value \in Words : gxf' = Gx!AliasWrite(gxf, "vbar", value, 1)
    BY <1>1 DEF WritesVbar, GxfWriteAlias, GxfOnly
  <2>2. CASE gxf.guarded
    BY <2>1, <2>2, GxfTyped DEF Gx!AliasWrite, Gx!VmsaLocked, Gx!BankOf, GxfT
  <2>3. CASE ~gxf.guarded
    BY <1>1, <2>1, <2>3 DEF Gx!AliasWrite, Gx!VmsaLocked
  <2> QED
    BY <2>2, <2>3
<1>2. ASSUME NEW reg \in Controls, WritesCtl(reg), ~gxf.guarded
      PROVE  /\ reg \in gxf.lock => gxf'.ctl[reg] = gxf.ctl[reg]
             /\ reg = "sctlr" /\ "sctlrM" \in gxf.lock =>
                  gxf'.ctl[reg] % 2 = gxf.ctl[reg] % 2
  <2>1. PICK value \in Words : gxf' = Gx!CtlWrite(gxf, reg, value, 1)
    BY <1>2 DEF WritesCtl, GxfWriteCtl, GxfOnly
  <2>2. CASE reg \in gxf.lock
    BY <1>2, <2>1, <2>2 DEF Gx!CtlWrite, Gx!VmsaLocked
  <2>3. CASE reg \notin gxf.lock /\ reg = "sctlr" /\ "sctlrM" \in gxf.lock
    <3>1. PICK v : v = (value - (value % 2)) + (gxf.ctl[reg] % 2)
      OBVIOUS
    <3>2. gxf.ctl \in CtlBank /\ reg \in Gx!CtlReg /\ value \in Int
      BY GxfTyped, WordInt, M1MachineAssumption DEF GxfT
    <3>3. v % 2 = gxf.ctl[reg] % 2
      BY <3>1, <3>2, LowBitKept DEF CtlBank
    <3>4. gxf' = [gxf EXCEPT !.ctl = [@ EXCEPT ![reg] = v]]
      BY <1>2, <2>1, <2>3, <3>1 DEF Gx!CtlWrite, Gx!VmsaLocked
    <3>5. gxf'.ctl[reg] = v
      BY <3>2, <3>4, GxfTyped DEF GxfT, CtlBank
    <3> QED
      BY <2>3, <3>3, <3>5
  <2> QED
    BY <2>2, <2>3
<1>3. ASSUME NEW bit \in Gx!LockBit, GxfWriteLock(bit)
      PROVE  gxf.lock \subseteq gxf'.lock
  BY <1>3, GxfTyped DEF GxfWriteLock, GxfOnly, Gx!LockWrite, GxfT
<1> QED
  BY <1>1, <1>2, <1>3 DEF LocksStep

-----------------------------------------------------------------------------
(* The SART. *)

SartStep ==
  sart' # sart /\ sart'.generation = sart.generation /\ ~MachineReset =>
    \A page \in Pages : Sa!Translate(sart', page) = Sa!Translate(sart, page)

\* The values the guest writes to a bank.
SartWritten(bank, value) ==
  \/ bank = "size" /\ value \in [size : Int, flags : BOOLEAN]
  \/ bank \in {"addr", "size3"} /\ value \in Int

LEMMA SartTyped == \A v \in {0, 1, 3} : Sa!SartInit(v) \in SartT
BY DEF Sa!SartInit, Sa!ZeroWord, SartT

FirstOf(hit) ==
  IF hit = {} THEN Sa!Miss ELSE CHOOSE i \in hit : \A j \in hit : i <= j

LEMMA TranslateIsFirst ==
  \A s, page : Sa!Translate(s, page) = FirstOf({i \in Regions : Sa!Hits(s, i, page)})
BY DEF Sa!Translate, FirstOf

LEMMA SartWriteKeeps ==
  ASSUME sart \in SartT, NEW i \in Regions, NEW bank, NEW value,
         SartWritten(bank, value), SartWrite(bank, i, value)
  PROVE  sart' \in SartT /\ SartStep
<1>1. sart' = Sa!SartWrite(sart, bank, i, value)
  BY DEF SartWrite
<1>2. PICK n \in Nat : n = IF Sa!IsRegionBank(sart, bank)
                             THEN sart.generation + 1 ELSE sart.generation
  BY DEF SartT
<1>3. PICK word : word = [sart[bank] EXCEPT ![i] = value]
  OBVIOUS
<1>4. sart' = [sart EXCEPT ![bank] = word, !.generation = n]
  BY <1>1, <1>2, <1>3 DEF Sa!SartWrite
<1>5. CASE bank \in {"size", "addr"} \/ (bank = "size3" /\ sart.version = 3)
  <2>1. n = sart.generation + 1 /\ sart.generation \in Nat
    BY <1>2, <1>5 DEF Sa!IsRegionBank, SartT
  <2>2. CASE bank = "size"
    <3>1. word \in [Regions -> [size : Int, flags : BOOLEAN]]
      BY <1>3, <2>2 DEF SartT, SartWritten
    <3>2. sart' \in SartT /\ sart'.generation = n
      BY <1>4, <2>2, <3>1 DEF SartT
    <3> QED
      BY <2>1, <3>2 DEF SartStep
  <2>3. CASE bank = "addr"
    <3>1. word \in [Regions -> Int]
      BY <1>3, <2>3 DEF SartT, SartWritten
    <3>2. sart' \in SartT /\ sart'.generation = n
      BY <1>4, <2>3, <3>1 DEF SartT
    <3> QED
      BY <2>1, <3>2 DEF SartStep
  <2>4. CASE bank = "size3"
    <3>1. word \in [Regions -> Int]
      BY <1>3, <2>4 DEF SartT, SartWritten
    <3>2. sart' \in SartT /\ sart'.generation = n
      BY <1>4, <2>4, <3>1 DEF SartT
    <3> QED
      BY <2>1, <3>2 DEF SartStep
  <2> QED
    BY <1>5, <2>2, <2>3, <2>4
<1>6. CASE bank = "size3" /\ sart.version # 3
  <2>1. word \in [Regions -> Int]
    BY <1>3, <1>6 DEF SartT, SartWritten
  <2>2. /\ sart' \in SartT /\ sart'.version = sart.version
        /\ sart'.addr = sart.addr /\ sart'.size = sart.size
    BY <1>4, <1>6, <2>1 DEF SartT
  <2>3. \A r \in Regions : Sa!Decode(sart', r) = Sa!Decode(sart, r)
    BY <1>6, <2>2 DEF Sa!Decode
  <2>4. \A page : {r \in Regions : Sa!Hits(sart', r, page)}
                     = {r \in Regions : Sa!Hits(sart, r, page)}
    BY <2>3 DEF Sa!Hits
  <2>5. ASSUME NEW page \in Pages
        PROVE  Sa!Translate(sart', page) = Sa!Translate(sart, page)
    <3>1. PICK hit, hit1 : /\ hit = {r \in Regions : Sa!Hits(sart, r, page)}
                           /\ hit1 = {r \in Regions : Sa!Hits(sart', r, page)}
      OBVIOUS
    <3>2. Sa!Translate(sart, page) = FirstOf(hit) /\ Sa!Translate(sart', page) = FirstOf(hit1)
      BY <3>1, TranslateIsFirst
    <3> QED
      BY <2>4, <3>1, <3>2
  <2> QED
    BY <2>2, <2>5 DEF SartStep
<1> QED
  BY <1>5, <1>6 DEF SartWritten

-----------------------------------------------------------------------------
(* The pin controller. *)

LEMMA DivMod ==
  ASSUME NEW a \in Int, NEW W \in Nat \ {0}
  PROVE  /\ a \div W \in Int /\ a % W \in 0..(W - 1)
         /\ a = W * (a \div W) + (a % W)
OBVIOUS

LEMMA MulBounds ==
  ASSUME NEW W \in Nat \ {0}, NEW x \in Int, W * x < W, -W <= W * x
  PROVE  x \in {-1, 0}
<1>1. x >= 1 => W * x >= W
  OBVIOUS
<1>2. x <= -2 => W * x <= W * (-2)
  OBVIOUS
<1> QED
  BY <1>1, <1>2

(* The word of a pin is one more than its block of pins, except for the    *)
(* first pin of a block (apple_gpio_v1.c:22-36).                           *)
LEMMA WordOfPin ==
  ASSUME NEW p \in Nat, NEW W \in Nat \ {0}
  PROVE  (p + W - 1) \div W = IF p % W = 0 THEN p \div W ELSE (p \div W) + 1
<1>1. PICK k \in Int, r \in 0..(W - 1) : k = p \div W /\ r = p % W /\ p = W * k + r
  BY DivMod
<1>2. PICK d \in Int, s \in 0..(W - 1) :
        d = (p + W - 1) \div W /\ p + W - 1 = W * d + s
  <2>1. PICK a \in Int : a = p + W - 1
    OBVIOUS
  <2> QED
    BY <2>1, DivMod
<1>3. PICK x \in Int : x = d - k - 1
  OBVIOUS
<1>4. W * d = W * k + W * x + W
  BY <1>3
<1>5. W * x = r - s - 1
  BY <1>1, <1>2, <1>4
<1>6. x \in {-1, 0}
  <2>1. PICK m \in Int : m = W * x
    OBVIOUS
  <2>2. m < W /\ -W <= m
    BY <1>5, <2>1
  <2> QED
    BY <2>1, <2>2, MulBounds
<1>7. CASE x = 0
  BY <1>1, <1>2, <1>3, <1>5, <1>7
<1>8. CASE x = -1
  BY <1>1, <1>2, <1>3, <1>5, <1>8
<1> QED
  BY <1>6, <1>7, <1>8

LEMMA PinFromBit ==
  ASSUME NEW W \in Nat \ {0}, NEW p \in Nat, NEW q \in Nat
  PROVE  p % W = q % W /\ (p + W - 1) \div W = (q + W - 1) \div W => p = q
<1>1. PICK k \in Int, r \in 0..(W - 1) : k = p \div W /\ r = p % W /\ p = W * k + r
  BY DivMod
<1>2. PICK l \in Int, s \in 0..(W - 1) : l = q \div W /\ s = q % W /\ q = W * l + s
  BY DivMod
<1>3. (p + W - 1) \div W = IF r = 0 THEN k ELSE k + 1
  BY <1>1, WordOfPin
<1>4. (q + W - 1) \div W = IF s = 0 THEN l ELSE l + 1
  BY <1>2, WordOfPin
<1>5. PICK d, e : d = (p + W - 1) \div W /\ e = (q + W - 1) \div W
  OBVIOUS
<1>6. r = s /\ d = e => k = l
  BY <1>3, <1>4, <1>5
<1> QED
  BY <1>1, <1>2, <1>5, <1>6

(* No two pins share a pending bit.                                        *)
LEMMA BitsApart ==
  ASSUME NEW p \in Io!Pin, NEW q \in Io!Pin, Io!IntBit(p) = Io!IntBit(q)
  PROVE  p = q
<1>1. PICK W \in Nat \ {0}, a \in Nat, b \in Nat : W = WordBits /\ a = p /\ b = q
  BY M1MachineAssumption DEF Io!Pin
<1>2. (a + W - 1) \div W = (b + W - 1) \div W /\ a % W = b % W
  BY <1>1 DEF Io!IntBit, Io!IntWord
<1> QED
  BY <1>1, <1>2, PinFromBit

LEMMA BitTyped == \A p \in Io!Pin : Io!IntBit(p) \in Bits
<1> SUFFICES ASSUME NEW p \in Io!Pin PROVE Io!IntBit(p) \in Bits
  OBVIOUS
<1>1. PICK W \in Nat \ {0}, a \in Int : W = WordBits /\ a = p
  BY M1MachineAssumption DEF Io!Pin
<1>2. PICK c \in Int : c = a + W - 1
  OBVIOUS
<1>3. c \div W \in Int /\ a % W \in Int
  BY DivMod
<1> QED
  BY <1>1, <1>2, <1>3 DEF Io!IntBit, Io!IntWord, Bits

(* The callback reports the groups a call touched; the others are as they  *)
(* were.                                                                   *)
LEMMA GpioStepKeeps ==
  ASSUME GpioInv, NEW state \in GpioT, NEW groups, GpioStep(state, groups),
         state.old = state.in,
         \A g \in Io!Group \ groups : state.int[g] = gpio.int[g],
         edges' \subseteq Io!Group \X Io!Pin,
         \A e \in edges' : Io!IntBit(e[2]) \in state.int[e[1]]
  PROVE  GpioInv'
<1>1. /\ gpio' = state
      /\ lines' = [g \in Io!Group |-> IF g \in groups \cap Io!Group
                                      THEN Io!GroupActive(state, g) ELSE lines[g]]
  BY DEF GpioStep, Raised
<1>2. lines \in [Io!Group -> BOOLEAN] /\ \A g \in Io!Group : lines[g] = Io!GroupActive(gpio, g)
  BY DEF GpioInv, GpioLineTrue
<1>3. \A g \in Io!Group : lines'[g] = Io!GroupActive(state, g)
  BY <1>1, <1>2 DEF Io!GroupActive
<1>4. lines' \in [Io!Group -> BOOLEAN]
  BY <1>1, <1>2 DEF Io!GroupActive
<1> QED
  BY <1>1, <1>3, <1>4 DEF GpioInv, GpioLineTrue

LEMMA GroupApart == Io!Masked \notin Io!Group
BY M1MachineAssumption DEF Io!Masked, Io!Group

(* Configuring a pin touches its own bit in its new group, nothing else.   *)
LEMMA WriteCfgKeeps ==
  ASSUME GpioInv, NEW pin \in Io!Pin, NEW cfg \in CfgT, GpioWriteCfg(pin, cfg)
  PROVE  GpioInv'
<1>1. /\ gpio \in GpioT /\ gpio.old = gpio.in /\ edges \subseteq Io!Group \X Io!Pin
      /\ gpio.int \in [Io!Group -> SUBSET Bits] /\ gpio.cfg \in [Io!Pin -> CfgT]
      /\ \A e \in edges : Io!IntBit(e[2]) \in gpio.int[e[1]]
  BY DEF GpioInv, GpioT, GpioLineTrue
<1>2. PICK g : g = cfg.group
  OBVIOUS
<1>3. PICK bit \in Bits : bit = Io!IntBit(pin)
  BY BitTyped
<1>4. PICK state : state = Io!WriteCfg(gpio, pin, cfg)
  OBVIOUS
<1>5. GpioStep(state, {g}) /\ edges' = edges \ {<<g, pin>>}
  BY <1>2, <1>4 DEF GpioWriteCfg
<1>6. PICK c : c = [gpio.cfg EXCEPT ![pin] = cfg]
  OBVIOUS
<1>7. c \in [Io!Pin -> CfgT]
  BY <1>1, <1>6
<1>8. CASE g = Io!Masked
  <2>1. state = [gpio EXCEPT !.cfg = c]
    BY <1>2, <1>4, <1>6, <1>8 DEF Io!WriteCfg, Io!UpdateLevelPending
  <2>2. /\ state \in GpioT /\ state.int = gpio.int /\ state.old = state.in
    BY <1>1, <1>7, <2>1 DEF GpioT
  <2> QED
    BY <1>1, <1>5, <2>2, GpioStepKeeps
<1>9. CASE g # Io!Masked
  <2>1. g \in Io!Group
    BY <1>2, <1>9 DEF CfgT
  <2>2. PICK low : low = [gpio.int EXCEPT ![g] = @ \ {bit}]
    OBVIOUS
  <2>3. PICK high : high = [low EXCEPT ![g] = @ \cup {bit}]
    OBVIOUS
  <2>4. /\ low \in [Io!Group -> SUBSET Bits] /\ high \in [Io!Group -> SUBSET Bits]
        /\ low[g] = gpio.int[g] \ {bit} /\ high[g] = (gpio.int[g] \ {bit}) \cup {bit}
        /\ \A h \in Io!Group \ {g} : low[h] = gpio.int[h] /\ high[h] = gpio.int[h]
    BY <1>1, <2>1, <2>2, <2>3
  <2>5. PICK clear : clear = [gpio EXCEPT !.int = low]
    OBVIOUS
  <2>6. clear = Io!Clear(gpio, g, pin)
    BY <1>3, <2>2, <2>5 DEF Io!Clear
  <2>7. clear \in GpioT /\ clear.int = low /\ clear.in = gpio.in /\ clear.old = gpio.old
        /\ clear.cfg = gpio.cfg
    BY <1>1, <2>4, <2>5 DEF GpioT
  <2>8. PICK set : set = [clear EXCEPT !.int = high]
    OBVIOUS
  <2>9. set = Io!Set(clear, g, pin)
    BY <1>3, <2>3, <2>7, <2>8 DEF Io!Set
  <2>10. set \in GpioT /\ set.int = high /\ set.in = gpio.in /\ set.old = gpio.old
         /\ set.cfg = gpio.cfg
    BY <2>4, <2>7, <2>8 DEF GpioT
  <2>11. PICK u \in {clear, set} : u = Io!UpdateLevelPending(gpio, pin, cfg)
    BY <1>2, <1>9, <2>6, <2>9 DEF Io!UpdateLevelPending
  <2>12. /\ u \in GpioT /\ u.int \in {low, high} /\ u.in = u.old /\ u.cfg = gpio.cfg
    BY <1>1, <2>7, <2>10
  <2>13. state = [u EXCEPT !.cfg = c]
    BY <1>4, <1>6, <2>11, <2>12 DEF Io!WriteCfg
  <2>14. /\ state \in GpioT /\ state.int \in {low, high} /\ state.old = state.in
    BY <1>7, <2>12, <2>13 DEF GpioT
  <2>15. ASSUME NEW e \in edges'
         PROVE  Io!IntBit(e[2]) \in state.int[e[1]]
    <3>1. e \in edges /\ e # <<g, pin>> /\ e[1] \in Io!Group /\ e[2] \in Io!Pin
      BY <1>1, <1>5
    <3>2. e = <<e[1], e[2]>>
      BY <1>1, <3>1
    <3>3. CASE e[1] # g
      BY <1>1, <2>4, <2>14, <3>1, <3>3
    <3>4. CASE e[1] = g
      <4>1. e[2] # pin
        BY <3>1, <3>2, <3>4
      <4>2. Io!IntBit(e[2]) # bit
        BY <1>3, <3>1, <4>1, BitsApart
      <4> QED
        BY <1>1, <2>4, <2>14, <3>1, <3>4, <4>2
    <3> QED
      BY <3>3, <3>4
  <2> QED
    BY <1>1, <1>5, <2>4, <2>14, <2>15, GpioStepKeeps
<1> QED
  BY <1>8, <1>9

(* An input that changes sets the pin's bit if its mode asks for it; the   *)
(* levels remembered for the whole word are those just read.               *)
LEMMA SetInKeeps ==
  ASSUME GpioInv, NEW pin \in Io!Pin, NEW level \in BOOLEAN, GpioSetIn(pin, level)
  PROVE  GpioInv'
<1>1. /\ gpio \in GpioT /\ gpio.old = gpio.in /\ edges \subseteq Io!Group \X Io!Pin
      /\ gpio.int \in [Io!Group -> SUBSET Bits] /\ gpio.cfg \in [Io!Pin -> CfgT]
      /\ gpio.in \subseteq Io!Pin
      /\ \A e \in edges : Io!IntBit(e[2]) \in gpio.int[e[1]]
  BY DEF GpioInv, GpioT, GpioLineTrue
<1>2. PICK cfg \in CfgT, g \in Io!Group \cup {Io!Masked} : cfg = gpio.cfg[pin] /\ g = cfg.group
  BY <1>1 DEF CfgT
<1>3. PICK bit \in Bits : bit = Io!IntBit(pin)
  BY BitTyped
<1>4. PICK in : in = IF level THEN gpio.in \cup {pin} ELSE gpio.in \ {pin}
  OBVIOUS
<1>5. PICK word : word = {p \in Io!Pin : p \div WordBits = pin \div WordBits}
  OBVIOUS
<1>6. in \subseteq Io!Pin /\ (gpio.old \ word) \cup (in \cap word) = in
  BY <1>1, <1>4, <1>5
<1>7. PICK moved : moved = [gpio EXCEPT !.in = in, !.old = in]
  OBVIOUS
<1>8. /\ moved \in GpioT /\ moved.int = gpio.int /\ moved.old = moved.in
  BY <1>1, <1>6, <1>7 DEF GpioT
<1>9. PICK up : up = [gpio.int EXCEPT ![g] = @ \cup {bit}]
  OBVIOUS
<1>10. PICK raised : raised = [moved EXCEPT !.int = up]
  OBVIOUS
<1>11. PICK fires \in BOOLEAN : fires <=> (g # Io!Masked /\ Io!Triggers(gpio, pin, level))
  OBVIOUS
<1>12. PICK state : state = Io!SetIn(gpio, pin, level)
  OBVIOUS
<1>13. state = IF fires THEN raised ELSE moved
  <2>1. moved = [gpio EXCEPT !.in = in, !.old = (@ \ word) \cup (in \cap word)]
    BY <1>6, <1>7
  <2>2. raised = Io!Set(moved, g, pin)
    BY <1>3, <1>8, <1>9, <1>10 DEF Io!Set
  <2> QED
    BY <1>2, <1>4, <1>5, <1>11, <1>12, <2>1, <2>2 DEF Io!SetIn
<1>14. fires => /\ g \in Io!Group /\ raised \in GpioT /\ raised.int = up
                /\ raised.old = raised.in /\ up[g] = gpio.int[g] \cup {bit}
                /\ \A h \in Io!Group \ {g} : up[h] = gpio.int[h]
  <2> SUFFICES ASSUME fires
               PROVE  /\ g \in Io!Group /\ raised \in GpioT /\ raised.int = up
                      /\ raised.old = raised.in /\ up[g] = gpio.int[g] \cup {bit}
                      /\ \A h \in Io!Group \ {g} : up[h] = gpio.int[h]
    OBVIOUS
  <2>1. g \in Io!Group
    BY <1>2, <1>11 DEF CfgT
  <2>2. /\ up \in [Io!Group -> SUBSET Bits] /\ up[g] = gpio.int[g] \cup {bit}
        /\ \A h \in Io!Group \ {g} : up[h] = gpio.int[h]
    BY <1>1, <1>9, <2>1
  <2> QED
    BY <1>8, <1>10, <2>1, <2>2 DEF GpioT
<1>15. /\ state \in GpioT /\ state.old = state.in
       /\ \A h \in Io!Group : gpio.int[h] \subseteq state.int[h]
       /\ \A h \in Io!Group \ {g} : state.int[h] = gpio.int[h]
       /\ fires => g \in Io!Group /\ bit \in state.int[g]
  BY <1>8, <1>13, <1>14
<1>16. GpioStep(state, {g})
  BY <1>2, <1>12 DEF GpioSetIn
<1>17. edges' \subseteq edges \cup (IF fires THEN {<<g, pin>>} ELSE {})
  <2>1. CASE edges' = edges
    BY <2>1
  <2>2. CASE edges' # edges
    <3>1. /\ (pin \in gpio.in) # level /\ g # Io!Masked
          /\ \/ cfg.mode = "EDG_ANY"
             \/ cfg.mode = "EDG_RIS" /\ level
             \/ cfg.mode = "EDG_FAL" /\ ~level
          /\ edges' = edges \cup {<<g, pin>>}
      BY <1>2, <2>2 DEF GpioSetIn
    <3>2. Io!Triggers(gpio, pin, level)
      BY <1>1, <1>2, <3>1 DEF Io!Triggers
    <3> QED
      BY <1>11, <3>1, <3>2
  <2> QED
    BY <2>1, <2>2
<1>18. edges' \subseteq Io!Group \X Io!Pin
  BY <1>1, <1>15, <1>17
<1>19. ASSUME NEW e \in edges'
       PROVE  Io!IntBit(e[2]) \in state.int[e[1]]
  <2>1. CASE e \in edges
    BY <1>1, <1>15, <2>1
  <2>2. CASE e \notin edges
    <3>1. fires /\ e = <<g, pin>>
      BY <1>17, <2>2
    <3> QED
      BY <1>3, <1>15, <3>1
  <2> QED
    BY <2>1, <2>2
<1> QED
  BY <1>15, <1>16, <1>18, <1>19, GpioStepKeeps

(* Writing ones clears exactly those bits of that group.                   *)
LEMMA WriteIntKeeps ==
  ASSUME GpioInv, NEW g \in Io!Group, NEW bits, GpioWriteInt(g, bits)
  PROVE  GpioInv'
<1>1. /\ gpio \in GpioT /\ gpio.old = gpio.in /\ edges \subseteq Io!Group \X Io!Pin
      /\ gpio.int \in [Io!Group -> SUBSET Bits]
      /\ \A e \in edges : Io!IntBit(e[2]) \in gpio.int[e[1]]
  BY DEF GpioInv, GpioT, GpioLineTrue
<1>2. PICK low : low = [gpio.int EXCEPT ![g] = @ \ bits]
  OBVIOUS
<1>3. /\ low \in [Io!Group -> SUBSET Bits] /\ low[g] = gpio.int[g] \ bits
      /\ \A h \in Io!Group \ {g} : low[h] = gpio.int[h]
  BY <1>1, <1>2
<1>4. PICK state : state = [gpio EXCEPT !.int = low]
  OBVIOUS
<1>5. state \in GpioT /\ state.int = low /\ state.old = state.in
  BY <1>1, <1>3, <1>4 DEF GpioT
<1>6. /\ GpioStep(state, {g})
      /\ edges' = {e \in edges : ~(e[1] = g /\ Io!IntBit(e[2]) \in bits)}
  BY <1>2, <1>4 DEF GpioWriteInt, Io!WriteInt
<1>7. \A e \in edges' : Io!IntBit(e[2]) \in state.int[e[1]]
  BY <1>1, <1>3, <1>5, <1>6
<1> QED
  BY <1>1, <1>3, <1>5, <1>6, <1>7, GpioStepKeeps

-----------------------------------------------------------------------------
(* The SMC's key table. *)

LEMMA CopiedPrefix ==
  ASSUME NEW old \in Data, NEW new \in Data, NEW n \in 0..2
  PROVE  /\ Sm!Copied(old, new, n) \in Data
         /\ SubSeq(Sm!Copied(old, new, n), 1, n) = SubSeq(new, 1, n)
<1>1. \A d \in Data : SubSeq(d, 1, n) = [i \in 1..n |-> d[i]]
  BY DEF Data
<1>2. Sm!Copied(old, new, n) \in Data
  BY DEF Sm!Copied, Sm!Groups, Data
<1>3. \A i \in 1..n : Sm!Copied(old, new, n)[i] = new[i]
  BY DEF Sm!Copied, Sm!Groups
<1> QED
  BY <1>1, <1>2, <1>3

LEMMA Patched ==
  ASSUME NEW S, NEW seq \in Seq(S), NEW i \in DOMAIN seq, NEW x \in S
  PROVE  LET new == [seq EXCEPT ![i] = x]
         IN  /\ new \in Seq(S) /\ Len(new) = Len(seq) /\ DOMAIN new = DOMAIN seq
             /\ new[i] = x /\ \A j \in DOMAIN seq : j # i => new[j] = seq[j]
OBVIOUS

LEMMA Lengthened ==
  ASSUME NEW S, NEW seq \in Seq(S), NEW n, n = Len(seq) + 1, NEW x \in S
  PROVE  LET new == Append(seq, x)
         IN  /\ new \in Seq(S) /\ Len(new) = n /\ n \in Nat
             /\ DOMAIN new = DOMAIN seq \cup {n} /\ n \notin DOMAIN seq
             /\ new[n] = x /\ \A j \in DOMAIN seq : new[j] = seq[j]
OBVIOUS

LEMMA EntryRefreshed ==
  ASSUME NEW e \in KeyEntry, NEW data \in Data
  PROVE  LET f == [e EXCEPT !.data = data]
         IN  /\ f \in KeyEntry /\ f.key = e.key /\ f.writable = e.writable
             /\ data = e.data => f = e
BY DEF KeyEntry

LEMMA EntryStored ==
  ASSUME NEW e \in KeyEntry, NEW size \in 0..2, NEW data \in Data
  PROVE  LET f == [e EXCEPT !.size = size, !.data = data]
         IN  /\ f \in KeyEntry /\ f.key = e.key /\ f.writable = e.writable
             /\ Value(f) = SubSeq(data, 1, size)
BY DEF KeyEntry, Value

LEMMA BlankTyped == Sm!Blank \in Data
BY DEF Sm!Blank, Data, Token

\* What Store leaves: an entry with the request's length and the SRAM's value.
Filled(f, s, i, n, t) ==
  /\ f.key = s.keys[i].key /\ f.writable /\ Value(f) = SubSeq(s.sram, 1, n)
  /\ t \in SmcT /\ t.keys = [s.keys EXCEPT ![i] = f]

LEMMA StoreFields ==
  ASSUME NEW s \in SmcT, NEW i \in DOMAIN s.keys, s.keys[i].writable, NEW n \in 0..2
  PROVE  \E f \in KeyEntry : Filled(f, s, i, n, Sm!Store(s, i, n))
<1>1. s.keys \in Seq(KeyEntry) /\ s.sram \in Data
  BY DEF SmcT
<1>2. PICK e : e = s.keys[i]
  OBVIOUS
<1>3. e \in KeyEntry /\ e.data \in Data /\ e.writable
  <2>1. e \in KeyEntry
    BY <1>1, <1>2
  <2>2. e.data \in Data
    BY <2>1 DEF KeyEntry
  <2>3. e.writable
    BY <1>2, Zenon
  <2> QED
    BY <2>1, <2>2, <2>3
<1>4. PICK data : data = Sm!Copied(e.data, s.sram, n)
  OBVIOUS
<1>5. data \in Data /\ SubSeq(data, 1, n) = SubSeq(s.sram, 1, n)
  BY <1>1, <1>3, <1>4, CopiedPrefix
<1>6. PICK f : f = [e EXCEPT !.size = n, !.data = data]
  OBVIOUS
<1>7. f \in KeyEntry /\ f.key = e.key /\ f.writable /\ Value(f) = SubSeq(data, 1, n)
  <2>1. f.writable = e.writable
    BY <1>3, <1>5, <1>6 DEF KeyEntry
  <2> QED
    BY <1>3, <1>5, <1>6, <2>1, EntryStored
<1>8. PICK new : new = [s.keys EXCEPT ![i] = f]
  OBVIOUS
<1>9. new \in Seq(KeyEntry)
  BY <1>1, <1>7, <1>8, Patched
<1>10. Sm!Store(s, i, n) = [s EXCEPT !.keys = new]
  BY <1>1, <1>2, <1>4, <1>6, <1>8 DEF Sm!Store, SmcT
<1>11. [s EXCEPT !.keys = new] \in SmcT /\ [s EXCEPT !.keys = new].keys = new
  BY <1>9 DEF SmcT
<1> QED
  <2>1. Filled(f, s, i, n, Sm!Store(s, i, n))
    BY <1>2, <1>5, <1>7, <1>8, <1>10, <1>11 DEF Filled
  <2> QED
    BY <1>7, <2>1

\* smc_find_key() on a table without duplicates.
LEMMA FoundKey ==
  ASSUME NEW key, Sm!Find(smc, key) # {}
  PROVE  Sm!At(smc, key) \in DOMAIN smc.keys /\ smc.keys[Sm!At(smc, key)].key = key
BY DEF Sm!At, Sm!Find

LEMMA MissingKey ==
  ASSUME NEW keys, NEW st, Answers(keys, st), NEW key,
         \A i \in DOMAIN keys : ~(keys[i].key = key /\ \A j \in 1..(i - 1) : keys[j].key # key)
  PROVE  \A i \in DOMAIN keys : keys[i].key # key
<1>1. DOMAIN keys = 1..Len(keys) /\ Len(keys) \in Nat
  BY DEF Answers
<1> QED
  BY <1>1 DEF Answers

-----------------------------------------------------------------------------
(* The table after one entry changed or one was added. *)

\* A read refreshes the count, or nothing.
LEMMA RefreshAnswers ==
  ASSUME NEW keys, NEW st, Answers(keys, st), NEW i \in DOMAIN keys,
         NEW data \in Data, i # 1 => data = keys[i].data
  PROVE  Answers([keys EXCEPT ![i].data = data], st)
<1>1. PICK e \in KeyEntry : e = keys[i]
  BY DEF Answers
<1>2. PICK f \in KeyEntry : f = [e EXCEPT !.data = data]
  BY EntryRefreshed
<1>3. f.key = e.key /\ f.writable = e.writable /\ (data = e.data => f = e)
  BY <1>2, EntryRefreshed
<1>4. PICK new : new = [keys EXCEPT ![i] = f]
  OBVIOUS
<1>5. /\ new \in Seq(KeyEntry) /\ Len(new) = Len(keys) /\ DOMAIN new = DOMAIN keys
      /\ 1 \in DOMAIN keys
      /\ \A j \in DOMAIN keys : new[j] = IF j = i THEN f ELSE keys[j]
  BY <1>4 DEF Answers
<1>6. \A j \in DOMAIN keys : j # 1 => new[j] = keys[j]
  BY <1>1, <1>3, <1>5
<1>7. \A j \in DOMAIN keys : new[j].key = keys[j].key
  BY <1>1, <1>3, <1>5
<1>8. ~new[1].writable
  BY <1>1, <1>3, <1>5 DEF Answers
<1>9. \A key \in DOMAIN st : \E j \in DOMAIN keys :
        keys[j].key = key /\ Value(keys[j]) = st[key] /\ j # 1
  BY DEF Answers
<1>10. Answers(new, st)
  BY <1>5, <1>6, <1>7, <1>8, <1>9 DEF Answers
<1> QED
  BY <1>1, <1>2, <1>4, <1>10
\* What the guest stored, with one more value.
Noted(st, key, value) ==
  [k \in DOMAIN st \cup {key} |-> IF k = key THEN value ELSE st[k]]

LEMMA NotedOther ==
  ASSUME NEW st, NEW key, NEW value, NEW k \in DOMAIN Noted(st, key, value), k # key
  PROVE  k \in DOMAIN st /\ Noted(st, key, value)[k] = st[k]
BY DEF Noted

LEMMA StoreAnswers ==
  ASSUME NEW keys, NEW st, Answers(keys, st), NEW i \in DOMAIN keys, keys[i].writable,
         NEW f \in KeyEntry, f.key = keys[i].key, f.writable
  PROVE  Answers([keys EXCEPT ![i] = f], Noted(st, f.key, Value(f)))
<1>1. PICK new : new = [keys EXCEPT ![i] = f]
  OBVIOUS
<1>2. /\ new \in Seq(KeyEntry) /\ Len(new) = Len(keys) /\ DOMAIN new = DOMAIN keys
      /\ new[i] = f /\ \A j \in DOMAIN keys : j # i => new[j] = keys[j]
  BY <1>1, Patched DEF Answers
<1>3. 1 \in DOMAIN keys /\ i # 1
  BY DEF Answers
<1>4. \A j \in DOMAIN keys : new[j].key = keys[j].key
  BY <1>2
<1>5. PICK more : more = Noted(st, f.key, Value(f))
  OBVIOUS
<1>6. "NKEY" \notin DOMAIN more
  BY <1>3, <1>5 DEF Noted, Answers
<1>7. \A key \in DOMAIN more : \E j \in DOMAIN keys :
        new[j].key = key /\ Value(new[j]) = more[key]
  <2> TAKE key \in DOMAIN more
  <2>1. CASE key = f.key
    BY <1>2, <1>5, <2>1 DEF Noted
  <2>2. CASE key # f.key
    <3>1. key \in DOMAIN st /\ more[key] = st[key]
      BY <1>5, <2>2, NotedOther
    <3>2. PICK j \in DOMAIN keys : keys[j].key = key /\ Value(keys[j]) = st[key]
      BY <3>1 DEF Answers
    <3>3. j # i
      BY <2>2, <3>2
    <3> QED
      BY <1>2, <3>1, <3>2, <3>3
  <2> QED
    BY <2>1, <2>2
<1>8. Answers(new, more)
  BY <1>2, <1>3, <1>4, <1>6, <1>7 DEF Answers
<1> QED
  BY <1>1, <1>5, <1>8

Grown(keys, n, f, new) ==
  /\ n = Len(keys) + 1 /\ new \in Seq(KeyEntry) /\ Len(new) = n
  /\ DOMAIN new = DOMAIN keys \cup {n} /\ \A j \in DOMAIN keys : new[j] = keys[j]
  /\ new[n] = f /\ f \in KeyEntry /\ f.writable
  /\ \A i \in DOMAIN keys : keys[i].key # f.key

LEMMA AddAnswers ==
  ASSUME NEW keys, NEW st, Answers(keys, st), Len(keys) < MaxKeys,
         NEW n, NEW new, NEW f, Grown(keys, n, f, new)
  PROVE  Answers(new, Noted(st, f.key, Value(f)))
<1> USE DEF Grown
<1>1. n \in 2..MaxKeys /\ n \in Nat
  BY M1MachineAssumption DEF Answers
<1>2. 1 \in DOMAIN keys /\ n \notin DOMAIN keys
  BY DEF Answers
<1>3. n \in DOMAIN new /\ 1 \in DOMAIN new
  BY <1>2
<1>4. PICK more : more = Noted(st, f.key, Value(f))
  OBVIOUS
<1>5. "NKEY" \notin DOMAIN more
  BY <1>2, <1>4 DEF Noted, Answers
<1>6. \A key \in DOMAIN more : \E j \in DOMAIN new :
         new[j].key = key /\ Value(new[j]) = more[key]
  <2> TAKE key \in DOMAIN more
  <2>1. CASE key = f.key
    BY <1>3, <1>4, <2>1 DEF Noted
  <2>2. CASE key # f.key
    <3>1. key \in DOMAIN st /\ more[key] = st[key]
      BY <1>4, <2>2, NotedOther
    <3>2. PICK j \in DOMAIN keys : keys[j].key = key /\ Value(keys[j]) = st[key]
      BY <3>1 DEF Answers
    <3> QED
      BY <1>3, <3>1, <3>2
  <2> QED
    BY <2>1, <2>2
<1>7. Answers(new, more)
  BY <1>1, <1>2, <1>5, <1>6 DEF Answers
<1> QED
  BY <1>4, <1>7
-----------------------------------------------------------------------------
(* The messages. *)

LEMMA ReadKeeps ==
  ASSUME SmcInv, NEW key, smc' = Sm!ReadKey(smc, key).smc, UNCHANGED stored
  PROVE  SmcInv'
<1>1. CASE smc' = smc
  BY <1>1 DEF SmcInv
<1>2. CASE smc' # smc
  <2>1. PICK i \in DOMAIN smc.keys : smc' = Sm!ReadEntry(smc, i).smc
    BY <1>2, FoundKey DEF Sm!ReadKey, Sm!Refused
  <2>2. PICK k \in KeyEntry : k = smc.keys[i]
    BY DEF SmcInv, Answers
  <2>3. PICK data : data = IF k.key = "NKEY"
                             THEN <<<<"count", Len(smc.keys)>>, k.data[2]>> ELSE k.data
    OBVIOUS
  <2>4. data \in Data /\ (i # 1 => data = k.data)
    <3>1. i # 1 => k.key # "NKEY"
      BY <2>2 DEF SmcInv, Answers
    <3>2. k.data \in Data /\ k.data[2] \in Token
      BY DEF KeyEntry, Data
    <3>3. <<"count", Len(smc.keys)>> \in Token
      BY DEF SmcInv, Answers, Token
    <3> QED
      BY <2>3, <3>1, <3>2, <3>3 DEF Data
  <2>5. PICK new : new = [smc.keys EXCEPT ![i].data = data]
    OBVIOUS
  <2>6. new \in Seq(KeyEntry) /\ Answers(new, stored)
    <3>1. Answers(new, stored)
      BY <2>2, <2>4, <2>5, RefreshAnswers DEF SmcInv
    <3> QED
      BY <3>1 DEF Answers
  <2>7. PICK sram \in Data : smc' = [smc EXCEPT !.keys = new, !.sram = sram]
    <3>1. PICK copy \in Data : copy = Sm!Copied(smc.sram, data, k.size)
      BY <2>4, CopiedPrefix DEF SmcInv, SmcT, KeyEntry
    <3>2. \/ smc' = [smc EXCEPT !.keys = new]
          \/ smc' = [[smc EXCEPT !.keys = new] EXCEPT !.sram = copy]
      BY <1>2, <2>1, <2>2, <2>3, <2>5, <3>1 DEF Sm!ReadEntry, Sm!Refused, SmcInv, SmcT
    <3> QED
      BY <3>1, <3>2 DEF SmcInv, SmcT
  <2> QED
    BY <2>6, <2>7 DEF SmcInv, SmcT
<1> QED
  BY <1>1, <1>2

LEMMA InfoKeeps ==
  ASSUME SmcInv, NEW key, SmcGetKeyInfo(key)
  PROVE  SmcInv'
<1>1. <<<<"info">>, <<"info">>>> \in Data
  BY DEF Data, Token
<1> QED
  BY <1>1 DEF SmcGetKeyInfo, SmcMessage, SmcStep, Sm!GetKeyInfo, Sm!Refused, SmcInv, SmcT

LEMMA WriteKeeps ==
  ASSUME SmcInv, NEW key \in Sm!Key, NEW length \in Sm!Length, SmcWriteKey(key, length)
  PROVE  SmcInv'
<1>1. PICK answer : answer = Sm!WriteKey(smc, key, length)
  OBVIOUS
<1>2. /\ smc' = answer.smc
      /\ stored' = IF answer.resp.status # "SUCCESS" THEN stored
                   ELSE Noted(stored, key, SubSeq(smc.sram, 1, length))
  BY <1>1 DEF SmcWriteKey, SmcStep, Noted
<1>3. Len(smc.keys) \in Nat /\ MaxKeys \in Nat /\ length \in Int
  BY M1MachineAssumption DEF SmcInv, Answers, Sm!Length, Sm!Groups
<1>4. CASE Sm!Find(smc, key) = {} /\ length <= 2 /\ Len(smc.keys) < MaxKeys
  <2>1. PICK added : added = [smc EXCEPT !.keys =
                                Append(@, Sm!Entry(key, 0, TRUE, TRUE, Sm!Blank))]
    OBVIOUS
  <2>2. answer = [smc |-> Sm!Store(added, Len(added.keys), length),
                   resp |-> Sm!Response("SUCCESS", length, Sm!Zero)]
    BY <1>1, <1>3, <1>4, <2>1 DEF Sm!WriteKey, Sm!Groups
  <2>3. PICK keys \in Seq(KeyEntry) : keys = smc.keys
    BY DEF SmcInv, Answers
  <2>4. length \in 0..2
    BY <1>4 DEF Sm!Length, Sm!Groups
  <2>5. PICK e \in KeyEntry : /\ e = Sm!Entry(key, 0, TRUE, TRUE, Sm!Blank)
                              /\ e.key = key /\ e.writable
    <3>1. Sm!Entry(key, 0, TRUE, TRUE, Sm!Blank) \in KeyEntry
      BY BlankTyped DEF Sm!Entry, KeyEntry
    <3> QED
      BY <3>1 DEF Sm!Entry
  <2>6. PICK longer, n : longer = Append(keys, e) /\ n = Len(keys) + 1
    OBVIOUS
  <2>7. /\ longer \in Seq(KeyEntry) /\ Len(longer) = n
        /\ DOMAIN longer = DOMAIN keys \cup {n} /\ n \notin DOMAIN keys
        /\ longer[n] = e /\ \A j \in DOMAIN keys : longer[j] = keys[j]
    BY <2>6, Lengthened
  <2>8. added = [smc EXCEPT !.keys = longer]
    BY <2>1, <2>3, <2>5, <2>6
  <2>9. added \in SmcT /\ added.keys = longer /\ added.sram = smc.sram
    BY <2>7, <2>8 DEF SmcInv, SmcT
  <2>10. /\ smc' = Sm!Store(added, n, length)
        /\ stored' = Noted(stored, key, SubSeq(added.sram, 1, length))
    BY <1>2, <2>2, <2>7, <2>9 DEF Sm!Response
  <2>11. PICK f \in KeyEntry : Filled(f, added, n, length, smc')
    <3>1. n \in DOMAIN added.keys /\ added.keys[n].writable
      BY <2>5, <2>7, <2>9
    <3> QED
      BY <2>4, <2>9, <2>10, <3>1, StoreFields
  <2>12. /\ f.key = e.key /\ f.writable /\ Value(f) = SubSeq(added.sram, 1, length)
         /\ smc' \in SmcT /\ smc'.keys = [longer EXCEPT ![n] = f]
    BY <2>7, <2>9, <2>11 DEF Filled
  <2>13. PICK new : new = [longer EXCEPT ![n] = f]
    OBVIOUS
  <2>14. /\ new \in Seq(KeyEntry) /\ Len(new) = n /\ DOMAIN new = DOMAIN keys \cup {n}
         /\ new[n] = f /\ \A j \in DOMAIN keys : new[j] = keys[j]
    BY <2>7, <2>13, Patched
  <2>15. Answers(keys, stored) /\ Len(keys) < MaxKeys
    BY <1>4, <2>3 DEF SmcInv
  <2>16. \A i \in DOMAIN keys : keys[i].key # f.key
    <3>1. \A i \in DOMAIN keys :
            ~(keys[i].key = key /\ \A j \in 1..(i - 1) : keys[j].key # key)
      BY <1>4, <2>3 DEF Sm!Find
    <3>2. \A i \in DOMAIN keys : keys[i].key # key
      BY <2>15, <3>1, MissingKey
    <3> QED
      BY <2>5, <2>12, <3>2
  <2>17. Grown(keys, n, f, new)
    BY <2>6, <2>12, <2>14, <2>16 DEF Grown
  <2>18. Answers(new, Noted(stored, f.key, Value(f)))
    BY <2>15, <2>17, AddAnswers
  <2> QED
    BY <2>5, <2>10, <2>12, <2>13, <2>18 DEF SmcInv
<1>5. CASE Sm!Find(smc, key) # {} /\ length <= 2 /\ smc.keys[Sm!At(smc, key)].writable
  <2>1. answer = [smc |-> Sm!Store(smc, Sm!At(smc, key), length),
                  resp |-> Sm!Response("SUCCESS", length, Sm!Zero)]
    BY <1>1, <1>3, <1>5 DEF Sm!WriteKey, Sm!Groups
  <2>2. PICK i \in DOMAIN smc.keys :
          i = Sm!At(smc, key) /\ smc.keys[i].key = key /\ smc.keys[i].writable
    BY <1>5, FoundKey
  <2>3. length \in 0..2
    BY <1>5 DEF Sm!Length, Sm!Groups
  <2>4. /\ smc' = Sm!Store(smc, i, length)
        /\ stored' = Noted(stored, key, SubSeq(smc.sram, 1, length))
    BY <1>2, <2>1, <2>2 DEF Sm!Response
  <2>5. PICK f \in KeyEntry : Filled(f, smc, i, length, smc')
    <3>1. smc \in SmcT
      BY DEF SmcInv
    <3> QED
      BY <2>2, <2>3, <2>4, <3>1, StoreFields
  <2>6. Answers([smc.keys EXCEPT ![i] = f], Noted(stored, f.key, Value(f)))
    BY <2>2, <2>5, StoreAnswers DEF SmcInv, Filled
  <2> QED
    BY <2>2, <2>4, <2>5, <2>6 DEF SmcInv, Filled
<1>6. CASE /\ ~(Sm!Find(smc, key) = {} /\ length <= 2 /\ Len(smc.keys) < MaxKeys)
           /\ ~(/\ Sm!Find(smc, key) # {} /\ length <= 2
                /\ smc.keys[Sm!At(smc, key)].writable)
  <2>1. \E status \in {"NOT_FOUND", "NOT_WRITABLE"} : answer = Sm!Refused(smc, status, length)
    BY <1>1, <1>3, <1>6 DEF Sm!WriteKey, Sm!Groups
  <2> QED
    BY <1>2, <2>1 DEF Sm!Refused, Sm!Response, SmcInv
<1> QED
  BY <1>4, <1>5, <1>6

LEMMA SmcKeeps ==
  ASSUME SmcInv, SmcNext
  PROVE  SmcInv'
<1>1. ASSUME UNCHANGED <<smc, stored>> PROVE SmcInv'
  BY <1>1 DEF SmcInv
<1>2. ASSUME NEW key \in SmcKeys,
             SmcReadKey(key) \/ SmcGetKeyInfo(key)
               \/ \E length \in Sm!Length : SmcWriteKey(key, length)
      PROVE  SmcInv'
  <2>1. key \in Sm!Key
    BY M1MachineAssumption
  <2> QED
    BY <1>2, <2>1, ReadKeeps, InfoKeeps, WriteKeeps DEF SmcReadKey, SmcMessage, SmcStep
<1>3. ASSUME NEW index, SmcGetKeyByIndex(index) PROVE SmcInv'
  BY <1>1, <1>3 DEF SmcGetKeyByIndex, SmcMessage, SmcStep, Sm!GetKeyByIndex, Sm!Refused
<1>4. CASE SmcGetSramAddr \/ SmcBadCommand
  BY <1>1, <1>4 DEF SmcGetSramAddr, SmcBadCommand, SmcMessage, SmcStep, Sm!GetSramAddr,
                    Sm!BadCommand, Sm!Refused
<1>5. CASE SmcReadKeyCount
  BY <1>5, ReadKeeps DEF SmcReadKeyCount
<1> QED
  BY <1>2, <1>3, <1>4, <1>5 DEF SmcNext

LEMMA SmcBoot ==
  Sm!SmcInit \in SmcT /\ Answers(Sm!SmcInit.keys, NoKeys)
<1>1. /\ <<<<"clkh">>, <<"clkh2">>>> \in Data /\ <<<<"rgen">>, Sm!Zero>> \in Data
  BY DEF Data, Token
<1>2. PICK a, b, c, d, e, f :
        /\ a = Sm!Entry("NKEY", 1, TRUE, FALSE, Sm!Blank)
        /\ b = Sm!Entry("CLKH", 2, TRUE, FALSE, <<<<"clkh">>, <<"clkh2">>>>)
        /\ c = Sm!Entry("RGEN", 1, TRUE, FALSE, <<<<"rgen">>, Sm!Zero>>)
        /\ d = Sm!Entry("ADC", 1, TRUE, FALSE, Sm!Blank)
        /\ e = Sm!Entry("MBSE", 1, FALSE, TRUE, Sm!Blank)
        /\ f = Sm!Entry("NESN", 1, FALSE, TRUE, Sm!Blank)
  OBVIOUS
<1>3. {a, b, c, d, e, f} \subseteq KeyEntry
  BY <1>1, <1>2, BlankTyped DEF Sm!Entry, KeyEntry, Sm!Key, Sm!BootKey
<1>4. /\ a.key = "NKEY" /\ b.key = "CLKH" /\ c.key = "RGEN"
      /\ d.key = "ADC" /\ e.key = "MBSE" /\ f.key = "NESN" /\ ~a.writable
  BY <1>2 DEF Sm!Entry
<1>5. PICK keys : keys = <<a, b, c, d, e, f>>
  OBVIOUS
<1>6. /\ keys \in Seq(KeyEntry) /\ Len(keys) = 6 /\ DOMAIN keys = 1..6
      /\ keys[1] = a /\ keys[2] = b /\ keys[3] = c /\ keys[4] = d /\ keys[5] = e
      /\ keys[6] = f
  BY <1>3, <1>5
<1>7. Sm!SmcInit = [sram |-> Sm!Blank, keys |-> keys] /\ keys = Sm!SmcInit.keys
  BY <1>2, <1>5 DEF Sm!SmcInit
<1>8. Sm!SmcInit \in SmcT
  BY <1>6, <1>7, BlankTyped DEF SmcT
<1>9. \A i, j \in DOMAIN keys : keys[i].key = keys[j].key => i = j
  BY <1>4, <1>6
<1>10. Len(keys) \in 1..MaxKeys
  <2>1. MaxKeys \in Nat /\ MaxKeys >= Len(Sm!SmcInit.keys)
    BY M1MachineAssumption
  <2>2. PICK n : n = Len(Sm!SmcInit.keys)
    OBVIOUS
  <2>3. n = 6
    BY <1>6, <1>7, <2>2
  <2> QED
    BY <1>6, <2>1, <2>2, <2>3
<1>11. DOMAIN NoKeys = {}
  BY DEF NoKeys
<1>12. \A i \in DOMAIN keys : keys[i] = BootEntry(i)
  BY <1>7 DEF BootEntry
<1>13. Answers(keys, NoKeys)
  BY <1>4, <1>6, <1>9, <1>10, <1>11, <1>12 DEF Answers
<1> QED
  BY <1>7, <1>8, <1>13

LEMMA SmcTruth == SmcInv => KeysReadBack
BY DEF SmcInv, Answers, KeysReadBack, Value, AtBoot, BootEntry

-----------------------------------------------------------------------------
(* The steps of the machine, seen from each device. *)

LEMMA BridgeStaysReady == DeviceNext => ready' = ready
BY DEF DeviceNext, AicWriteReset, AicReadEvent, AicWriteTarget, AicWriteBank,
   HostSetLine, AicOnly, TimerAdvance, TimerWriteCompare, TimerWriteCtl,
   StorageAttach, StorageDetach, AdpConfigure, AdpWritePresent, AdpWriteDisable,
   AdpWriteAck, RecoveryIngest, RecoveryClear, DartSimulateFault,
   DartWriteErrorStatus, DartWriteConfig, UartPushRx, UartReadRx, UartWriteTx,
   UartWriteStatus, UartWriteFifoControl, SepWriteMsgIn, SepReadMsgOut, Synced, Quiet,
   AnsEnableIdentifyPath, AnsSubmitAdminIdentify, AnsDrainAdminCq, AnsBindPci,
   AnsUnbindPci, AnsMaskAdminIrq, AnsDrives, PciBindAic, PciUnbindAic,
   PciBindMsiGpa, PciUnbindMsiGpa, PciSetIrq, PciPrepareMsix, PciPrepareMsi,
   PciSynced, PciStep

LEMMA GxfLeavesBoard == GxfNext => UNCHANGED <<ready, smcVars, sart, gpioVars>>
BY DEF GxfNext, GxfWriteAlias, GxfWriteGuarded, GxfWriteAspsr, GxfWriteConfig,
   GxfSetHcr, GxfWriteHcr, GxfWriteLock, GxfSetLock, GxfWriteCtl, GxfGenter,
   GxfAbort, GxfTakeException, GxfTcgExec, GxfGexit, GxfWriteSprr, GxfWriteMprr,
   GxfBindGuestTlb, GxfOnly, vars

LEMMA SmcLeavesRest == SmcNext => UNCHANGED <<vars, gxfVars, sart, gpioVars>>
BY DEF SmcNext, SmcReadKey, SmcGetKeyInfo, SmcWriteKey, SmcGetKeyByIndex,
   SmcGetSramAddr, SmcBadCommand, SmcReadKeyCount, SmcMessage, SmcStep

LEMMA BoardLeavesRest == BoardNext => UNCHANGED <<vars, gxfVars, smcVars>>
BY DEF BoardNext, SartWrite, GpioWriteCfg, GpioSetIn, GpioWriteInt, GpioStep

LEMMA GxfMoves ==
  ASSUME MachineNext
  PROVE  MachineReset \/ GxfNext \/ UNCHANGED <<ready, gxfVars>>
BY BridgeStaysReady, SmcLeavesRest, BoardLeavesRest DEF MachineNext, sideVars, vars

LEMMA BoardMoves ==
  ASSUME MachineNext
  PROVE  MachineReset \/ BoardNext \/ UNCHANGED <<sart, gpioVars>>
BY GxfLeavesBoard, SmcLeavesRest DEF MachineNext, sideVars

LEMMA SmcMoves ==
  ASSUME SmcBound, [MachineNext]_machineVars
  PROVE  SmcBound'
<1>1. CASE MachineReset
  BY <1>1, SmcBoot DEF MachineReset, MmioReset, SmcBound, SmcInv
<1>2. CASE SmcNext
  <2>1. ready /\ ready' = ready
    BY <1>2, SmcLeavesRest DEF SmcNext, SmcReadKey, SmcGetKeyInfo, SmcWriteKey,
       SmcGetKeyByIndex, SmcGetSramAddr, SmcBadCommand, SmcReadKeyCount, SmcMessage,
       SmcStep, Drives, vars
  <2> QED
    BY <1>2, <2>1, SmcKeeps DEF SmcBound
<1>3. CASE UNCHANGED <<ready, smcVars>>
  BY <1>3 DEF smcVars, SmcInv, SmcBound
<1> QED
  BY <1>1, <1>2, <1>3, BridgeStaysReady, GxfLeavesBoard, BoardLeavesRest
     DEF MachineNext, machineVars, sideVars, vars

LEMMA BoardKeeps ==
  ASSUME sart \in SartT, GpioInv, BoardNext
  PROVE  sart' \in SartT /\ SartStep /\ GpioInv'
<1>1. ASSUME UNCHANGED gpioVars PROVE GpioInv'
  BY <1>1 DEF gpioVars, GpioInv, GpioLineTrue
<1>2. ASSUME NEW i \in Regions, NEW bank, NEW value, SartWritten(bank, value),
             SartWrite(bank, i, value)
      PROVE  sart' \in SartT /\ SartStep /\ GpioInv'
  <2>1. UNCHANGED gpioVars
    BY <1>2 DEF SartWrite
  <2> QED
    BY <1>1, <1>2, <2>1, SartWriteKeeps
<1>3. ASSUME NEW i \in Regions, NEW word \in Sa!SizeWord, SartWrite("size", i, word)
      PROVE  sart' \in SartT /\ SartStep /\ GpioInv'
  <2>1. word \in [size : Int, flags : BOOLEAN]
    BY M1MachineAssumption DEF Sa!SizeWord
  <2> QED
    BY <1>2, <1>3, <2>1 DEF SartWritten
<1>4. ASSUME NEW i \in Regions, NEW bank \in {"addr", "size3"}, NEW page \in Pages,
             SartWrite(bank, i, page)
      PROVE  sart' \in SartT /\ SartStep /\ GpioInv'
  <2>1. page \in Int
    BY M1MachineAssumption
  <2> QED
    BY <1>2, <1>4, <2>1 DEF SartWritten
<1>5. ASSUME GpioInv', sart' = sart
      PROVE  sart' \in SartT /\ SartStep /\ GpioInv'
  BY <1>5 DEF SartStep
<1>6. ASSUME NEW pin \in DOMAIN GpioModes,
             NEW cfg \in [mode : GpioModes[pin], group : Io!Group \cup {Io!Masked}],
             GpioWriteCfg(pin, cfg)
      PROVE  sart' \in SartT /\ SartStep /\ GpioInv'
  <2>1. pin \in Io!Pin /\ cfg \in CfgT
    BY M1MachineAssumption DEF CfgT
  <2>2. sart' = sart
    BY <1>6 DEF GpioWriteCfg, GpioStep
  <2> QED
    BY <1>5, <1>6, <2>1, <2>2, WriteCfgKeeps
<1>7. ASSUME NEW pin \in DOMAIN GpioModes, NEW level \in BOOLEAN, GpioSetIn(pin, level)
      PROVE  sart' \in SartT /\ SartStep /\ GpioInv'
  <2>1. pin \in Io!Pin
    BY M1MachineAssumption
  <2>2. sart' = sart
    BY <1>7 DEF GpioSetIn, GpioStep
  <2> QED
    BY <1>5, <1>7, <2>1, <2>2, SetInKeeps
<1>8. ASSUME NEW g \in Io!Group, NEW bits, GpioWriteInt(g, bits)
      PROVE  sart' \in SartT /\ SartStep /\ GpioInv'
  <2>1. sart' = sart
    BY <1>8 DEF GpioWriteInt, GpioStep
  <2> QED
    BY <1>5, <1>8, <2>1, WriteIntKeeps
<1> QED
  BY <1>3, <1>4, <1>6, <1>7, <1>8 DEF BoardNext

LEMMA BoardInitial == MachineInit => sart \in SartT /\ GpioInv
<1> SUFFICES ASSUME MachineInit PROVE sart \in SartT /\ GpioInv
  OBVIOUS
<1>1. sart \in SartT
  BY SartTyped DEF MachineInit
<1>2. gpio = Io!GpioInit /\ lines = [g \in Io!Group |-> FALSE] /\ edges = {}
  BY DEF MachineInit
<1>3. [mode |-> "GP", group |-> Io!Masked] \in CfgT
  BY DEF CfgT, Io!Mode
<1>4. gpio \in GpioT /\ gpio.old = gpio.in /\ \A g \in Io!Group : gpio.int[g] = {}
  BY <1>2, <1>3 DEF Io!GpioInit, GpioT
<1> QED
  BY <1>1, <1>2, <1>4 DEF GpioInv, GpioLineTrue, Io!GroupActive

LEMMA SideStep ==
  ASSUME SideInv, [MachineNext]_machineVars
  PROVE  /\ SideInv'
         /\ MachineReset \/ BanksKept \/ gxf' = gxf
         /\ AnnounceStep /\ SartStep
<1>1. CASE MachineNext
  <2>1. GuardInv' /\ AnnounceStep /\ (MachineReset \/ BanksKept \/ gxf' = gxf)
    BY <1>1, GxfMoves, GxfReset, GxfSteps, GxfRest DEF SideInv
  <2>2. sart' \in SartT /\ SartStep /\ GpioInv'
    <3>1. CASE MachineReset
      <4>1. sart' \in SartT
        BY <3>1, SartTyped DEF MachineReset
      <4>2. GpioInv'
        BY <3>1 DEF MachineReset, gpioVars, SideInv, GpioInv, GpioLineTrue
      <4> QED
        BY <3>1, <4>1, <4>2 DEF SartStep
    <3>2. CASE BoardNext
      BY <3>2, BoardKeeps DEF SideInv
    <3>3. CASE UNCHANGED <<sart, gpioVars>>
      BY <3>3 DEF gpioVars, SideInv, GpioInv, GpioLineTrue, SartStep
    <3> QED
      BY <1>1, <3>1, <3>2, <3>3, BoardMoves
  <2> QED
    BY <2>1, <2>2 DEF SideInv
<1>2. CASE UNCHANGED machineVars
  <2>1. UNCHANGED <<ready, gxfVars>> /\ UNCHANGED <<sart, gpioVars>>
    BY <1>2 DEF machineVars, sideVars, vars
  <2>2. GuardInv' /\ AnnounceStep /\ gxf' = gxf
    BY <2>1, GxfRest DEF SideInv
  <2>3. sart' \in SartT /\ SartStep /\ GpioInv'
    BY <2>1 DEF gpioVars, SideInv, GpioInv, GpioLineTrue, SartStep
  <2> QED
    BY <2>2, <2>3 DEF SideInv
<1> QED
  BY <1>1, <1>2

LEMMA SmcInitial == MachineInit => SmcBound
BY DEF MachineInit, Init, SmcBound

-----------------------------------------------------------------------------
(* The side devices' inductive invariant holds in every reachable state.   *)
THEOREM SideInvariant == Spec => []SideInv
<1>1. MachineInit => SideInv
  BY GuardInitial, BoardInitial DEF SideInv
<1>2. SideInv /\ [MachineNext]_machineVars => SideInv'
  BY SideStep
<1> QED
  BY <1>1, <1>2, PTL DEF Spec

(* The exit from guarded mode undoes the latest entry, however many aborts *)
(* nested on it, and NEST never outlives guarded mode                      *)
(* (apple_gxf_v1.c:272-315, 360-374).                                      *)
THEOREM ExitGoesBack == Spec => []ExitUndoesEntry
<1>1. SideInv => ExitUndoesEntry
  BY DEF SideInv, GuardInv
<1> QED
  BY SideInvariant, <1>1, PTL

(* The normal and the guarded bank never leak into each other, for every   *)
(* register value (apple_gxf_v1.c:13-16, 89-146, 317-358).                 *)
THEOREM BanksNeverLeak == Spec => BanksSeparate
<1> DEFINE A == gxf' # gxf /\ ~MachineReset =>
                  /\ gxf'.guarded = gxf'.status
                  /\ gxf.guarded => gxf'.el = gxf.el
                  /\ ~gxf.guarded /\ ~gxf'.guarded => gxf'.gl = gxf.gl
<1>1. SideInv /\ [MachineNext]_machineVars => [A]_machineVars
  BY SideStep DEF BanksKept
<1>2. [][A]_machineVars => BanksSeparate
  BY PTL DEF BanksSeparate
<1> QED
  BY SideInvariant, <1>1, <1>2, PTL DEF Spec

(* A VMSA lock holds at EL1 and no guest write drops one                   *)
(* (apple_gxf_v1.c:51-57, 104-114, 472-503).                               *)
THEOREM LocksAreKept == Spec => LocksHold
<1>1. SideInv /\ [MachineNext]_machineVars => [LocksStep]_machineVars
  BY LocksKept DEF SideInv
<1>2. [][LocksStep]_machineVars => LocksHold
  BY PTL DEF LocksStep, LocksHold
<1> QED
  BY SideInvariant, <1>1, <1>2, PTL DEF Spec

(* A permission change from EL0 flushes the CPU bound last, exactly once   *)
(* and no other, for any number of CPUs bound in any order around resets,  *)
(* and changes no bit the mask denies (apple_gxf_v1.c:148-178,             *)
(* preos_bridge.c:80-86, 434-437, 894-899).                                *)
THEOREM ChangeReachesCpu == Spec => ChangeAnnounced
<1>1. SideInv /\ [MachineNext]_machineVars => [AnnounceStep]_machineVars
  BY SideStep
<1>2. [][AnnounceStep]_machineVars => ChangeAnnounced
  BY PTL DEF AnnounceStep, ChangeAnnounced
<1> QED
  BY SideInvariant, <1>1, <1>2, PTL DEF Spec

(* While the generation stands still no page changes the region it hits,   *)
(* for every number of regions and pages (sart_v1.c:14-23, 51-56, 99-124). *)
THEOREM GenerationIsCacheKey == Spec => SartCacheable
<1>1. SideInv /\ [MachineNext]_machineVars => [SartStep]_machineVars
  BY SideStep
<1>2. [][SartStep]_machineVars => SartCacheable
  BY PTL DEF SartStep, SartCacheable
<1> QED
  BY SideInvariant, <1>1, <1>2, PTL DEF Spec

(* A group's reported level is whether it has a pending bit, and an edge   *)
(* stays pending until that very bit is cleared, for every number of pins, *)
(* groups and bits in a word (apple_gpio_v1.c:22-45, 62-132).              *)
THEOREM LevelsAreTrue == Spec => []GpioLineTrue
<1>1. SideInv => GpioLineTrue
  BY DEF SideInv, GpioInv
<1> QED
  BY SideInvariant, <1>1, PTL
(* The key table is a map of what the guest stored: no key twice, never    *)
(* more than it has room for, and a key that was written reads back with   *)
(* the length and value of its last write, whatever went through the       *)
(* shared SRAM in between (apple_smc_v1.c:17-92, 179-205).                 *)
THEOREM KeysAreKept == Spec => []KeysReadBack
<1>1. MachineInit => SmcBound
  BY SmcInitial
<1>2. SmcBound /\ [MachineNext]_machineVars => SmcBound'
  BY SmcMoves
<1>3. SmcBound => KeysReadBack
  <2>1. ASSUME smc.keys = <<>>, stored = NoKeys PROVE KeysReadBack
    <3>1. Len(smc.keys) = 0 /\ DOMAIN smc.keys = {} /\ DOMAIN stored = {} /\ MaxKeys \in Nat
      BY <2>1, M1MachineAssumption DEF NoKeys
    <3> QED
      BY <3>1 DEF KeysReadBack
  <2> QED
    BY <2>1, SmcTruth DEF SmcBound
<1> QED
  BY <1>1, <1>2, <1>3, PTL DEF Spec

=============================================================================
