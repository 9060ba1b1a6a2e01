--------------------------- MODULE AnsStackProofs ---------------------------
(***************************************************************************)
(* The storage function for every doorbell width.                          *)
(*                                                                         *)
(* The invariant places the completion tail at the head plus what is not   *)
(* drained, once around at most, and ties the interrupt status to it.      *)
(* What the chain of gates lets through needs the types of its flags only: *)
(* no link is trusted before it is recomputed.                             *)
(***************************************************************************)
EXTENDS AnsStack, TLAPS

Modulus == DbMask + 1

AnsT == [en : BOOLEAN, sqt : Nvme!Doorbell, cqh : Nvme!Doorbell,
         tail : Nvme!Doorbell, phase : {0, 1}, intm : BOOLEAN, irq : BOOLEAN,
         armed : BOOLEAN, pci : BOOLEAN,
         asq : {"UNBOUND", "ALIGNED", "SPLIT", "BAD"},
         acq : AcqSizes \cup {Nvme!NoAcq}, prp : SUBSET {1, 2}]
MboxT == [started : BOOLEAN, pending : BOOLEAN, linked : BOOLEAN,
          reply : {"NONE", "ANNOUNCE", "PING_ACK", "STATUS_REPLY", "L1_REJECT"}]
AscT == [ready : BOOLEAN, linked : BOOLEAN]
BootT == [armed : BOOLEAN, linked : BOOLEAN, written : BOOLEAN]

AnsType == ans \in AnsT

ChainType ==
  /\ mbox \in MboxT /\ asc \in AscT /\ boot \in BootT
  /\ gates \in [mbox : BOOLEAN, asc : BOOLEAN, boot : BOOLEAN]

\* The tail is the head plus the completions nobody drained.
QueueSound ==
  /\ undrained \in 0..DbMask
  /\ ans.tail \in {ans.cqh + undrained, ans.cqh + undrained - Modulus}
  /\ ans.irq <=> undrained > 0

StackInv == AnsType /\ ChainType /\ QueueSound

-----------------------------------------------------------------------------
LEMMA ModBelow ==
  ASSUME NEW x \in 0..(2 * Modulus - 1)
  PROVE  x % Modulus = IF x < Modulus THEN x ELSE x - Modulus
BY AnsStackAssumption DEF Modulus

LEMMA ModNegative ==
  ASSUME NEW D \in Nat \ {0}, NEW x \in (1 - D)..(D - 1)
  PROVE  x % D = IF x < 0 THEN x + D ELSE x
OBVIOUS

(* The stub's distance from head to tail, computed modulo the doorbell     *)
(* width, is the number of completions not drained (ans_v1.c:149-157).     *)
LEMMA DistanceIsUndrained ==
  ASSUME AnsType, QueueSound
  PROVE  QueueAgrees
<1>1. Modulus \in Nat \ {0} /\ Modulus = DbMask + 1
  BY AnsStackAssumption DEF Modulus
<1>2. ans.tail \in 0..DbMask /\ ans.cqh \in 0..DbMask
  BY DEF AnsType, AnsT, Nvme!Doorbell
<1>3. ans.tail - ans.cqh \in (1 - Modulus)..(Modulus - 1)
  BY <1>1, <1>2, AnsStackAssumption
<1>4. (ans.tail - ans.cqh) % Modulus =
        IF ans.tail - ans.cqh < 0 THEN ans.tail - ans.cqh + Modulus
        ELSE ans.tail - ans.cqh
  BY <1>1, <1>3, ModNegative
<1>5. (ans.tail - ans.cqh) % Modulus = undrained
  BY <1>1, <1>2, <1>4, AnsStackAssumption DEF QueueSound
<1> QED
  BY <1>1, <1>5 DEF QueueAgrees, QueueSound

LEMMA StackInitInv == Init => StackInv
<1> SUFFICES ASSUME Init PROVE StackInv
  OBVIOUS
<1>1. AnsType
  BY AnsStackAssumption DEF Init, Nvme!AnsInit, AnsType, AnsT, Nvme!Doorbell
<1>2. ChainType
  BY DEF Init, ChainType, MboxT, AscT, BootT, MboxInit, AscInit, BootInit
<1>3. QueueSound
  BY AnsStackAssumption DEF Init, Nvme!AnsInit, QueueSound
<1> QED
  BY <1>1, <1>2, <1>3 DEF StackInv

(* Looking at a link keeps its type and recomputes its flag.               *)
LEMMA Seen ==
  /\ \A m \in MboxT : \A p :
       /\ MboxSeen(m, p) \in MboxT
       /\ MboxSeen(m, p).started <=> m.started /\ (m.linked => p.master)
       /\ MboxSeen(m, p).linked = m.linked
       /\ MboxSeen(m, p).reply = m.reply
  /\ \A s \in AscT : \A m \in MboxT :
       /\ AscSeen(s, m) \in AscT
       /\ AscSeen(s, m).ready <=> s.linked /\ m.started
       /\ AscSeen(s, m).linked = s.linked
  /\ \A b \in BootT : \A s \in AscT :
       /\ BootSeen(b, s) \in BootT
       /\ BootSeen(b, s).armed <=> b.linked /\ s.ready
       /\ BootSeen(b, s).linked = b.linked
       /\ BootSeen(b, s).written = b.written
<1>1. ASSUME NEW m \in MboxT, NEW p
      PROVE  /\ MboxSeen(m, p) \in MboxT
             /\ MboxSeen(m, p).started <=> m.started /\ (m.linked => p.master)
             /\ MboxSeen(m, p).linked = m.linked
             /\ MboxSeen(m, p).reply = m.reply
  BY DEF MboxSeen, MboxT
<1>2. ASSUME NEW s \in AscT, NEW m \in MboxT
      PROVE  /\ AscSeen(s, m) \in AscT
             /\ AscSeen(s, m).ready <=> s.linked /\ m.started
             /\ AscSeen(s, m).linked = s.linked
  BY DEF AscSeen, AscT, MboxT
<1>3. ASSUME NEW b \in BootT, NEW s \in AscT
      PROVE  /\ BootSeen(b, s) \in BootT
             /\ BootSeen(b, s).armed <=> b.linked /\ s.ready
             /\ BootSeen(b, s).linked = b.linked
             /\ BootSeen(b, s).written = b.written
  BY DEF BootSeen, BootT, AscT
<1> QED
  BY <1>1, <1>2, <1>3

(* The gates as they are tried: what they leave behind has its type, and   *)
(* they are open only over links that are up now (ans_v1.c:445-460).       *)
LEMMA GatesSound ==
  ASSUME ChainType
  PROVE  /\ DmaGates.mbox \in MboxT /\ DmaGates.asc \in AscT /\ DmaGates.boot \in BootT
         /\ DmaGates.mbox.reply = mbox.reply /\ DmaGates.boot.written = boot.written
         /\ DmaGates.open => /\ ans.pci => pci.master
                             /\ gates.mbox => Started
                             /\ gates.asc => Ready
                             /\ gates.boot => Armed
<1> DEFINE look2 == HostGate /\ gates.mbox
           m2 == IF look2 THEN MboxSeen(mbox, pci) ELSE mbox
           ok2 == HostGate /\ (gates.mbox => m2.started)
           look3 == ok2 /\ gates.asc
           m3 == IF look3 /\ asc.linked THEN MboxSeen(m2, pci) ELSE m2
           s3 == IF look3 THEN AscSeen(asc, m3) ELSE asc
           ok3 == ok2 /\ (gates.asc => s3.ready)
           look4 == ok3 /\ gates.boot
           m4 == IF look4 /\ boot.linked /\ asc.linked THEN MboxSeen(m3, pci) ELSE m3
           s4 == IF look4 /\ boot.linked THEN AscSeen(s3, m4) ELSE s3
           b4 == IF look4 THEN BootSeen(boot, s4) ELSE boot
           open == ok3 /\ (gates.boot => b4.armed)
<1>0. DmaGates = [open |-> open, mbox |-> m4, asc |-> s4, boot |-> b4]
  BY DEF DmaGates
<1>1. mbox \in MboxT /\ asc \in AscT /\ boot \in BootT
  BY DEF ChainType
<1>2. /\ m2 \in MboxT /\ m2.linked = mbox.linked /\ m2.reply = mbox.reply
      /\ m2.started => mbox.started
      /\ look2 /\ m2.started => Started
  BY <1>1, Seen DEF Started
<1>3. /\ m3 \in MboxT /\ m3.linked = mbox.linked /\ m3.reply = mbox.reply
      /\ m3.started => mbox.started
      /\ look3 /\ asc.linked /\ m3.started => Started
  <2> HIDE DEF m2, ok2
  <2> QED
    BY <1>2, Seen DEF Started
<1>4. /\ s3 \in AscT /\ s3.linked = asc.linked
      /\ look3 /\ s3.ready => Ready
  <2> HIDE DEF m3, ok2
  <2> QED
    BY <1>1, <1>3, Seen DEF Ready
<1>5. /\ m4 \in MboxT /\ m4.reply = mbox.reply
      /\ look4 /\ boot.linked /\ asc.linked /\ m4.started => Started
  <2> HIDE DEF m3, ok3
  <2> QED
    BY <1>3, Seen DEF Started
<1>6. /\ s4 \in AscT
      /\ look4 /\ boot.linked /\ s4.ready => Ready
  <2> HIDE DEF m4, s3, ok3
  <2> QED
    BY <1>4, <1>5, Seen DEF Ready
<1>7. /\ b4 \in BootT /\ b4.written = boot.written
      /\ look4 /\ b4.armed => Armed
  <2> HIDE DEF s4, ok3
  <2> QED
    BY <1>1, <1>6, Seen DEF Armed
<1>8. open => /\ ans.pci => pci.master
              /\ gates.mbox => Started
              /\ gates.asc => Ready
              /\ gates.boot => Armed
  <2>1. open => HostGate /\ (gates.mbox => m2.started) /\ (gates.asc => s3.ready)
                /\ (gates.boot => b4.armed)
    OBVIOUS
  <2>2. open => (gates.asc => look3) /\ (gates.boot => look4)
    OBVIOUS
  <2> HIDE DEF m2, s3, b4, look3, look4, open
  <2> QED
    BY <1>2, <1>4, <1>7, <2>1, <2>2 DEF HostGate
<1> HIDE DEF m4, s4, b4, open
<1> QED
  BY <1>0, <1>5, <1>6, <1>7, <1>8

-----------------------------------------------------------------------------
(* The steps.                                                              *)

\* What ActsOnlyWhenLive says of one step.
LiveStep ==
  /\ undrained' > undrained =>
       /\ ans.pci => pci.master
       /\ gates.mbox => Started
       /\ gates.asc => Ready
       /\ gates.boot => Armed
  /\ mbox'.reply \notin {mbox.reply, "ANNOUNCE"} => Started
  /\ boot'.written # boot.written => (boot.linked => Armed)

\* A step that posts and drains nothing.
SameQueue ==
  ans'.cqh = ans.cqh /\ ans'.tail = ans.tail /\ ans'.irq = ans.irq
  /\ undrained' = undrained

(* Arming, masking and binding change no index of the queue.               *)
LEMMA QuietKeeps ==
  ASSUME StackInv,
         \/ ArmIdentify \/ DisarmIdentify \/ AnsBindPci \/ AnsUnbindPci
         \/ \E b \in BOOLEAN : WriteIntMask(b)
         \/ \E asq \in {"UNBOUND", "ALIGNED", "SPLIT", "BAD"} : BindAsq(asq)
         \/ \E slots \in AcqSizes \cup {Nvme!NoAcq} : BindAcq(slots)
         \/ \E page \in {1, 2}, b \in BOOLEAN : BindPrp(page, b)
  PROVE  StackInv' /\ LiveStep
<1> USE DEF StackInv, AnsType, AnsQuiet, AnsStep
<1>1. UNCHANGED <<mbox, asc, boot, gates, undrained>>
  BY DEF ArmIdentify, DisarmIdentify, AnsBindPci, AnsUnbindPci, WriteIntMask, BindAsq,
         BindAcq, BindPrp
<1>2. ans' \in AnsT /\ SameQueue
  <2> USE DEF AnsT, SameQueue
  <2>1. CASE ArmIdentify \/ DisarmIdentify
    BY <1>1, <2>1 DEF ArmIdentify, DisarmIdentify, Nvme!ArmIdentify, Nvme!DisarmIdentify
  <2>2. CASE AnsBindPci \/ AnsUnbindPci
    BY <1>1, <2>2 DEF AnsBindPci, AnsUnbindPci
  <2>3. CASE \E b \in BOOLEAN : WriteIntMask(b)
    BY <1>1, <2>3 DEF WriteIntMask, Nvme!MaskIrq
  <2>4. CASE \E asq \in {"UNBOUND", "ALIGNED", "SPLIT", "BAD"} : BindAsq(asq)
    BY <1>1, <2>4 DEF BindAsq, Nvme!BindAsq
  <2>5. CASE \E slots \in AcqSizes \cup {Nvme!NoAcq} : BindAcq(slots)
    BY <1>1, <2>5 DEF BindAcq, Nvme!BindAcq
  <2>6. CASE \E page \in {1, 2}, b \in BOOLEAN : BindPrp(page, b)
    BY <1>1, <2>6 DEF BindPrp, Nvme!BindPrp
  <2> QED
    BY <2>1, <2>2, <2>3, <2>4, <2>5, <2>6
<1>3. QueueSound' /\ ChainType'
  BY <1>1, <1>2 DEF SameQueue, QueueSound, ChainType, Modulus
<1>4. LiveStep
  BY <1>1 DEF LiveStep, QueueSound
<1> QED
  BY <1>2, <1>3, <1>4

(* Enabling keeps the queue; clearing CC.EN empties it (ans_v1.c:312-330). *)
LEMMA WriteCcKeeps ==
  ASSUME StackInv, NEW en \in BOOLEAN, WriteCc(en)
  PROVE  StackInv' /\ LiveStep
<1> USE DEF StackInv, AnsType
<1>1. /\ ans' = Nvme!ApplyCcEnable(ans, en)
      /\ undrained' = IF en THEN undrained ELSE 0
      /\ UNCHANGED <<mbox, asc, boot, gates>>
  BY DEF WriteCc, AnsStep, chain
<1>2. CASE en
  <2>1. ans' \in AnsT /\ SameQueue
    BY <1>1, <1>2 DEF AnsT, SameQueue, Nvme!ApplyCcEnable
  <2>2. QueueSound'
    BY <2>1 DEF SameQueue, QueueSound, Modulus
  <2>3. ChainType' /\ LiveStep
    BY <1>1, <2>1 DEF SameQueue, QueueSound, ChainType, LiveStep
  <2> QED
    BY <2>1, <2>2, <2>3
<1>3. CASE ~en
  <2>1. ans' = [ans EXCEPT !.en = FALSE, !.sqt = 0, !.cqh = 0, !.tail = 0, !.phase = 1,
                           !.intm = FALSE, !.irq = FALSE, !.armed = FALSE]
    BY <1>1, <1>3 DEF Nvme!ApplyCcEnable
  <2>2. 0 \in Nvme!Doorbell
    BY AnsStackAssumption DEF Nvme!Doorbell
  <2>3. ans' \in AnsT /\ ans'.cqh = 0 /\ ans'.tail = 0 /\ ans'.irq = FALSE
    BY <2>1, <2>2 DEF AnsT
  <2>4. undrained' = 0
    BY <1>1, <1>3
  <2>5. QueueSound'
    BY <2>3, <2>4, AnsStackAssumption DEF QueueSound
  <2> QED
    BY <1>1, <2>3, <2>4, <2>5 DEF ChainType, LiveStep, QueueSound
<1> QED
  BY <1>2, <1>3

(* A completion is posted through open gates only, and moves the tail by   *)
(* one, around the end too (ans_v1.c:139-145).                             *)
LEMMA WriteSqTailKeeps ==
  ASSUME StackInv, NEW tail \in Nvme!Doorbell, WriteSqTail(tail)
  PROVE  StackInv' /\ LiveStep
<1> USE DEF StackInv, AnsType
<1> DEFINE posts == Nvme!Completes(ans, tail, DmaGates.open)
           rung == [ans EXCEPT !.sqt = tail, !.armed = @ /\ ~Nvme!Fires(ans, tail)]
<1>0. DbMask \in Nat \ {0} /\ Modulus = DbMask + 1
  BY AnsStackAssumption DEF Modulus
<1>1. /\ undrained < DbMask
      /\ ans' = IF posts THEN Nvme!PostCqe(rung) ELSE rung
      /\ undrained' = IF posts THEN undrained + 1 ELSE undrained
      /\ gates' = gates
      /\ mbox' \in {mbox, DmaGates.mbox}
      /\ asc' \in {asc, DmaGates.asc}
      /\ boot' \in {boot, DmaGates.boot}
  <2>1. undrained < (IF part = "queue" THEN DbMask ELSE 1)
    BY DEF WriteSqTail
  <2>2. undrained < DbMask
    BY <1>0, <2>1 DEF QueueSound
  <2>3. ans' = Nvme!DoorbellSq(ans, tail, DmaGates.open) /\ gates' = gates
    BY DEF WriteSqTail, AnsStep
  <2> QED
    BY <2>2, <2>3 DEF WriteSqTail, Nvme!DoorbellSq
<1>2. /\ rung \in AnsT /\ rung.cqh = ans.cqh /\ rung.tail = ans.tail
      /\ rung.irq = ans.irq
  BY DEF AnsT
<1>3. ChainType'
  BY <1>1, GatesSound DEF ChainType
<1>4. mbox'.reply = mbox.reply /\ boot'.written = boot.written
  BY <1>1, GatesSound
<1>5. CASE posts
  <2>1. PICK r \in AnsT : r = rung
    BY <1>2
  <2>2. ans' = [r EXCEPT !.phase = 1 - @, !.tail = Nvme!Bump(@), !.irq = TRUE]
    BY <1>1, <1>5, <2>1 DEF Nvme!PostCqe
  <2>3. /\ r.tail \in 0..DbMask /\ r.cqh \in 0..DbMask /\ 1 - r.phase \in {0, 1}
        /\ r.tail = ans.tail /\ r.cqh = ans.cqh
    BY <1>2, <2>1 DEF AnsT, Nvme!Doorbell
  <2>4. Nvme!Bump(r.tail) = IF r.tail = DbMask THEN 0 ELSE r.tail + 1
    <3>1. PICK x \in 0..(2 * Modulus - 1) : x = r.tail + 1
      BY <1>0, <2>3
    <3>2. x % Modulus = IF x < Modulus THEN x ELSE x - Modulus
      BY ModBelow
    <3>3. Nvme!Bump(r.tail) = x % Modulus
      BY <3>1 DEF Nvme!Bump, Modulus
    <3> QED
      BY <1>0, <2>3, <3>1, <3>2, <3>3
  <2>5. Nvme!Bump(r.tail) \in Nvme!Doorbell
    BY <1>0, <2>3, <2>4 DEF Nvme!Doorbell
  <2>6. /\ ans' \in AnsT /\ ans'.cqh = ans.cqh /\ ans'.tail = Nvme!Bump(r.tail)
        /\ ans'.irq = TRUE
    BY <2>2, <2>3, <2>5 DEF AnsT
  <2>7. undrained' = undrained + 1
    BY <1>1, <1>5
  <2>8. QueueSound'
    BY <1>0, <1>1, <2>3, <2>4, <2>6, <2>7 DEF QueueSound, Modulus
  <2>9. DmaGates.open
    BY <1>5 DEF Nvme!Completes
  <2> QED
    BY <1>3, <1>4, <2>6, <2>8, <2>9, GatesSound DEF LiveStep
<1>6. CASE ~posts
  <2>1. ans' \in AnsT /\ SameQueue
    <3> HIDE DEF posts, rung
    <3> QED
      BY <1>1, <1>2, <1>6 DEF SameQueue
  <2> QED
    BY <1>3, <1>4, <2>1 DEF SameQueue, QueueSound, LiveStep, Modulus
<1> QED
  BY <1>5, <1>6

(* The host drains what was posted: the interrupt status falls exactly     *)
(* with the last completion (ans_v1.c:149-157).                            *)
LEMMA WriteCqHeadKeeps ==
  ASSUME StackInv, NEW n \in Nvme!Doorbell, WriteCqHead(n)
  PROVE  StackInv' /\ LiveStep
<1> USE DEF StackInv, AnsType
<1>0. DbMask \in Nat \ {0} /\ Modulus = DbMask + 1
  BY AnsStackAssumption DEF Modulus
<1>1. /\ n <= undrained /\ undrained' = undrained - n
      /\ ans' = Nvme!DoorbellCq(ans, (ans.cqh + n) % (DbMask + 1))
      /\ UNCHANGED <<mbox, asc, boot, gates>>
  BY DEF WriteCqHead, AnsStep, chain
<1>2. ans.tail \in 0..DbMask /\ ans.cqh \in 0..DbMask /\ n \in 0..DbMask
  BY DEF AnsT, Nvme!Doorbell
<1>3. PICK h \in Int : h = (ans.cqh + n) % (DbMask + 1)
  BY <1>0, <1>2
<1>4. h = IF ans.cqh + n <= DbMask THEN ans.cqh + n ELSE ans.cqh + n - Modulus
  <2>1. PICK x \in 0..(2 * Modulus - 1) : x = ans.cqh + n
    BY <1>0, <1>2
  <2>2. x % Modulus = IF x < Modulus THEN x ELSE x - Modulus
    BY ModBelow
  <2>3. h = x % Modulus
    BY <1>3, <2>1 DEF Modulus
  <2> QED
    BY <1>0, <1>2, <2>1, <2>2, <2>3
<1>5. h \in Nvme!Doorbell
  BY <1>0, <1>2, <1>4 DEF Nvme!Doorbell
<1>6. /\ ans' \in AnsT /\ ans'.cqh = h /\ ans'.tail = ans.tail
      /\ ans'.irq <=> ans.irq /\ h # ans.tail
  BY <1>1, <1>3, <1>5 DEF AnsT, Nvme!DoorbellCq
<1>7. /\ undrained' \in 0..DbMask
      /\ ans.tail \in {h + undrained', h + undrained' - Modulus}
  <2>1. PICK u \in 0..DbMask : u = undrained
    BY DEF QueueSound
  <2>2. PICK c \in 0..DbMask, t \in 0..DbMask : c = ans.cqh /\ t = ans.tail
    BY <1>2
  <2>3. t \in {c + u, c + u - Modulus} /\ n <= u
    BY <1>1, <2>1, <2>2 DEF QueueSound
  <2>4. u - n \in 0..DbMask /\ t \in {h + (u - n), h + (u - n) - Modulus}
    BY <1>0, <1>2, <1>4, <2>2, <2>3
  <2> QED
    BY <1>1, <2>1, <2>2, <2>4
<1>8. h # ans.tail <=> undrained' > 0
  BY <1>0, <1>2, <1>4, <1>7
<1>9. ans.irq /\ undrained' > 0 <=> undrained' > 0
  BY <1>1, <1>2, <1>7 DEF QueueSound
<1>10. QueueSound'
  BY <1>6, <1>7, <1>8, <1>9 DEF QueueSound, Modulus
<1> QED
  BY <1>1, <1>2, <1>6, <1>10 DEF ChainType, LiveStep, QueueSound

\* A step on the chain and the configuration space, past the NVMe stub.
ChainAction ==
  \/ \E b \in BOOLEAN :
       \/ WriteConfig(b) \/ MboxBindPci(b) \/ AscBindMbox(b) \/ BootBindAsc(b)
       \/ \E g \in {"mbox", "asc", "boot"} : BindGate(g, b)
  \/ \E msg \in Messages : MboxWriteA2I(msg)
  \/ MboxStart \/ MboxReadI2A \/ MboxReadFlags
  \/ AscReadFlags \/ BootReadFlags \/ BootWriteMap

(* A message is answered and the map written only after the links were     *)
(* recomputed and found up (ans_mbox_v1.c:205-210,                         *)
(* ans_autoboot_v1.c:102-117).                                             *)
LEMMA ChainKeeps ==
  ASSUME StackInv, ChainAction
  PROVE  StackInv' /\ LiveStep
<1> USE DEF StackInv
<1>0. UNCHANGED <<ans, undrained>>
  BY DEF ChainAction, WriteConfig, MboxBindPci, AscBindMbox, BootBindAsc, BindGate,
         MboxWriteA2I, MboxStart, MboxReadI2A, MboxReadFlags, AscReadFlags,
         BootReadFlags, BootWriteMap, ChainStep
<1>1. AnsType' /\ QueueSound'
  BY <1>0 DEF AnsType, QueueSound, Modulus
<1>2. mbox \in MboxT /\ asc \in AscT /\ boot \in BootT
  BY DEF ChainType
<1>3. MboxSeen(mbox, pci) \in MboxT /\ MboxSeen(mbox, pci).reply = mbox.reply
      /\ (MboxSeen(mbox, pci).started <=> Started)
  BY <1>2, Seen DEF Started
<1>4. CASE \E b \in BOOLEAN :
             WriteConfig(b) \/ \E g \in {"mbox", "asc", "boot"} : BindGate(g, b)
  BY <1>0, <1>1, <1>4 DEF WriteConfig, BindGate, ChainType, LiveStep, QueueSound
<1>5. CASE \E b \in BOOLEAN : MboxBindPci(b)
  <2>1. PICK b \in BOOLEAN : MboxBindPci(b)
    BY <1>5
  <2>2. PICK m \in MboxT : m = [mbox EXCEPT !.linked = b]
    BY <1>2 DEF MboxT
  <2>3. m.reply = mbox.reply
    BY <1>2, <2>2 DEF MboxT
  <2>4. mbox' = MboxSeen(m, pci) /\ UNCHANGED <<asc, boot, gates>>
    BY <2>1, <2>2 DEF MboxBindPci, ChainStep
  <2>5. mbox' \in MboxT /\ mbox'.reply = mbox.reply
    BY <2>3, <2>4, Seen
  <2> QED
    BY <1>0, <1>1, <2>4, <2>5 DEF ChainType, LiveStep, QueueSound
<1>6. CASE \E msg \in Messages : MboxWriteA2I(msg)
  <2>1. PICK msg \in Messages : MboxWriteA2I(msg)
    BY <1>6
  <2>2. PICK m \in MboxT : m = MboxSeen(mbox, pci)
    BY <1>3
  <2>3. /\ mbox' = IF m.started THEN PostReply(m, ReplyTo(msg)) ELSE m
        /\ UNCHANGED <<asc, boot, gates>>
    BY <2>1, <2>2 DEF MboxWriteA2I, ChainStep
  <2>4. ReplyTo(msg) \in {"PING_ACK", "STATUS_REPLY", "L1_REJECT"}
    BY DEF ReplyTo
  <2>5. PostReply(m, ReplyTo(msg)) \in MboxT
    BY <2>4 DEF PostReply, MboxT
  <2>6. mbox' \in MboxT /\ (mbox'.reply # mbox.reply => Started)
    BY <1>3, <2>2, <2>3, <2>5
  <2> QED
    BY <1>0, <1>1, <2>3, <2>6 DEF ChainType, LiveStep, QueueSound
<1>7. CASE MboxStart
  <2>1. /\ mbox' = PostReply([mbox EXCEPT !.started = TRUE], "ANNOUNCE")
        /\ UNCHANGED <<asc, boot, gates>>
    BY <1>7 DEF MboxStart, ChainStep
  <2>2. mbox' \in MboxT /\ mbox'.reply = "ANNOUNCE"
    BY <1>2, <2>1 DEF PostReply, MboxT
  <2> QED
    BY <1>0, <1>1, <2>1, <2>2 DEF ChainType, LiveStep, QueueSound
<1>8. CASE MboxReadI2A
  <2>1. mbox' = [mbox EXCEPT !.pending = FALSE] /\ UNCHANGED <<asc, boot, gates>>
    BY <1>8 DEF MboxReadI2A, ChainStep
  <2>2. mbox' \in MboxT /\ mbox'.reply = mbox.reply
    BY <1>2, <2>1 DEF MboxT
  <2> QED
    BY <1>0, <1>1, <2>1, <2>2 DEF ChainType, LiveStep, QueueSound
<1>9. CASE MboxReadFlags
  <2>1. mbox' = MboxSeen(mbox, pci) /\ UNCHANGED <<asc, boot, gates>>
    BY <1>9 DEF MboxReadFlags, LookAtMbox, ChainStep
  <2> QED
    BY <1>0, <1>1, <1>3, <2>1 DEF ChainType, LiveStep, QueueSound
<1>10. CASE AscReadFlags \/ \E b \in BOOLEAN : AscBindMbox(b)
  <2>1. PICK s \in AscT : asc' = AscSeen(s, mbox')
    <3>1. \A b \in BOOLEAN : [asc EXCEPT !.linked = b] \in AscT
      BY <1>2 DEF AscT
    <3> QED
      BY <1>2, <1>10, <3>1 DEF AscReadFlags, LookAtAsc, AscBindMbox
  <2>2. mbox' \in {mbox, MboxSeen(mbox, pci)} /\ UNCHANGED <<boot, gates>>
    BY <1>10 DEF AscReadFlags, LookAtAsc, AscBindMbox, ChainStep
  <2>3. mbox' \in MboxT /\ mbox'.reply = mbox.reply
    BY <1>2, <1>3, <2>2
  <2>4. asc' \in AscT
    BY <2>1, <2>3, Seen
  <2> QED
    BY <1>0, <1>1, <2>2, <2>3, <2>4 DEF ChainType, LiveStep, QueueSound
<1>11. CASE BootReadFlags \/ \E b \in BOOLEAN : BootBindAsc(b)
  <2>1. PICK b \in BootT : boot' = BootSeen(b, asc') /\ b.written = boot.written
    <3>1. \A x \in BOOLEAN : /\ [boot EXCEPT !.linked = x] \in BootT
                             /\ [boot EXCEPT !.linked = x].written = boot.written
      BY <1>2 DEF BootT
    <3> QED
      BY <1>2, <1>11, <3>1 DEF BootReadFlags, LookAtBoot, BootBindAsc
  <2>2. /\ mbox' \in {mbox, MboxSeen(mbox, pci)} /\ UNCHANGED gates
        /\ asc' \in {asc, AscSeen(asc, mbox')}
    BY <1>11 DEF BootReadFlags, LookAtBoot, BootBindAsc, ChainStep
  <2>3. mbox' \in MboxT /\ mbox'.reply = mbox.reply
    BY <1>2, <1>3, <2>2
  <2>4. asc' \in AscT
    BY <1>2, <2>2, <2>3, Seen
  <2>5. boot' \in BootT /\ boot'.written = boot.written
    BY <2>1, <2>4, Seen
  <2> QED
    BY <1>0, <1>1, <2>2, <2>3, <2>4, <2>5 DEF ChainType, LiveStep, QueueSound
<1>12. CASE BootWriteMap
  <2>1. /\ mbox' = IF boot.linked /\ asc.linked THEN MboxSeen(mbox, pci) ELSE mbox
        /\ asc' = IF boot.linked THEN AscSeen(asc, mbox') ELSE asc
        /\ gates' = gates
    BY <1>12 DEF BootWriteMap, ChainStep
  <2>2. /\ mbox' \in MboxT /\ mbox'.reply = mbox.reply
        /\ boot.linked /\ asc.linked /\ mbox'.started => Started
    BY <1>2, <1>3, <2>1
  <2>3. /\ asc' \in AscT
        /\ boot.linked /\ asc'.ready => Ready
    BY <1>2, <2>1, <2>2, Seen DEF Ready
  <2>4. PICK b : /\ b = IF boot.linked THEN BootSeen(boot, asc') ELSE boot
                 /\ boot' = [b EXCEPT !.written = @ \/ (b.linked => b.armed)]
    BY <1>12 DEF BootWriteMap
  <2>5. /\ b \in BootT /\ b.linked = boot.linked /\ b.written = boot.written
        /\ boot.linked /\ b.armed => Armed
    BY <1>2, <2>3, <2>4, Seen DEF Armed
  <2>6. boot' \in BootT /\ (boot'.written <=> b.written \/ (b.linked => b.armed))
    BY <2>4, <2>5 DEF BootT
  <2>7. boot'.written # boot.written => (boot.linked => Armed)
    BY <1>2, <2>5, <2>6 DEF BootT
  <2> QED
    BY <1>0, <1>1, <2>1, <2>2, <2>3, <2>6, <2>7 DEF ChainType, LiveStep, QueueSound
<1> QED
  BY <1>4, <1>5, <1>6, <1>7, <1>8, <1>9, <1>10, <1>11, <1>12 DEF ChainAction

LEMMA StackNextKeeps ==
  ASSUME StackInv, [Next]_vars
  PROVE  StackInv' /\ [LiveStep]_vars
<1>1. CASE UNCHANGED vars
  BY <1>1 DEF vars, StackInv, AnsType, ChainType, QueueSound, Modulus
<1>2. CASE Next
  <2>1. SqTails \subseteq Nvme!Doorbell
    BY AnsStackAssumption DEF SqTails, Nvme!Doorbell
  <2> QED
    BY <1>2, <2>1, QuietKeeps, WriteCcKeeps, WriteSqTailKeeps, WriteCqHeadKeeps,
       ChainKeeps DEF Next, ChainAction
<1> QED
  BY <1>1, <1>2

(* The queue's indices and the interrupt status agree with what the host   *)
(* has drained, in every state and for every doorbell width.               *)
THEOREM StackInvariant == Spec => []StackInv
<1>1. StackInv /\ [Next]_vars => StackInv'
  BY StackNextKeeps
<1> QED
  BY StackInitInv, <1>1, PTL DEF Spec

(* The stub's pending count is the host's, across wrap-around and          *)
(* controller resets (ans_v1.c:139-157,312-330).                           *)
THEOREM QueueViewsAgree == Spec => []QueueAgrees
<1>1. StackInv => QueueAgrees
  BY DistanceIsUndrained DEF StackInv
<1> QED
  BY StackInvariant, <1>1, PTL

(* No cached flag of a broken chain lets a completion, an answer or a map  *)
(* write through (ans_v1.c:445-460, ans_mbox_v1.c:205-210,                 *)
(* ans_autoboot_v1.c:102-117).                                             *)
THEOREM StaleFlagsLetNothingThrough == Spec => ActsOnlyWhenLive
<1>1. StackInv /\ [Next]_vars => [LiveStep]_vars
  BY StackNextKeeps
<1> QED
  BY StackInvariant, <1>1, PTL DEF Spec, ActsOnlyWhenLive, LiveStep
=============================================================================
