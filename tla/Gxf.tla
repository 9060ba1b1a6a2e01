-------------------------------- MODULE Gxf --------------------------------
(***************************************************************************)
(* Guarded execution and the SPRR permission registers                     *)
(* (devices/apple_gxf_v1.c) as operators on the device's state.  Guarded   *)
(* mode has a bank of exception registers of its own; the architectural    *)
(* EL1 names reach the bank of the current mode, the GL11 names only work  *)
(* in guarded mode.                                                        *)
(*                                                                         *)
(* Addresses are in units of 16 bytes, so VBAR's 32-byte alignment drops   *)
(* the lowest unit.  Of GXF_CONFIG, GXF_STATUS and ASPSR the one bit that  *)
(* the code tests is kept.  Registers that are stored and read back and    *)
(* nothing else (the entry vectors, SP_GL11, the SPRR configuration and    *)
(* the other BR banks) and the count of mode changes are left out.         *)
(***************************************************************************)
EXTENDS Integers

CONSTANTS MaxAddr,    \* stands for UINT64_MAX
          Slots       \* the regions of a permission register, 16 in the code

BankReg == {"tpidr", "vbar", "spsr", "elr", "esr", "far"}
CtlReg == {"sctlr", "tcr", "ttbr0", "ttbr1"}
LockBit == {"vbar", "sctlr", "tcr", "ttbr0", "ttbr1", "sctlrM"}
HcrBit == {"TVM", "TRVM"}

RWX == 0..2                  \* the bits of a slot that EL0 may ask to change
SlotBit == RWX \cup {3}
AllowBit == 0..1             \* the bits of a mask entry
PermWord == [Slots -> SUBSET SlotBit]
MaskWord == [Slots -> SUBSET AllowBit]

ZeroBank == [r \in BankReg |-> 0]

GxfInit == [guarded |-> FALSE, status |-> FALSE, en |-> FALSE, nest |-> FALSE,
            el |-> ZeroBank, gl |-> ZeroBank, hcr |-> {}, lock |-> {},
            ctl |-> [r \in CtlReg |-> 0],
            perm |-> [s \in Slots |-> {}], mprr |-> [s \in Slots |-> {}],
            permGen |-> 0, flushes |-> 0]

\* gxf_sync_guarded_from_status(): the flag the accessors look at.
SyncGuarded(g) == [g EXCEPT !.guarded = g.status]

-----------------------------------------------------------------------------
(* Register writes. *)

BankOf(g) == IF g.guarded THEN "gl" ELSE "el"
Aligned(reg, value) == IF reg = "vbar" THEN value - (value % 2) ELSE value

\* TVM refuses ESR and FAR at EL1, in either mode.
TvmBlocks(g, reg, el) == el = 1 /\ reg \in {"esr", "far"} /\ "TVM" \in g.hcr

VmsaLocked(g, el, bit) == ~g.guarded /\ el = 1 /\ bit \in g.lock

\* An EL1 name: routed by mode; a locked VBAR is kept without an error.
AliasWrite(g, reg, value, el) ==
  IF reg = "vbar" /\ VmsaLocked(g, el, "vbar")
    THEN g
    ELSE [g EXCEPT ![BankOf(g)][reg] = Aligned(reg, value)]

\* A GL11 name: only in guarded mode.
GuardedOnlyAllowed(g) == g.guarded
GuardedWrite(g, reg, value) == [g EXCEPT !.gl[reg] = Aligned(reg, value)]
AspsrWrite(g, nest) == [g EXCEPT !.nest = nest]

ConfigWrite(g, en) == [g EXCEPT !.en = en]
HcrWritable(el) == el >= 2
SetHcr(g, bits) == [g EXCEPT !.hcr = bits]

\* Mutant: the guest's write assigns, as the host's does.
LockWrite_Assigns(g, bits) == [g EXCEPT !.lock = bits]

\* A guest's write only ever adds locks; the host's assigns.
LockWrite(g, bits) == [g EXCEPT !.lock = @ \cup bits]
SetLock(g, bits) == [g EXCEPT !.lock = bits]

\* The MMU controls have one bank; SCTLR also has a lock on its M bit alone.
CtlWrite(g, reg, value, el) ==
  IF VmsaLocked(g, el, reg)
    THEN g
    ELSE [g EXCEPT !.ctl[reg] =
            IF reg = "sctlr" /\ VmsaLocked(g, el, "sctlrM")
              THEN (value - (value % 2)) + (@ % 2)
              ELSE value]

-----------------------------------------------------------------------------
(* SPRR permissions. *)

\* EL0's request, slot by slot: only a bit the mask allows may change.
Merge(perm, request, mask) ==
  [s \in Slots |->
     LET old == perm[s] \cap RWX
         req == request[s] \cap RWX
         changed == ((req \ old) \cup (old \ req)) \cap mask[s]
     IN (perm[s] \ RWX) \cup (old \ changed) \cup (req \cap changed)]

\* gxf_sprr_perm_changed(); the hook it calls is the bridge's.
PermChanged(g) == [g EXCEPT !.permGen = @ + 1, !.flushes = @ + 1]

\* SPRR_EL0BR0: merged and announced at EL0, stored as it is above.
SprrWrite(g, request, el) ==
  IF el = 0
    THEN PermChanged([g EXCEPT !.perm = Merge(@, request, g.mprr)])
    ELSE [g EXCEPT !.perm = request]

MprrWrite(g, mask) == [g EXCEPT !.mprr = mask]

-----------------------------------------------------------------------------
(* Entries and exits.  A frame is what an entry saves. *)

Saved(bank, frame, regs) == [r \in BankReg |-> IF r \in regs THEN frame[r] ELSE bank[r]]

GenterAllowed(g) == g.en /\ ~g.status

Genter(g, frame) ==
  SyncGuarded([g EXCEPT !.gl = Saved(@, frame, {"elr", "spsr"}),
                        !.nest = FALSE,
                        !.status = TRUE])

AbortAllowed(g) == g.en

\* Mutant: an abort taken in guarded mode is not marked as nested.
Abort_NoNest(g, frame) ==
  SyncGuarded([g EXCEPT !.gl = Saved(@, frame, {"elr", "spsr", "esr", "far"}),
                        !.nest = FALSE,
                        !.status = TRUE])

\* An abort may be taken in either mode; ASPSR's NEST bit records which.
Abort(g, frame) ==
  SyncGuarded([g EXCEPT !.gl = Saved(@, frame, {"elr", "spsr", "esr", "far"}),
                        !.nest = g.status,
                        !.status = TRUE])

GexitAllowed(g) == g.status

Gexit(g) ==
  IF g.nest THEN [g EXCEPT !.nest = FALSE]
            ELSE SyncGuarded([g EXCEPT !.status = FALSE])

Kind == [sync |-> 0, irq |-> 1, fiq |-> 2, serr |-> 3]
VectorOffset(kind, table) == 32 * table + 8 * Kind[kind]

\* The vector must not pass the end of the address space.
ExceptionAllowed(g, kind, table) ==
  (IF g.status THEN g.gl ELSE g.el).vbar <= MaxAddr - VectorOffset(kind, table)

SavedBy(kind) ==
  {"elr", "spsr"} \cup (IF kind \in {"sync", "serr"} THEN {"esr"} ELSE {})
                  \cup (IF kind = "sync" THEN {"far"} ELSE {})

\* Mutant: exceptions save into the normal bank in every mode.
TakeException_AlwaysEl(g, kind, frame) == [g EXCEPT !.el = Saved(@, frame, SavedBy(kind))]

\* An exception vectors through VBAR and does not change the mode.
TakeException(g, kind, frame) ==
  [g EXCEPT ![IF g.status THEN "gl" ELSE "el"] = Saved(@, frame, SavedBy(kind))]

\* vf_apple_gxf_tcg_classify(): bit 31, bits 28:25, the opcode and rn.
Classify(insn) ==
  IF insn.top # 0 \/ insn.group # 0 \/ insn.opcode # 5
    THEN "none"
    ELSE CASE insn.rn = 1 -> "genter"
           [] insn.rn = 0 -> "gexit"
           [] OTHER -> "none"
=============================================================================
