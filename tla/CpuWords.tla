------------------------------ MODULE CpuWords ------------------------------
(***************************************************************************)
(* What the two A64 cores of the program have in common: the exception     *)
(* levels, the processor state word, the exception classes and the         *)
(* instructions.  An instruction is a record of an operation and two       *)
(* operands; the value a register operand holds is part of it, so general  *)
(* registers and flags are left out.  A DAIF mask keeps I and F.           *)
(***************************************************************************)
EXTENDS Integers

CONSTANTS
    RamBytes,  \* size of the guest's memory
    Budget     \* instruction budget of one bounded run

El == 0..3
Bank == 1..3            \* levels that own SPSR, ELR, ESR and VBAR
Bits == {"I", "F"}
NoLevel == 4            \* a mode field that names no level
Timer == {"P", "V"}

Ctl(n) == [en |-> n % 2 = 1, im |-> n \div 2 % 2 = 1]

Interrupts == {"TimerInterrupt", "ExternalInterrupt", "FiqInterrupt"}

Kinds == Interrupts \cup
    {"UndefinedInstruction", "PrivilegedInstruction", "DataAbort",
     "TranslationFault", "PermissionFault", "AlignmentFault",
     "SystemRegisterTrap", "SupervisorCall"}

\* PSTATE.M and the two mask bits; h is the stack select.
Psr == [lvl : El \cup {NoLevel}, h : 0..1, mask : SUBSET Bits]

ModeOf(el) == [lvl |-> el, h |-> IF el = 0 THEN 0 ELSE 1]

WithMode(ps, el) ==
    [lvl |-> ModeOf(el).lvl, h |-> ModeOf(el).h, mask |-> ps.mask]

ModeValid(el, ps) == ps.lvl = el /\ (el = 0 => ps.h = 0)

SpIndex(el, ps) == IF el = 0 \/ ps.h = 0 THEN 0 ELSE el

TargetEl(el) == IF el = 0 THEN 1 ELSE el

\* An override field is 0 (none) or 2 (disabled).
FieldValid(f) == f \in {0, 2}

MsrEl1 == {"msr_sctlr", "msr_ttbr", "msr_tcr", "msr_vbar", "msr_elr",
           "msr_spsr", "mrs_el1"}
MsrTimer == {"msr_ctl", "msr_cval", "msr_tval"}
Immediate == {"daifset", "daifclr", "spsel"}
Exclusive == {"ldxr", "stxr"}
Device == {"mmio_cmp", "mmio_ctl", "mmio_cnt", "mmio_show"}

\* The bits an immediate of DAIFSet and DAIFClr selects.
MaskBits(n) == {b \in Bits : (b = "F" /\ n % 2 = 1) \/ (b = "I" /\ n \div 2 = 1)}

Aligned(addr, size) == addr % size = 0
InRam(addr, size) == addr + size <= RamBytes
Bytes(addr, size) == addr .. (addr + size - 1)
=============================================================================
