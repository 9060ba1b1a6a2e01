------------------------------- MODULE FpUnit -------------------------------
(***************************************************************************)
(* The floating-point and SIMD register bank of a guest CPU and everything *)
(* that works on it: the instructions the dispatcher executes              *)
(* (runtime/fp_execution.c with fp_instruction.c, fp_control.c and         *)
(* simd_bitwise.c) and the services beside it that a host calls on the     *)
(* same bank (simd_transfer.c, simd_copy.c, simd_memory.c).                *)
(*                                                                         *)
(* A V register is four lanes, each as wide as a pattern of FpScalar: one  *)
(* lane is an S register, two a D register.  An X register is two lanes.   *)
(* Selector 31 is the zero register among the X registers, SP as a memory  *)
(* base, and an ordinary register among the V registers.  FPCR and FPSR    *)
(* are a lane each: bits 0-1 of FPCR are the rounding mode, bit 2 stands   *)
(* for the trap enables, the rest for bits that are not represented; bits  *)
(* 0-4 of FPSR are the flags, bit 5 is not represented.  An instruction is *)
(* a record of its decoded fields.  Addresses count lanes.                 *)
(***************************************************************************)
EXTENDS FpReference, FiniteSets, FiniteSetsExt, Sequences

CONSTANTS Reg,         \* the registers below 31 that are used
          Scenario,    \* name -> what a behaviour starts from and executes
          MemBase,     \* guest address of the memory view
          MemLanes     \* its length

VARIABLES
  bank,      \* nc_fp_bank: v, fpcr, fpsr
  x, sp,     \* the general registers
  mem,       \* the bytes of the memory view
  cpu,       \* pc, retired and the counter of vf_cpu
  ctx,       \* profile, valid, pending, el, fpen, higher of vf_cpu
  program,   \* the scenario of this behaviour
  calls,     \* calls made, to bound the behaviour
  last       \* history: the latest call and its result

vars == <<bank, x, sp, mem, cpu, ctx, program, calls, last>>

LaneMod == 2 * SIGN
LaneBits == EBits + FBits + 1
AddrMod == LaneMod * LaneMod
XZero == <<0, 0>>
NoCall == [service |-> "none"]

\* The bits of a lane, and the lane that has them.
Bits(n) == {i \in 0..(LaneBits - 1) : (n \div Pow2[i]) % 2 = 1}
Number(bits) == CHOOSE n \in 0..(LaneMod - 1) : Bits(n) = bits
Flags == {IOC, DZC, OFC, UFC, IXC}

\* What a scenario is made of.
Selector == Reg \cup {31}
Pair == [1..2 -> Pattern]
Quad == [1..4 -> Pattern]
BankType == [v : [Selector -> Quad], fpcr : Pattern, fpsr : Pattern]
ContextType == [profile : BOOLEAN, pending : BOOLEAN, el : 0..2, fpen : 0..3,
                higher : BOOLEAN, cpacrOther : BOOLEAN, elr : [1..2 -> Nat]]
Selects(i) == i.d \in Selector /\ i.n \in Selector
Within(e, w) == e \in Nat /\ e * w + w <= 4
TransferOp == {"FMOV_DX", "FMOV_D1X", "FMOV_XD", "FMOV_XD1"}

ASSUME FpUnitAssumption ==
  /\ 31 \notin Reg /\ MemBase \in Nat /\ MemLanes \in Nat
  /\ EBits + FBits >= 4        \* the flags fit into a lane
  /\ \A name \in DOMAIN Scenario :
       LET s == Scenario[name]
       IN /\ s.banks \subseteq BankType /\ s.ctxs \subseteq ContextType
          /\ s.xs \subseteq [Reg -> Pair] /\ s.sps \subseteq Pair
          /\ s.mem \in [1..MemLanes -> Pattern]
          /\ \A i \in s.steps : Selects(i) /\ i.m \in Selector
          /\ \A i \in s.transfers : Selects(i) /\ i.op \in TransferOp \cup {"UNKNOWN"}
          /\ \A i \in s.copies : Selects(i) /\ i.w \in 1..2 /\ Within(i.lane, i.w)
                                             /\ Within(i.from, i.w)
          /\ \A i \in s.memories :
               i.n \in Selector /\ i.t \in Selector /\ i.offset \in Int

\* The checks every service makes: only represented control bits.
Represented(b) == b.fpcr < 4 /\ Bits(b.fpsr) \subseteq Flags

XRead(r) == IF r = 31 THEN XZero ELSE x[r]
XWrite(r, value) == IF r = 31 THEN x ELSE [x EXCEPT ![r] = value]
Address(value) == value[1] + LaneMod * value[2]
Value(address) == <<address % LaneMod, address \div LaneMod>>

\* nc_fp_bank_write_s(), _d() and _q(): everything above is cleared.
WriteS(b, reg, lane) == [b EXCEPT !.v[reg] = <<lane, 0, 0, 0>>]
WriteD(b, reg, value) == [b EXCEPT !.v[reg] = value \o XZero]
WriteQ(b, reg, low, high) == [b EXCEPT !.v[reg] = low \o high]

\* An executor returns its result and the state it leaves.
Return(result, b, regs) == [result |-> result, bank |-> b, x |-> regs]
Reject(result) == Return(result, bank, x)

\* nc_fp_access_check(): c is what the caller says of the CPU.
AccessCheck(present, c) ==
  CASE ~present -> "UNDEFINED"
    [] present /\ (c.el > 1 \/ c.higher \/ c.cpacrOther) -> "UNSUPPORTED"
    [] present /\ c.el <= 1 /\ ~c.higher /\ ~c.cpacrOther /\
       (c.fpen % 2 = 0 \/ (c.fpen = 1 /\ c.el = 0)) -> "TRAP_EL1"
    [] OTHER -> "OK"

\* The order every service of the bank keeps: decode, access, the bank.
Checked(decoded, access, b, outcome) ==
  CASE ~decoded -> Reject("UNSUPPORTED")
    [] decoded /\ access # "OK" -> Reject(access)
    [] decoded /\ access = "OK" /\ ~Represented(b) -> Reject("INVALID")
    [] OTHER -> outcome

-----------------------------------------------------------------------------
(* The instructions of the dispatcher. *)

\* binary32(): both operands are read before the destination is written.
Binary32(op, d, n, m) ==
  LET a == bank.v[n][1]
      b == bank.v[m][1]
      out == IF op = "FDIV" THEN Div(bank.fpcr, a, b) ELSE Add(bank.fpcr, a, b)
  IN Return("OK",
            [WriteS(bank, d, out.bits) EXCEPT !.fpsr = Number(Bits(@) \cup out.flags)], x)

\* nc_fp_execute32().
Execute32(i) ==
  Checked(TRUE, "OK", bank,
    CASE i.op \in {"FADD", "FDIV"} -> Binary32(i.op, i.d, i.n, i.m)
      [] i.op = "FMOV_SW" -> Return("OK", WriteS(bank, i.d, XRead(i.n)[1]), x)
      [] i.op = "FMOV_WS" -> Return("OK", bank, XWrite(i.d, <<bank.v[i.n][1], 0>>)))

\* Mutant: the rounding mode is stored before the other bits are looked at.
WriteFpcr_Early(value) ==
  IF value >= 8 THEN Return("UNSUPPORTED", [bank EXCEPT !.fpcr = value % 4], x)
                ELSE Return("OK", [bank EXCEPT !.fpcr = value % 4], x)

\* The trap enables are accepted and not kept; other bits are refused.
WriteFpcr(value) ==
  IF value >= 8 THEN Reject("UNSUPPORTED")
                ELSE Return("OK", [bank EXCEPT !.fpcr = value % 4], x)

WriteFpsr(value) ==
  IF Bits(value) \subseteq Flags THEN Return("OK", [bank EXCEPT !.fpsr = value], x)
                                 ELSE Reject("UNSUPPORTED")

\* nc_fp_execute_control(): MRS and MSR, FPCR and FPSR.
ExecuteControl(i, c) ==
  Checked(TRUE, AccessCheck(TRUE, c), bank,
    CASE i.op = "MRS_FPCR" -> Return("OK", bank, XWrite(i.d, <<bank.fpcr, 0>>))
      [] i.op = "MRS_FPSR" -> Return("OK", bank, XWrite(i.d, <<bank.fpsr, 0>>))
      [] i.op = "MSR_FPCR" -> WriteFpcr(XRead(i.d)[1])
      [] i.op = "MSR_FPSR" -> WriteFpsr(XRead(i.d)[1]))

\* apply() of simd_bitwise.c, on the bits of one lane.
Apply(op, d, l, r) ==
  CASE op = "AND" -> l \cap r
    [] op = "BIC" -> l \ r
    [] op = "ORR" -> l \cup r
    [] op = "ORN" -> l \cup ((0..(LaneBits - 1)) \ r)
    [] op = "EOR" -> SymDiff(l, r)
    [] op = "BSL" -> (d \cap l) \cup (r \ d)
    [] op = "BIT" -> (d \ r) \cup (l \cap r)
    [] op = "BIF" -> (d \cap r) \cup (l \ r)

\* nc_simd_execute_bitwise(): the short form clears the upper half.
ExecuteBitwise(i, c) ==
  LET lane(k) == Number(Apply(i.op, Bits(bank.v[i.d][k]), Bits(bank.v[i.n][k]),
                              Bits(bank.v[i.m][k])))
  IN Checked(TRUE, AccessCheck(TRUE, c), bank,
       Return("OK", WriteQ(bank, i.d, <<lane(1), lane(2)>>,
                           IF i.q THEN <<lane(3), lane(4)>> ELSE XZero), x))

ScalarOp == {"FADD", "FDIV", "FMOV_SW", "FMOV_WS"}
ControlOp == {"MRS_FPCR", "MRS_FPSR", "MSR_FPCR", "MSR_FPSR"}
BitwiseOp == {"AND", "BIC", "ORR", "ORN", "EOR", "BSL", "BIT", "BIF"}

\* supported_operation(); the rest of the spaces the unit owns is unknown.
SupportedOperation(i) == i.op \in ScalarOp \cup ControlOp \cup BitwiseOp

Execute(i) ==
  CASE i.op \in ControlOp -> ExecuteControl(i, ctx)
    [] i.op \in ScalarOp -> Execute32(i)
    [] i.op \in BitwiseOp -> ExecuteBitwise(i, ctx)

\* vf_cpu_state_valid(), the part that is about floating point.
StateValid == ~ctx.cpacrOther /\ (ctx.profile \/ ctx.fpen = 0)

\* vf_fp_step(): what is refused before anything is executed.
StepRefusal(i) ==
  LET access == AccessCheck(TRUE, ctx)
  IN IF ~ctx.profile THEN "UNDEFINED_INSTRUCTION"
     ELSE IF ~StateValid \/ ctx.pending \/ ~SupportedOperation(i) THEN "IMPLEMENTATION_GAP"
     ELSE IF access = "TRAP_EL1" THEN "FP_ACCESS_TRAP"
     ELSE IF access # "OK" THEN "IMPLEMENTATION_GAP"
     ELSE "none"

\* target_el().
Target == IF ctx.el = 0 THEN 1 ELSE ctx.el

\* vf_cpu_commit_status() and vf_cpu_raise_exception(): an exception is
\* recorded, with the address of the instruction, unless one is pending.
CommitStatus(status) ==
  ctx' = IF /\ status \in {"UNDEFINED_INSTRUCTION", "FP_ACCESS_TRAP"}
            /\ StateValid /\ ~ctx.pending
           THEN [ctx EXCEPT !.pending = TRUE, !.elr[Target] = cpu.pc] ELSE ctx

Called(service, i, status) ==
  /\ calls < Scenario[program].calls
  /\ calls' = calls + 1
  /\ last' = [service |-> service, instr |-> i, status |-> status]
  /\ UNCHANGED program

\* The dispatch of the run loop: vf_fp_step(), and the commit of its status
\* when it did not retire.  What an executor left behind stays.
FpStep(i) ==
  LET refusal == StepRefusal(i)
      out == IF refusal = "none" THEN Execute(i) ELSE Reject("none")
      status == CASE refusal # "none" -> refusal
                  [] refusal = "none" /\ out.result = "OK" -> "NEXT"
                  [] OTHER -> "IMPLEMENTATION_GAP"
  IN /\ Called("step", i, status)
     /\ bank' = out.bank /\ x' = out.x
     /\ IF status = "NEXT"
          THEN /\ cpu' = [pc |-> cpu.pc + 4, retired |-> cpu.retired + 1,
                          counter |-> cpu.counter + 1]
               /\ UNCHANGED ctx
          ELSE CommitStatus(status) /\ UNCHANGED cpu
     /\ UNCHANGED <<sp, mem>>

-----------------------------------------------------------------------------
(* The services.  What the caller says of the CPU is an argument of its own. *)

Service(name, i, out) ==
  /\ Called(name, i, out.result)
  /\ bank' = out.bank /\ x' = out.x
  /\ UNCHANGED <<sp, mem, cpu, ctx>>

\* nc_simd_transfer_execute(): whole X registers, to and from either half.
TransferExecute(i, present, c) ==
  LET v == bank.v
  IN Checked(i.op # "UNKNOWN", AccessCheck(present, c), bank,
       CASE i.op = "FMOV_DX" -> Return("OK", WriteD(bank, i.d, XRead(i.n)), x)
         [] i.op = "FMOV_D1X" ->
              Return("OK", WriteQ(bank, i.d, SubSeq(v[i.d], 1, 2), XRead(i.n)), x)
         [] i.op = "FMOV_XD" -> Return("OK", bank, XWrite(i.d, SubSeq(v[i.n], 1, 2)))
         [] i.op = "FMOV_XD1" -> Return("OK", bank, XWrite(i.d, SubSeq(v[i.n], 3, 4))))

SimdTransfer(i, present, c) == Service("transfer", i, TransferExecute(i, present, c))

\* An element of w lanes, counted from 0.
ReadLane(reg, e, w) == SubSeq(bank.v[reg], e * w + 1, e * w + w)
WriteLane(reg, e, w, value) ==
  [bank EXCEPT !.v[reg] = [k \in 1..4 |-> IF k \in (e * w + 1)..(e * w + w)
                                            THEN value[k - e * w] ELSE @[k]]]

\* The forms of DUP, INS, UMOV and SMOV on elements of one and two lanes.
CopyDecodes(i) ==
  CASE i.op \in {"DUP_ELEMENT", "DUP_GENERAL"} -> ~(i.w = 2 /\ ~i.q)
    [] i.op \in {"INS_ELEMENT", "INS_GENERAL"} -> i.q
    [] i.op = "UMOV" -> i.q = (i.w = 2)
    [] i.op = "SMOV" -> i.q /\ i.w = 1
    [] OTHER -> FALSE

\* Sign extension of an element of one lane to an X register.
SignExtended(value) == <<value[1], IF value[1] >= SIGN THEN LaneMod - 1 ELSE 0>>

\* nc_simd_execute_copy().
CopyExecute(i, present, c) ==
  LET value == CASE i.op \in {"DUP_GENERAL", "INS_GENERAL"} -> SubSeq(XRead(i.n), 1, i.w)
                 [] i.op = "INS_ELEMENT" -> ReadLane(i.n, i.from, i.w)
                 [] OTHER -> ReadLane(i.n, i.lane, i.w)
      repeated == IF i.w = 2 THEN value ELSE value \o value
      wide == IF i.w = 2 THEN value ELSE value \o <<0>>
  IN Checked(CopyDecodes(i), AccessCheck(present, c), bank,
       CASE i.op \in {"DUP_ELEMENT", "DUP_GENERAL"} ->
              Return("OK", WriteQ(bank, i.d, repeated, IF i.q THEN repeated ELSE XZero), x)
         [] i.op \in {"INS_ELEMENT", "INS_GENERAL"} ->
              Return("OK", WriteLane(i.d, i.lane, i.w, value), x)
         [] OTHER ->
              Return("OK", bank, XWrite(i.d, IF i.op = "SMOV" THEN SignExtended(value)
                                                              ELSE wide)))

SimdCopy(i, present, c) == Service("copy", i, CopyExecute(i, present, c))

\* The address of a Q transfer, and the base register after it.
Updated(i) == (Address(IF i.n = 31 THEN sp ELSE x[i.n]) + i.offset) % AddrMod
TransferAt(i) == IF i.mode = "post" THEN Address(IF i.n = 31 THEN sp ELSE x[i.n])
                                    ELSE Updated(i)

\* What the view refuses, in this order: the stack pointer's alignment, the
\* address's, the permission, a transfer over the end of the address space,
\* one that is not inside the view.
MemoryFault(i, view) ==
  LET address == TransferAt(i)
  IN IF i.n = 31 /\ view.spAlign /\ Address(sp) % 4 # 0 THEN "SP_ALIGNMENT"
     ELSE IF view.dataAlign /\ address % 4 # 0 THEN "DATA_ALIGNMENT"
     ELSE IF \/ ~(IF i.load THEN view.readable ELSE view.writable)
             \/ address > AddrMod - 4
             \/ address < MemBase
             \/ MemLanes < 4 \/ address - MemBase > MemLanes - 4 THEN "DATA_ABORT"
     ELSE "none"

\* nc_simd_execute_q_memory(): a whole V register; the writeback is last,
\* and its base is SP for selector 31.
MemoryResult(i, present, c, view) ==
  LET access == AccessCheck(present, c)
      fault == MemoryFault(i, view)
  IN IF i.mode = "reserved" THEN "UNSUPPORTED"
     ELSE IF access # "OK" THEN access
     ELSE IF ~Represented(bank) \/ MemBase + MemLanes > AddrMod THEN "INVALID"
     ELSE IF view.bigEndian THEN "UNSUPPORTED"
     ELSE IF fault # "none" THEN fault
     ELSE "OK"

SimdMemory(i, present, c, view) ==
  LET result == MemoryResult(i, present, c, view)
      index == TransferAt(i) - MemBase
      done == result = "OK"
      wrote == done /\ i.mode \in {"pre", "post"}
  IN /\ Called("memory", i, result)
     /\ bank' = IF done /\ i.load
                  THEN [bank EXCEPT !.v[i.t] = [k \in 1..4 |-> mem[index + k]]] ELSE bank
     /\ mem' = IF done /\ ~i.load
                 THEN [k \in 1..MemLanes |-> IF k - index \in 1..4 THEN bank.v[i.t][k - index]
                                                                   ELSE mem[k]]
                 ELSE mem
     /\ x' = IF wrote /\ i.n # 31 THEN [x EXCEPT ![i.n] = Value(Updated(i))] ELSE x
     /\ sp' = IF wrote /\ i.n = 31 THEN Value(Updated(i)) ELSE sp
     /\ UNCHANGED <<cpu, ctx>>

-----------------------------------------------------------------------------
(* What changes the context of the instructions. *)

Outside(c, pc) ==
  /\ Scenario[program].contexts
  /\ ctx' = c /\ cpu' = [cpu EXCEPT !.pc = pc]
  /\ last' = NoCall
  /\ UNCHANGED <<bank, x, sp, mem, program, calls>>

\* vf_cpu_enable_fp_research().
EnableFpResearch ==
  /\ StateValid /\ ctx.el <= 1 /\ ~ctx.higher /\ ~ctx.pending /\ ~ctx.profile
  /\ Outside([ctx EXCEPT !.profile = TRUE], cpu.pc)

\* The guest's write of CPACR_EL1: its FPEN field and nothing else.  The
\* address is where the instruction stream goes on; it is not followed here.
WriteCpacr(fpen) ==
  /\ ctx.profile /\ ~ctx.pending /\ ctx.el = 1 /\ ~ctx.higher
  /\ Outside([ctx EXCEPT !.fpen = fpen], cpu.pc)

\* vf_cpu_take_exception(), to a vector at 0, and ERET.
TakeException ==
  ctx.pending /\ Outside([ctx EXCEPT !.pending = FALSE, !.el = Target], 0)
ReturnTo(el) ==
  ~ctx.pending /\ el < ctx.el /\ Outside([ctx EXCEPT !.el = el], ctx.elr[ctx.el])

\* EL2 software puts its controls in use, or out of use.
UseHigher(b) == ctx.el = 2 /\ ~ctx.pending /\ Outside([ctx EXCEPT !.higher = b], cpu.pc)

-----------------------------------------------------------------------------
\* A behaviour starts as its scenario says.
Init ==
  \E name \in DOMAIN Scenario :
    LET s == Scenario[name]
    IN /\ program = name
       /\ bank \in s.banks
       /\ x \in s.xs /\ sp \in s.sps
       /\ mem = s.mem
       /\ ctx \in s.ctxs
       /\ cpu = [pc |-> 8, retired |-> 0, counter |-> 0]
       /\ calls = 0 /\ last = NoCall

Next ==
  \/ \E i \in Scenario[program].steps : FpStep(i)
  \/ \E present \in BOOLEAN, c \in Scenario[program].callers :
       \/ \E i \in Scenario[program].transfers : SimdTransfer(i, present, c)
       \/ \E i \in Scenario[program].copies : SimdCopy(i, present, c)
       \/ \E i \in Scenario[program].memories, view \in Scenario[program].views :
            SimdMemory(i, present, c, view)
  \/ EnableFpResearch
  \/ \E fpen \in 0..3 : WriteCpacr(fpen)
  \/ TakeException
  \/ \E el \in 0..1 : ReturnTo(el)
  \/ \E b \in BOOLEAN : UseHigher(b)

Spec == Init /\ [][Next]_vars

-----------------------------------------------------------------------------
(* Properties *)

Succeeded == last'.service # "none" /\ last'.status \in {"NEXT", "OK"}
Arithmetic == last'.service = "step" /\ last'.status = "NEXT" /\ last'.instr.op \in {"FADD", "FDIV"}

\* The step of an addition or a division, and what it must leave.
RoundedStep ==
  calls' # calls /\ Arithmetic =>
    LET i == last'.instr
        ref == Correct(i.op, bank.fpcr, bank.v[i.n][1], bank.v[i.m][1])
    IN /\ bank'.v[i.d] = <<ref.bits, 0, 0, 0>>
       /\ Bits(bank'.fpsr) = Bits(bank.fpsr) \cup ref.flags
       /\ bank'.fpcr = bank.fpcr

(* FADD and FDIV round once: for every pair of operands, subnormals, NaNs  *)
(* and infinities included, and every rounding mode, the destination is    *)
(* the correctly rounded exact result with the lanes above it cleared, and *)
(* FPSR gains exactly the exceptions of this operation and loses none,     *)
(* also when the destination is one of the operands (fp_scalar.c:30-127,   *)
(* fp_guest.c:64-80).                                                      *)
FpRoundsOnce == [][RoundedStep]_vars

\* The registers an instruction may write: of V, of X, and the stack pointer.
ToX == {"FMOV_WS", "FMOV_XD", "FMOV_XD1", "UMOV", "SMOV", "MRS_FPCR", "MRS_FPSR"}
WritesV(service, i) ==
  CASE service = "memory" -> IF i.load THEN {i.t} ELSE {}
    [] service # "memory" /\ i.op \in ToX \cup ControlOp -> {}
    [] OTHER -> {i.d}
WritesX(service, i) ==
  CASE service = "memory" -> IF i.mode \in {"pre", "post"} THEN {i.n} ELSE {}
    [] service # "memory" /\ i.op \in ToX -> {i.d}
    [] OTHER -> {}

\* The step of a call, and what it may write.
WholeStep ==
  calls' # calls =>
    /\ ~Succeeded => UNCHANGED <<bank, x, sp, mem, cpu>>
    /\ Succeeded =>
         LET service == last'.service
             i == last'.instr
             step == IF service = "step" THEN 1 ELSE 0
         IN /\ \A r \in DOMAIN bank.v \ WritesV(service, i) : bank'.v[r] = bank.v[r]
            /\ \A r \in DOMAIN x \ WritesX(service, i) : x'[r] = x[r]
            /\ Represented(bank')
            /\ cpu' = [pc |-> cpu.pc + 4 * step, retired |-> cpu.retired + step,
                       counter |-> cpu.counter + step]
            /\ service # "memory" => UNCHANGED <<sp, mem>>
            /\ service = "memory" =>
                 LET at == TransferAt(i)
                     span == {k \in 1..MemLanes : MemBase + k - 1 \in at..(at + 3)}
                 IN /\ Cardinality(span) = 4
                    /\ \A k \in (1..MemLanes) \ span : mem'[k] = mem[k]
                    /\ i.mode \notin {"pre", "post"} \/ i.n # 31 => sp' = sp

(* A call takes place whole or not at all.  One that is refused, whatever  *)
(* refuses it and however far it got, leaves the bank, the registers, the  *)
(* memory and the program counter as they were (a trapped instruction can  *)
(* be executed again); one that succeeds writes no register but its        *)
(* destination and its base, a store changes only the lanes of its         *)
(* transfer, the bank stays one that every service accepts, and only the   *)
(* dispatcher moves the program counter and the counters, each once        *)
(* (fp_execution.h:11-16, simd_memory.h:42-44, fp_control.h:9-12).         *)
FpCallsWhole == [][WholeStep]_vars
=============================================================================
