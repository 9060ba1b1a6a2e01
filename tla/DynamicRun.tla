----------------------------- MODULE DynamicRun -----------------------------
(***************************************************************************)
(* The dynamic dispatcher (runtime/memory_dynamic.inc) driving one         *)
(* DynamicService over a transport that can fail.  The dispatcher fetches, *)
(* translates and runs one guest instruction at a time; a control          *)
(* instruction becomes a PREPARE call and then a COMMIT call.  A call can  *)
(* be lost before or after the owner serves it, its reply can be damaged,  *)
(* and the owner can be handed the same request twice.  No failure is      *)
(* retried: it ends the run with the last acknowledged state in `known',   *)
(* tagged UNCERTAIN when a COMMIT was out.                                 *)
(*                                                                         *)
(* General registers are not kept: the operand of an MSR, the address and  *)
(* data of a load or store and the target of a branch are any value.       *)
(***************************************************************************)
EXTENDS DynamicService

CONSTANTS
  Budget,   \* instructions the run may retire
  Entry     \* the slots a run can start at

ASSUME RunAssumption == Budget \in Nat \ {0} /\ Entry \subseteq Addr

VARIABLES
  known,     \* out->final_control: the last acknowledged state
  tag,       \* its state_tag
  bank,      \* the control registers of the C CPU
  pc,
  retired,
  enabling,  \* {} or the slot of the ISB an accepted enable waits for
  mode,      \* where the dispatcher is
  instr,     \* the instruction being executed
  request,   \* the control request of the current instruction: {} or one
  expected,  \* the state its COMMIT must acknowledge
  reply,     \* what the transport returned: {} while the call is out
  status     \* why the run ended

runVars == <<known, tag, bank, pc, retired, enabling, mode, instr,
             request, expected, reply, status>>
allVars == <<svcVars, runVars>>

\* A failed callback, and a record that is no reply to the request.
Lost == [result |-> "LOST"]
Damaged == [result |-> "DAMAGED"]

\* memory_exchange_version() and dynamic_control_step() on a failed result.
ProviderStatus(result) ==
  CASE result = "FAULT" -> "ABORT"
    [] result = "INVALID" -> "INVALID_REQUEST"
    [] result = "LOST" -> "CALLBACK_FAILURE"
    [] result = "DAMAGED" -> "INVALID_REPLY"
    [] OTHER -> result

Exit(s) == mode' = "done" /\ status' = s

\* Mutant: the uncertain flag of a failure is ignored.
DynamicFailure_AlwaysKnown(s, uncertain) == Exit(s) /\ tag' = tag

\* dynamic_failure(): a failure after COMMIT was sent taints the result.
DynamicFailure(s, uncertain) ==
  /\ Exit(s)
  /\ tag' = IF uncertain THEN "UNCERTAIN" ELSE tag

RunInit ==
  /\ Init
  /\ known = state /\ tag = "KNOWN" /\ bank = state.arch
  /\ pc \in Entry /\ retired = 0 /\ enabling = {}
  /\ mode = "loop" /\ instr = IsbWord
  /\ request = {} /\ expected = state /\ reply = {} /\ status = "RUN"

Retire(target) ==
  /\ pc' = target
  /\ retired' = retired + 1
  /\ mode' = "loop" /\ status' = status

NextPc == (pc + 1) % (LastAddr + 1)
-----------------------------------------------------------------------------
(* The top of the loop: the fetch uses the acknowledged E and its epoch.   *)

BudgetLeft == retired < Budget

FetchAccess == [kind |-> "FETCH", pc |-> pc, va |-> pc, pair |-> FALSE,
                aligned |-> TRUE, eff |-> known.eff, epoch |-> known.epoch]

\* While an enable waits, only its ISB may be executed.
FetchStatus(word) ==
  IF bank # known.arch THEN "INVALID_REQUEST"
  ELSE IF ExecuteResult(FetchAccess) # "OK"
    THEN ProviderStatus(ExecuteResult(FetchAccess))
  ELSE IF enabling # {} /\ (pc \notin enabling \/ word # IsbWord)
    THEN "UNSUPPORTED"
  ELSE "RUN"

Fetch ==
  /\ mode = "loop" /\ BudgetLeft
  /\ Execute(FetchAccess, IsbWord, IsbWord)
  /\ LET ok == ExecuteResult(FetchAccess) = "OK"
         word == IF ok THEN mem[Translate(pc)] ELSE instr IN
     IF FetchStatus(word) = "RUN"
     THEN instr' = word /\ mode' = "execute" /\ UNCHANGED status
     ELSE Exit(FetchStatus(word)) /\ UNCHANGED instr
  /\ UNCHANGED <<known, tag, bank, pc, retired, enabling, request, expected,
                 reply>>

BudgetStop ==
  /\ mode = "loop" /\ ~BudgetLeft
  /\ Exit("BUDGET")
  /\ UNCHANGED <<svcVars, known, tag, bank, pc, retired, enabling, instr,
                 request, expected, reply>>

\* The fetch or data callback fails, or its reply does not validate, with the
\* owner having served it or not.
AccessFailure(q, first, second) ==
  /\ Execute(q, first, second) \/ UNCHANGED svcVars
  /\ \E r \in {"LOST", "DAMAGED"} : Exit(ProviderStatus(r))
  /\ UNCHANGED <<known, tag, bank, pc, retired, enabling, instr, request,
                 expected, reply>>

FetchFailure ==
  /\ mode = "loop" /\ BudgetLeft
  /\ AccessFailure(FetchAccess, IsbWord, IsbWord)

\* protect() fails on the way to writable or back to executable.
ProtectFailure ==
  /\ mode = "execute"
  /\ Exit("PROTECTION")
  /\ UNCHANGED <<svcVars, known, tag, bank, pc, retired, enabling, instr,
                 request, expected, reply>>
-----------------------------------------------------------------------------
(* Instructions other than control instructions.                          *)

ExecuteAlu ==
  /\ mode = "execute" /\ instr.op = "ALU"
  /\ Retire(NextPc)
  /\ UNCHANGED <<svcVars, known, tag, bank, enabling, instr, request,
                 expected, reply>>

ExecuteBranch ==
  /\ mode = "execute" /\ instr.op = "BRANCH"
  /\ \E target \in Addr : Retire(target)
  /\ UNCHANGED <<svcVars, known, tag, bank, enabling, instr, request,
                 expected, reply>>

\* Undefined, trapped or unsupported instructions stop the run.
ExecuteOther ==
  /\ mode = "execute" /\ instr.op = "OTHER"
  /\ Exit("STOP")
  /\ UNCHANGED <<svcVars, known, tag, bank, pc, retired, enabling, instr,
                 request, expected, reply>>

\* memory_data_step_version(): the controls are the ones the fetch used.
DataAccess(va, pair, aligned) ==
  [kind |-> instr.op, pc |-> pc, va |-> va, pair |-> pair,
   aligned |-> aligned, eff |-> known.eff, epoch |-> known.epoch]

ExecuteData ==
  /\ mode = "execute" /\ instr.op \in {"LOAD", "STORE"}
  /\ \E va \in Addr, pair \in BOOLEAN, aligned \in BOOLEAN,
        first \in Storable, second \in Storable :
       LET q == DataAccess(va, pair, aligned) IN
       /\ Execute(q, first, second)
       /\ IF ExecuteResult(q) = "OK" THEN Retire(NextPc)
          ELSE Exit(ProviderStatus(ExecuteResult(q))) /\ UNCHANGED <<pc, retired>>
  /\ UNCHANGED <<known, tag, bank, enabling, instr, request, expected, reply>>

DataFailure ==
  /\ mode = "execute" /\ instr.op \in {"LOAD", "STORE"}
  /\ \E va \in Addr, pair \in BOOLEAN, first \in Storable, second \in Storable :
       AccessFailure(DataAccess(va, pair, TRUE), first, second)
-----------------------------------------------------------------------------
(* dynamic_control_step(): the local checks, PREPARE, COMMIT.              *)

PrepareRequest(cand) ==
  [phase |-> "PREPARE", op |-> instr.op, selector |-> instr.sel, pc |-> pc,
   token |-> 0, revision |-> known.revision, epoch |-> known.epoch,
   before |-> known.arch, candidate |-> cand]

KnownPending == known.arch # known.eff

\* Mutant: the bank is not held to a zero ASID.
DynamicControlsValid_AnyAsid(b) == b \in ValidBanks

\* vf_dynamic_controls_valid()
DynamicControlsValid(b) == b \in ValidBanks \cap ZeroAsidBanks

\* The dispatcher's validation and the other reasons not to ask at all.
Askable(cand) ==
  CASE instr.op = "WRITE" ->
         /\ ~known.arch.sctlr.m
         /\ DynamicControlsValid(cand.regs)
         /\ FixedField[cand.regs] = FixedField[known.eff.regs]
         /\ known.revision # CounterMax
         /\ instr.sel = "SCTLR" =>
              /\ cand.sctlr = [known.arch.sctlr EXCEPT !.m = TRUE]
              /\ ~KnownPending
              /\ pc < LastAddr
    [] instr.op = "ISB" -> KnownPending => known.epoch # CounterMax
    [] instr.op = "TLBI" -> known.invalidations # CounterMax
    [] instr.op = "DSB" -> TRUE

\* The dispatcher's own prediction, made before it asks.
ExpectedState(cand) ==
  CASE instr.op = "WRITE" -> [known EXCEPT !.arch = cand, !.revision = @ + 1]
    [] instr.op = "ISB" /\ KnownPending -> [known EXCEPT !.eff = known.arch,
                                                         !.epoch = @ + 1]
    [] instr.op = "TLBI" -> [known EXCEPT !.invalidations = @ + 1]
    [] OTHER -> known

Operands ==
  CASE instr.op # "WRITE" -> {known.arch}
    [] instr.sel = "SCTLR" -> {[known.arch EXCEPT !.sctlr = s] : s \in Sctlr}
    [] OTHER -> {[known.arch EXCEPT !.regs[instr.sel] = v] : v \in Value}

ControlStart ==
  /\ mode = "execute" /\ instr.op \in Op
  /\ \E cand \in Operands :
       IF Askable(cand)
       THEN /\ request' = {PrepareRequest(cand)}
            /\ expected' = ExpectedState(cand)
            /\ reply' = {} /\ mode' = "prepare" /\ UNCHANGED <<status, tag>>
       ELSE /\ DynamicFailure("UNSUPPORTED", FALSE)
            /\ UNCHANGED <<request, expected, reply>>
  /\ UNCHANGED <<svcVars, known, bank, pc, retired, enabling, instr>>

ReplyIs(r, phase, replyTag, token) ==
  r = [result |-> "OK", phase |-> phase, op |-> instr.op,
       selector |-> instr.sel, tag |-> replyTag, token |-> token,
       state |-> expected]

\* Mutant: a failed PREPARE callback is called again.
PrepareReturned_Retry ==
  /\ mode = "prepare"
  /\ Lost \in reply
  /\ reply' = {}
  /\ UNCHANGED <<svcVars, known, tag, bank, pc, retired, enabling, mode, instr,
                 request, expected, status>>

\* The PREPARE callback returned: COMMIT is sent only on the exact proposal.
PrepareReturned ==
  /\ mode = "prepare"
  /\ \E r \in reply, q \in request :
       IF r.result = "OK"
       THEN IF r.token # 0 /\ ReplyIs(r, "PREPARE", "PROPOSED", r.token)
            THEN /\ request' = {[q EXCEPT !.phase = "COMMIT", !.token = r.token]}
                 /\ reply' = {} /\ mode' = "commit" /\ UNCHANGED <<status, tag>>
            ELSE /\ DynamicFailure("INVALID_REPLY", FALSE)
                 /\ UNCHANGED <<request, reply>>
       ELSE /\ DynamicFailure(ProviderStatus(r.result), FALSE)
            /\ UNCHANGED <<request, reply>>
  /\ UNCHANGED <<svcVars, known, bank, pc, retired, enabling, instr,
                 expected>>

\* Mutant: after a lost acknowledgement the instruction is executed again.
CommitReturned_Reexecute ==
  /\ mode = "commit" /\ Lost \in reply
  /\ mode' = "execute" /\ reply' = {} /\ request' = {}
  /\ UNCHANGED <<svcVars, known, tag, bank, pc, retired, enabling, instr,
                 expected, status>>

\* The COMMIT callback returned: anything but the exact acknowledgement leaves
\* the owner's state unknown.
CommitReturned ==
  /\ mode = "commit"
  /\ \E r \in reply :
       IF ReplyIs(r, "COMMIT", "KNOWN", 0)
       THEN /\ bank' = expected.arch
            /\ known' = expected
            /\ enabling' = CASE instr.op = "ISB" -> {}
                             [] instr.sel = "SCTLR" -> {pc + 1}
                             [] OTHER -> enabling
            /\ Retire(NextPc)
            /\ request' = {} /\ reply' = {}
            /\ UNCHANGED <<tag, instr, expected>>
       ELSE /\ DynamicFailure(IF r = Lost THEN "CALLBACK_FAILURE"
                              ELSE "INVALID_REPLY", TRUE)
            /\ UNCHANGED <<known, bank, pc, retired, enabling, instr, request,
                           expected, reply>>
  /\ UNCHANGED svcVars
-----------------------------------------------------------------------------
(* The callback: serves the request, possibly twice, and returns a reply   *)
(* that may be missing or damaged.                                         *)

Calling == mode \in {"prepare", "commit"}

Serve ==
  /\ Calling
  /\ \E q \in request : Control(q) /\ reply' = {ReplyTo(q)}
  /\ UNCHANGED <<known, tag, bank, pc, retired, enabling, mode, instr, request,
                 expected, status>>

\* A damaged reply: unreadable, a plausible error, or another token
\* (TokenMax is never allotted).
Damage(r) ==
  {Lost, Damaged} \cup {[result |-> f] : f \in Failure}
  \cup (IF r.result = "OK" /\ r.token # 0
        THEN {[r EXCEPT !.token = 0], [r EXCEPT !.token = TokenMax]} ELSE {})

TransportFailure ==
  /\ Calling
  /\ IF reply = {} THEN reply' = {Lost}
     ELSE \E r \in reply : \E d \in Damage(r) : reply' = {d}
  /\ UNCHANGED <<svcVars, known, tag, bank, pc, retired, enabling, mode, instr,
                 request, expected, status>>

Done == mode = "done" /\ UNCHANGED allVars

Dispatcher ==
  \/ Fetch \/ BudgetStop
  \/ ExecuteAlu \/ ExecuteBranch \/ ExecuteOther \/ ExecuteData
  \/ ControlStart \/ PrepareReturned \/ CommitReturned

RunNext ==
  \/ Dispatcher
  \/ FetchFailure \/ ProtectFailure \/ DataFailure
  \/ Serve \/ TransportFailure
  \/ Done

RunSpec == RunInit /\ [][RunNext]_allVars

(* The dispatcher is a loop of one thread and every callback returns.      *)
RunFairness == /\ WF_allVars(Dispatcher)
               /\ WF_allVars(reply = {} /\ (Serve \/ TransportFailure))

FairRunSpec == RunSpec /\ RunFairness
-----------------------------------------------------------------------------

(* A result tagged KNOWN is the truth: the acknowledged A, E, epoch and    *)
(* counters are the owner's, the bank that MRS reads is its A, and both    *)
(* sides wait for the same ISB, whatever was lost or duplicated on the way *)
(* - except while a COMMIT is out (memory_dynamic.inc:55,99).              *)
KnownIsCommitted ==
  tag = "KNOWN" /\ mode # "commit" =>
    state = known /\ bank = state.arch /\ enabling = enablePc

(* While a COMMIT is out, and after a run that lost its acknowledgement,   *)
(* the owner is at the acknowledged state or exactly at the one proposed:  *)
(* a duplicated COMMIT never applies an instruction twice                  *)
(* (memory_dynamic.inc:99-102, dynamic.rs:76-79).                          *)
UncertainByOneStep == state \in {known, expected}

(* The dispatcher's local checks keep every committed bank in the profile  *)
(* (memory_dynamic.h:58-65, memory_dynamic.inc:74).                        *)
RunInProfile == InProfile

(* The exchange implements one atomic step per control instruction.        *)
Atomic == INSTANCE AtomicControl WITH committed <- state, acked <- known

AtomicExchange == Atomic!Spec

(* A run ends: at its budget, at a stop or at a failure                    *)
(* (memory_dynamic.inc:119-165).                                           *)
RunEnds == <>(mode = "done")
=============================================================================
