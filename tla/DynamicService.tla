--------------------------- MODULE DynamicService ---------------------------
(***************************************************************************)
(* The transactional memory-control owner of the dynamic profile           *)
(* (runtime/memory-service/src/dynamic.rs).  The owner keeps the           *)
(* architectural control snapshot A, the effective snapshot E that memory  *)
(* requests are translated under, the canonical walker with its TLB, the   *)
(* guest RAM and an immutable page-table image.  A control instruction is  *)
(* applied in two phases: PREPARE validates it and returns a one-shot      *)
(* token with the predicted state; COMMIT with that token applies it.      *)
(*                                                                         *)
(* Abstraction.  Addresses are instruction slots 0..LastAddr; LastAddr is  *)
(* the end of the address space.  A page-table walk under a bank of        *)
(* translation registers is the constant function Walk.  u64::MAX is       *)
(* CounterMax (TokenMax for the token counter).  PSTATE.I and PSTATE.F are *)
(* always masked: the dispatcher enters with both set and admits no        *)
(* instruction that clears them.                                           *)
(***************************************************************************)
EXTENDS Integers

CONSTANTS
  Reg,          \* translation registers: TTBR0, TTBR1, TCR, MAIR
  Value,        \* the values a translation register can hold
  Attr,         \* the SCTLR bits other than M
  LastAddr,     \* last instruction slot of the address space
  RamAddr,      \* slots backed by the borrowed guest RAM
  TableAddr,    \* slots backed by the borrowed table image
  ValidBanks,   \* register banks that controls_valid accepts
  ZeroAsidBanks,\* register banks with zero ASID fields and zero TCR.A1
  FixedField,   \* bank -> its TG0, TG1 and IPS fields
  Walk,         \* bank -> slot -> physical slot, or NoPA
  Seed,         \* the snapshot the owner is constructed with
  Images,       \* the initial contents of RAM and tables
  Storable,     \* the words a guest store can write
  ClientPc,     \* the slots an arbitrary client claims to execute from
  CounterMax,   \* u64::MAX of revision, epoch and invalidations
  TokenMax      \* u64::MAX of NEXT_TOKEN

NoPA == -1
Addr == 0..LastAddr
Backed == RamAddr \cup TableAddr
Bank == [Reg -> Value]
Sctlr == [m : BOOLEAN, attr : Attr]
Snapshot == [sctlr : Sctlr, regs : Bank]
Selector == {"SCTLR"} \cup Reg
Op == {"WRITE", "ISB", "DSB", "TLBI"}

\* A guest instruction word, by what the dispatcher distinguishes.
Word == [op : {"WRITE"}, sel : Selector]
        \cup [op : {"ISB", "DSB", "TLBI", "LOAD", "STORE", "ALU", "BRANCH",
                    "OTHER"}, sel : {"NONE"}]

IsbWord == [op |-> "ISB", sel |-> "NONE"]

\* final_state(): the committed snapshots and counters.
State == [arch : Snapshot, eff : Snapshot,
          revision : 1..CounterMax, epoch : 1..CounterMax,
          invalidations : 0..CounterMax]

\* The operand of a WRITE is the selected register of the candidate, and the
\* token a COMMIT carries in the operand field has a field of its own.
Request == [phase : {"PREPARE", "COMMIT", "CANCEL"}, op : Op,
            selector : Selector \cup {"NONE"}, pc : Addr, token : Nat,
            revision : Nat, epoch : Nat,
            before : Snapshot, candidate : Snapshot]

Failure == {"UNSUPPORTED", "INVALID", "UNAVAILABLE"}

Mmu == [regs : Bank, tlb : [Addr -> Addr \cup {NoPA}]]
EmptyTlb == [a \in Addr |-> NoPA]

Prepared == [request : Request, token : Nat, state : State, mmu : Mmu,
             enablePc : SUBSET Addr]

ASSUME ServiceAssumption ==
  /\ LastAddr \in Nat
  /\ "SCTLR" \notin Reg /\ "NONE" \notin Reg
  /\ RamAddr \subseteq Addr /\ TableAddr \subseteq Addr
  /\ RamAddr \cap TableAddr = {}
  /\ Walk \in [Bank -> [Addr -> Addr \cup {NoPA}]]
  /\ Seed \in Snapshot /\ Seed.sctlr.m = FALSE
  /\ Seed.regs \in ValidBanks \cap ZeroAsidBanks
  /\ Images \subseteq [Backed -> Word]
  /\ Storable \subseteq Word /\ ClientPc \subseteq Addr
  /\ CounterMax \in Nat \ {0} /\ TokenMax \in Nat \ {0}

VARIABLES
  state,      \* committed A, E and counters
  prepared,   \* the live transaction: {} or one element of Prepared
  enablePc,   \* {} or the slot of the guarded ISB after an enable
  mmu,        \* the live walker: its configuration and its TLB
  mem,        \* contents of the backed slots
  nextToken   \* NEXT_TOKEN

svcVars == <<state, prepared, enablePc, mmu, mem, nextToken>>

Pending == state.arch # state.eff
-----------------------------------------------------------------------------
(* control(): validation common to the three phases, then the phases.      *)

\* Every register but the selected one keeps its architectural value.
WellFormed(q) ==
  CASE q.selector = "NONE" -> q.candidate = q.before
    [] q.selector = "SCTLR" -> q.candidate.regs = q.before.regs
    [] OTHER -> /\ q.candidate.sctlr = q.before.sctlr
                /\ \A r \in Reg \ {q.selector} :
                     q.candidate.regs[r] = q.before.regs[r]

\* A selector exactly on a WRITE, and the context the owner is in now.
Current(q) == /\ q.op = "WRITE" <=> q.selector # "NONE"
              /\ q.before = state.arch
              /\ q.revision = state.revision
              /\ q.epoch = state.epoch

\* guard(): the four bytes after the enabling MSR are an owned ISB that the
\* candidate tables map, executable, to the same physical bytes.
Guard(q) ==
  LET next == q.pc + 1 IN
  IF next > LastAddr THEN "UNSUPPORTED"
  ELSE IF next \notin RamAddr THEN "UNAVAILABLE"
  ELSE IF mem[next] # IsbWord THEN "UNSUPPORTED"
  ELSE IF Walk[q.candidate.regs][next] # next THEN "UNSUPPORTED"
  ELSE "OK"

\* Mutant: the revision is advanced without looking at its maximum.
RevisionLeft_Unchecked == TRUE

RevisionLeft == state.revision # CounterMax

WriteResult(q) ==
  IF state.arch.sctlr.m THEN "UNSUPPORTED"
  ELSE IF ~WellFormed(q) THEN "INVALID"
  ELSE IF \/ q.candidate.regs \notin ValidBanks
          \/ FixedField[q.candidate.regs] # FixedField[state.eff.regs]
    THEN "UNSUPPORTED"
  ELSE IF q.selector = "SCTLR" /\
          (\/ q.candidate.sctlr # [state.arch.sctlr EXCEPT !.m = TRUE]
           \/ Pending)
    THEN "UNSUPPORTED"
  ELSE IF q.selector = "SCTLR" /\ Guard(q) # "OK" THEN Guard(q)
  ELSE IF ~RevisionLeft THEN "UNSUPPORTED"
  ELSE "OK"

BarrierResult(q) ==
  IF ~WellFormed(q) THEN "INVALID"
  ELSE IF \/ q.op = "ISB" /\ Pending /\ state.epoch = CounterMax
          \/ q.op = "TLBI" /\ state.invalidations = CounterMax
    THEN "UNSUPPORTED"
  ELSE "OK"

PrepareResult(q) ==
  IF prepared # {} THEN "INVALID"
  ELSE IF enablePc # {} /\ (q.op # "ISB" \/ q.pc \notin enablePc)
    THEN "UNSUPPORTED"
  ELSE LET r == IF q.op = "WRITE" THEN WriteResult(q) ELSE BarrierResult(q) IN
       IF r = "OK" /\ nextToken = TokenMax THEN "UNSUPPORTED" ELSE r

\* Mutant: a write leaves the revision alone.
AfterWrite_KeepsRevision(q) == [state EXCEPT !.arch = q.candidate]

AfterWrite(q) == [state EXCEPT !.arch = q.candidate, !.revision = @ + 1]

\* The transaction a successful PREPARE stores: the state after COMMIT.
Proposal(q) ==
  CASE q.op = "WRITE" -> AfterWrite(q)
    [] q.op = "ISB" /\ Pending -> [state EXCEPT !.eff = state.arch,
                                                !.epoch = @ + 1]
    [] q.op = "TLBI" -> [state EXCEPT !.invalidations = @ + 1]
    [] OTHER -> state

\* Mutant: ISB does not reconfigure the walker.
ProposedMmu_IsbKeepsWalker(q) ==
  IF q.op = "TLBI" THEN [mmu EXCEPT !.tlb = EmptyTlb] ELSE mmu

ProposedMmu(q) ==
  CASE q.op = "ISB" /\ Pending -> [regs |-> state.arch.regs, tlb |-> EmptyTlb]
    [] q.op = "TLBI" -> [mmu EXCEPT !.tlb = EmptyTlb]
    [] OTHER -> mmu

\* Mutant: the enable opens no window.
ProposedEnablePc_NoWindow(q) == enablePc

ProposedEnablePc(q) ==
  CASE q.op = "WRITE" /\ q.selector = "SCTLR" -> {q.pc + 1}
    [] q.op = "ISB" /\ Pending -> {}
    [] OTHER -> enablePc

\* The token and every other field must be those of the live transaction.
Bound(q, p) ==
  /\ q.token = p.token
  /\ [q EXCEPT !.phase = "PREPARE", !.token = p.request.token] = p.request

Result(q) ==
  IF ~Current(q) THEN "INVALID"
  ELSE IF q.phase = "PREPARE" THEN PrepareResult(q)
  ELSE IF \E p \in prepared : Bound(q, p) THEN "OK"
  ELSE "INVALID"

\* The reply of control(q): the predicted, the committed or the kept state.
ReplyTo(q) ==
  IF Result(q) # "OK" THEN [result |-> Result(q)]
  ELSE [result |-> "OK", phase |-> q.phase, op |-> q.op,
        selector |-> q.selector,
        tag |-> IF q.phase = "PREPARE" THEN "PROPOSED" ELSE "KNOWN",
        token |-> IF q.phase = "PREPARE" THEN nextToken ELSE 0,
        state |-> CASE q.phase = "PREPARE" -> Proposal(q)
                    [] q.phase = "COMMIT" -> (CHOOSE p \in prepared : TRUE).state
                    [] q.phase = "CANCEL" -> state]

Refuse(q) == Result(q) # "OK" /\ UNCHANGED svcVars

Prepare(q) ==
  /\ q.phase = "PREPARE" /\ Result(q) = "OK"
  /\ prepared' = {[request |-> q, token |-> nextToken, state |-> Proposal(q),
                   mmu |-> ProposedMmu(q), enablePc |-> ProposedEnablePc(q)]}
  /\ nextToken' = nextToken + 1
  /\ UNCHANGED <<state, enablePc, mmu, mem>>

Cancel(q) ==
  /\ q.phase = "CANCEL" /\ Result(q) = "OK"
  /\ prepared' = {}
  /\ UNCHANGED <<state, enablePc, mmu, mem, nextToken>>

\* Mutant: a committed write takes effect without waiting for the ISB.
Commit_EffectiveAtOnce(q) ==
  /\ q.phase = "COMMIT" /\ Result(q) = "OK"
  /\ \E p \in prepared : state' = [p.state EXCEPT !.eff = p.state.arch]
  /\ prepared' = {}
  /\ UNCHANGED <<enablePc, mmu, mem, nextToken>>

Commit(q) ==
  /\ q.phase = "COMMIT" /\ Result(q) = "OK"
  /\ \E p \in prepared :
       /\ state' = p.state
       /\ mmu' = p.mmu
       /\ enablePc' = p.enablePc
  /\ prepared' = {}
  /\ UNCHANGED <<mem, nextToken>>

Control(q) == Refuse(q) \/ Prepare(q) \/ Cancel(q) \/ Commit(q)
-----------------------------------------------------------------------------
(* execute(): a fetch, load or store of one slot, or of a pair.  An access *)
(* carries the snapshot and epoch its sender believes to be effective.     *)

Access == [kind : {"FETCH", "LOAD", "STORE"}, pc : Addr, va : Addr,
           pair : BOOLEAN, aligned : BOOLEAN, eff : Snapshot, epoch : Nat]

Last(q) == IF q.pair THEN q.va + 1 ELSE q.va

\* Physical under M=0; the TLB and then the walk under M=1.
Translate(va) ==
  IF ~state.eff.sctlr.m THEN va
  ELSE IF mmu.tlb[va] # NoPA THEN mmu.tlb[va]
  ELSE Walk[mmu.regs][va]

SlotResult(kind, va) ==
  LET pa == Translate(va) IN
  IF pa = NoPA THEN "FAULT"
  ELSE IF pa \in TableAddr /\ kind = "STORE" THEN "UNSUPPORTED"
  ELSE IF pa \notin Backed THEN "UNAVAILABLE"
  ELSE "OK"

Admitted(q) ==
  /\ q.eff = state.eff /\ q.epoch = state.epoch
  /\ prepared = {}

\* Mutant: data accesses are served while the window is open.
InWindow_AnyAccess(q) == TRUE

InWindow(q) == enablePc # {} => q.kind = "FETCH" /\ q.pc \in enablePc

\* Alignment before wrapping, wrapping before translation, and every slot of
\* the span before any effect.
SpanResult(q) ==
  IF ~q.aligned THEN "FAULT"
  ELSE IF Last(q) > LastAddr THEN "UNSUPPORTED"
  ELSE IF SlotResult(q.kind, q.va) # "OK" THEN SlotResult(q.kind, q.va)
  ELSE SlotResult(q.kind, Last(q))

ExecuteResult(q) ==
  IF ~Admitted(q) THEN "INVALID"
  ELSE IF ~InWindow(q) THEN "UNSUPPORTED"
  ELSE IF SpanResult(q) # "OK" THEN SpanResult(q)
  ELSE IF enablePc # {} /\ mem[Translate(q.va)] # IsbWord THEN "UNSUPPORTED"
  ELSE "OK"

\* Slots whose translation the call reaches and caches.
Reached(q) ==
  IF Admitted(q) /\ InWindow(q) /\ q.aligned /\ Last(q) <= LastAddr
  THEN {q.va} \cup (IF SlotResult(q.kind, q.va) = "OK" THEN {Last(q)} ELSE {})
  ELSE {}

FilledMmu(q) ==
  IF state.eff.sctlr.m
  THEN [mmu EXCEPT !.tlb = [a \in Addr |-> IF a \in Reached(q) THEN Translate(a)
                                           ELSE mmu.tlb[a]]]
  ELSE mmu

Stored(q, first, second) ==
  IF q.kind = "STORE" /\ ExecuteResult(q) = "OK"
  THEN LET one == [mem EXCEPT ![Translate(q.va)] = first] IN
       IF q.pair THEN [one EXCEPT ![Translate(Last(q))] = second] ELSE one
  ELSE mem

Execute(q, first, second) ==
  /\ mem' = Stored(q, first, second)
  /\ mmu' = FilledMmu(q)
  /\ UNCHANGED <<state, prepared, enablePc, nextToken>>
-----------------------------------------------------------------------------
(* The owner driven by an arbitrary client that obeys the calling rules    *)
(* (one call at a time) and nothing else.                                  *)

Init ==
  /\ state = [arch |-> Seed, eff |-> Seed,
              revision |-> 1, epoch |-> 1, invalidations |-> 0]
  /\ prepared = {}
  /\ enablePc = {}
  /\ mmu = [regs |-> Seed.regs, tlb |-> EmptyTlb]
  /\ mem \in Images
  /\ nextToken = 1

\* A with one register replaced, whatever register the selector then names.
Candidates ==
  {[state.arch EXCEPT !.sctlr = s] : s \in Sctlr}
  \cup {[state.arch EXCEPT !.regs[r] = v] : r \in Reg, v \in Value}

\* A control call with any selector and candidate, built on the current
\* revision with the last token or none, or on the revision before.
ClientCall ==
  \E phase \in {"PREPARE", "COMMIT", "CANCEL"}, op \in Op, pc \in ClientPc,
     token \in {0, nextToken - 1}, lag \in 0..1, cand \in Candidates,
     sel \in Selector \cup {"NONE"} :
       /\ phase = "PREPARE" => token = 0
       /\ phase # "PREPARE" /\ token = 0 => lag = 0
       /\ op # "WRITE" => /\ cand.regs = state.arch.regs
                          /\ sel \in {"NONE", "SCTLR"}
       /\ Control([phase |-> phase, op |-> op, selector |-> sel, pc |-> pc,
                   token |-> token, revision |-> state.revision - lag,
                   epoch |-> state.epoch, before |-> state.arch,
                   candidate |-> cand])

ClientAccess ==
  \E kind \in {"FETCH", "LOAD", "STORE"}, pc \in ClientPc, va \in Addr,
     pair \in BOOLEAN, aligned \in BOOLEAN, lag \in 0..1,
     first \in Storable, second \in Storable :
       /\ kind = "FETCH" => va = pc /\ ~pair /\ aligned
       /\ kind # "STORE" \/ ~pair => first = second
       /\ lag = 1 => ~pair /\ aligned
       /\ Execute([kind |-> kind, pc |-> pc, va |-> va, pair |-> pair,
                   aligned |-> aligned, eff |-> state.eff,
                   epoch |-> state.epoch - lag], first, second)

Next == ClientCall \/ ClientAccess

Spec == Init /\ [][Next]_svcVars
-----------------------------------------------------------------------------
(* The owner's state has its type, and no counter passes its maximum.      *)
TypeOK ==
  /\ state \in State
  /\ prepared \subseteq Prepared
  /\ enablePc \subseteq Addr
  /\ mmu \in Mmu
  /\ mem \in [Backed -> Word]
  /\ nextToken \in 1..TokenMax

(* The walker that serves memory requests is configured with the effective *)
(* registers, and a TLB entry never outlives the translation it caches: it *)
(* is what a walk under E gives now.  COMMIT installs a walker copied at   *)
(* PREPARE, and ISB and TLBI rely on that copy (dynamic.rs:86,111,115).    *)
TlbCoherent ==
  /\ mmu.regs = state.eff.regs
  /\ \A a \in Addr : mmu.tlb[a] # NoPA =>
       state.eff.sctlr.m /\ mmu.tlb[a] = Walk[state.eff.regs][a]

(* Between the commit of the enabling MSR and its ISB the next instruction *)
(* is still an owned ISB that both mappings find at the same place, although *)
(* the guest could store to it at any other time (dynamic.rs:45,131).      *)
TransitionCode ==
  \A p \in enablePc :
    /\ state.arch.sctlr.m /\ ~state.eff.sctlr.m
    /\ p \in RamAddr /\ mem[p] = IsbWord
    /\ Walk[state.arch.regs][p] = p

(* M=1 is never effective without having gone through that window: the     *)
(* effective M bit rises in an ISB whose slot was guarded, and neither M   *)
(* bit ever falls.                                                         *)
OneWayEnable ==
  [][/\ state.arch.sctlr.m => state'.arch.sctlr.m
     /\ state.eff.sctlr.m => state'.eff.sctlr.m
     /\ ~state.eff.sctlr.m /\ state'.eff.sctlr.m =>
          enablePc # {} /\ enablePc' = {}]_svcVars

(* The counters name the snapshots: while the revision stands A stands,    *)
(* while the epoch stands E stands, and each moves by one.  A client that  *)
(* compares counters can therefore not mistake one snapshot for another.   *)
CountersNameSnapshots ==
  [][/\ state'.revision \in {state.revision, state.revision + 1}
     /\ state'.epoch \in {state.epoch, state.epoch + 1}
     /\ state'.revision = state.revision => state'.arch = state.arch
     /\ state'.epoch = state.epoch => state'.eff = state.eff]_svcVars

(* The profile keeps ASID and TCR.A1 zero and only admits writes that give *)
(* another valid seed (docs/DYNAMIC_MEMORY_CONTROL_V1.md).                 *)
InProfile ==
  /\ state.arch.regs \in ValidBanks \cap ZeroAsidBanks
  /\ FixedField[state.arch.regs] = FixedField[Seed.regs]
=============================================================================
