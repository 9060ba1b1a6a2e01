-------------------------- MODULE DynamicRunProofs --------------------------
(***************************************************************************)
(* The control owner and the dispatcher over its failing transport, for    *)
(* every set of registers, every page table and memory size, every         *)
(* program, budget and number of lost, damaged and duplicated calls.       *)
(*                                                                         *)
(* The owner.  The inductive invariant adds to the properties of           *)
(* DynamicService that the live transaction, once installed, has them too: *)
(* a prepared walker is coherent with the prepared state, a prepared       *)
(* window is sound, and the prepared state is one step ahead.              *)
(*                                                                         *)
(* The dispatcher.  The invariant follows one exchange through its modes.  *)
(* Between exchanges both sides agree and no transaction is live.  While   *)
(* PREPARE is out they still agree, and a live transaction is the one the  *)
(* dispatcher predicted.  While COMMIT is out the owner is at the          *)
(* acknowledged state with that transaction live, or past it with none,    *)
(* and an OK on its way back means that it is past it.  The prediction is  *)
(* a step of AtomicControl and stays in the profile.                       *)
(***************************************************************************)
EXTENDS DynamicRun, TLAPS

-----------------------------------------------------------------------------
(* The owner. *)

\* A walker m serves the effective snapshot of s.
Coherent(m, s) ==
  /\ m.regs = s.eff.regs
  /\ \A a \in Addr : m.tlb[a] # NoPA =>
       s.eff.sctlr.m /\ m.tlb[a] = Walk[s.eff.regs][a]

\* The window e belongs to s, an unsynchronized enable has one, and no
\* enable is effective that is not architectural.
WindowSound(e, s) ==
  /\ \A a \in e : /\ s.arch.sctlr.m /\ ~s.eff.sctlr.m
                  /\ a \in RamAddr /\ mem[a] = IsbWord
                  /\ Walk[s.arch.regs][a] = a
  /\ s.arch.sctlr.m /\ ~s.eff.sctlr.m => e # {}
  /\ s.eff.sctlr.m => s.arch.sctlr.m

\* What one control instruction may do to the committed state and the window.
OneStep(s, e, t, f) ==
  /\ t.revision \in {s.revision, s.revision + 1}
  /\ t.epoch \in {s.epoch, s.epoch + 1}
  /\ t.revision = s.revision => t.arch = s.arch
  /\ t.epoch = s.epoch => t.eff = s.eff
  /\ s.arch.sctlr.m => t.arch.sctlr.m
  /\ s.eff.sctlr.m => t.eff.sctlr.m
  /\ ~s.eff.sctlr.m /\ t.eff.sctlr.m => e # {} /\ f = {}

PreparedSound ==
  \A p \in prepared : /\ Coherent(p.mmu, p.state)
                      /\ WindowSound(p.enablePc, p.state)
                      /\ OneStep(state, enablePc, p.state, p.enablePc)

SvcInv == /\ TypeOK
          /\ Coherent(mmu, state)
          /\ WindowSound(enablePc, state)
          /\ PreparedSound

(* The constructor's state satisfies the invariant (dynamic.rs:27-34).     *)
LEMMA InitInv == Init => SvcInv
<1> SUFFICES ASSUME Init PROVE SvcInv
  OBVIOUS
<1> USE ServiceAssumption
<1>1. TypeOK
  BY DEF Init, TypeOK, State, Mmu, EmptyTlb, Snapshot
<1>2. Coherent(mmu, state)
  BY DEF Init, Coherent, EmptyTlb, NoPA
<1>3. WindowSound(enablePc, state)
  BY DEF Init, WindowSound
<1>4. PreparedSound
  BY DEF Init, PreparedSound
<1> QED
  BY <1>1, <1>2, <1>3, <1>4 DEF SvcInv

\* The three ways the state moves, field by field.
Wrote(q) == [arch |-> q.candidate, eff |-> state.eff,
             revision |-> state.revision + 1, epoch |-> state.epoch,
             invalidations |-> state.invalidations]
Synced == [arch |-> state.arch, eff |-> state.arch,
           revision |-> state.revision, epoch |-> state.epoch + 1,
           invalidations |-> state.invalidations]
Flushed == [arch |-> state.arch, eff |-> state.eff,
            revision |-> state.revision, epoch |-> state.epoch,
            invalidations |-> state.invalidations + 1]

(* The arms of the match in control() (dynamic.rs:93-118).                 *)
LEMMA ProposalArms ==
  ASSUME state \in State, NEW q
  PROVE  /\ q.op = "WRITE" => Proposal(q) = Wrote(q)
         /\ q.op = "ISB" /\ Pending => Proposal(q) = Synced
         /\ q.op = "TLBI" => Proposal(q) = Flushed
         /\ q.op \notin {"WRITE", "TLBI"} /\ ~(q.op = "ISB" /\ Pending) =>
              Proposal(q) = state
<1>1. q.op = "WRITE" => Proposal(q) = AfterWrite(q)
  BY DEF Proposal
<1>2. AfterWrite(q) = Wrote(q)
  <2> DEFINE t == [state EXCEPT !.arch = q.candidate]
  <2>1. t = [arch |-> q.candidate, eff |-> state.eff,
             revision |-> state.revision, epoch |-> state.epoch,
             invalidations |-> state.invalidations]
    BY DEF State
  <2>2. AfterWrite(q) = [t EXCEPT !.revision = state.revision + 1]
    BY DEF AfterWrite
  <2> HIDE DEF t
  <2> QED
    BY <2>1, <2>2 DEF Wrote
<1>3. q.op = "ISB" /\ Pending =>
        Proposal(q) = [state EXCEPT !.eff = state.arch, !.epoch = @ + 1]
  BY DEF Proposal
<1>4. [state EXCEPT !.eff = state.arch, !.epoch = @ + 1] = Synced
  <2> DEFINE t == [state EXCEPT !.eff = state.arch]
  <2>1. t = [arch |-> state.arch, eff |-> state.arch,
             revision |-> state.revision, epoch |-> state.epoch,
             invalidations |-> state.invalidations]
    BY DEF State
  <2>2. [state EXCEPT !.eff = state.arch, !.epoch = @ + 1]
          = [t EXCEPT !.epoch = state.epoch + 1]
    OBVIOUS
  <2> HIDE DEF t
  <2> QED
    BY <2>1, <2>2 DEF Synced
<1>5. q.op = "TLBI" => Proposal(q) = [state EXCEPT !.invalidations = @ + 1]
  BY DEF Proposal
<1>6. [state EXCEPT !.invalidations = @ + 1] = Flushed
  BY DEF Flushed, State
<1>7. q.op \notin {"WRITE", "TLBI"} /\ ~(q.op = "ISB" /\ Pending) =>
        Proposal(q) = state
  BY DEF Proposal
<1> QED
  BY <1>1, <1>2, <1>3, <1>4, <1>5, <1>6, <1>7

(* What PREPARE proposes is a state of the right type: the counters it     *)
(* advances are below their maximum (dynamic.rs:105,110,114).              *)
LEMMA ProposalType ==
  ASSUME SvcInv, NEW q \in Request, Prepare(q)
  PROVE  /\ Proposal(q) \in State
         /\ ProposedMmu(q) \in Mmu
         /\ ProposedEnablePc(q) \subseteq Addr
<1> USE ServiceAssumption DEF SvcInv, TypeOK
<1>0. /\ PrepareResult(q) = "OK" /\ Current(q)
      /\ q.op = "WRITE" => WriteResult(q) = "OK"
      /\ q.op # "WRITE" => BarrierResult(q) = "OK"
  BY DEF Prepare, Result, PrepareResult
<1>1. Proposal(q) \in State
  <2>1. CASE q.op = "WRITE"
    <3>1. state.revision # CounterMax
      BY <1>0, <2>1 DEF WriteResult, RevisionLeft
    <3>2. Proposal(q) = Wrote(q)
      BY <2>1, ProposalArms
    <3>3. Wrote(q) \in State
      BY <3>1 DEF Wrote, State, Request
    <3> QED
      BY <3>2, <3>3
  <2>2. CASE q.op = "ISB" /\ Pending
    <3>1. state.epoch # CounterMax
      BY <1>0, <2>2 DEF BarrierResult
    <3>2. Proposal(q) = Synced
      BY <2>2, ProposalArms
    <3>3. Synced \in State
      BY <3>1 DEF Synced, State
    <3> QED
      BY <3>2, <3>3
  <2>3. CASE q.op = "TLBI"
    <3>1. state.invalidations # CounterMax
      BY <1>0, <2>3 DEF BarrierResult
    <3>2. Proposal(q) = Flushed
      BY <2>3, ProposalArms
    <3>3. Flushed \in State
      BY <3>1 DEF Flushed, State
    <3> QED
      BY <3>2, <3>3
  <2>4. CASE ~(q.op = "WRITE") /\ ~(q.op = "ISB" /\ Pending) /\ ~(q.op = "TLBI")
    BY <2>4 DEF Proposal
  <2> QED
    BY <2>1, <2>2, <2>3, <2>4
<1>2. ProposedMmu(q) \in Mmu
  <2>1. EmptyTlb \in [Addr -> Addr \cup {NoPA}]
    BY DEF EmptyTlb
  <2>2. state.arch.regs \in Bank
    BY DEF State, Snapshot
  <2> QED
    BY <2>1, <2>2 DEF ProposedMmu, Mmu
<1>3. ProposedEnablePc(q) \subseteq Addr
  <2>1. q.op = "WRITE" /\ q.selector = "SCTLR" => Guard(q) = "OK"
    BY <1>0 DEF WriteResult
  <2>2. q.op = "WRITE" /\ q.selector = "SCTLR" => q.pc + 1 \in RamAddr
    BY <2>1 DEF Guard
  <2> QED
    BY <2>2 DEF ProposedEnablePc
<1> QED
  BY <1>1, <1>2, <1>3

(* The walker copied at PREPARE is coherent with the state it will be      *)
(* installed with (dynamic.rs:92,111,115).                                 *)
LEMMA ProposalCoherent ==
  ASSUME SvcInv, NEW q \in Request, Prepare(q)
  PROVE  Coherent(ProposedMmu(q), Proposal(q))
<1> USE DEF SvcInv, Coherent
<1>1. CASE q.op = "WRITE"
  BY <1>1, ProposalArms DEF ProposedMmu, TypeOK, Wrote
<1>2. CASE q.op = "ISB" /\ Pending
  BY <1>2 DEF Proposal, ProposedMmu, TypeOK, State, EmptyTlb
<1>3. CASE q.op = "TLBI"
  BY <1>3 DEF Proposal, ProposedMmu, TypeOK, State, EmptyTlb, Mmu
<1>4. CASE ~(q.op = "WRITE") /\ ~(q.op = "ISB" /\ Pending) /\ ~(q.op = "TLBI")
  BY <1>4 DEF Proposal, ProposedMmu
<1> QED
  BY <1>1, <1>2, <1>3, <1>4

(* The window PREPARE proposes is the guarded ISB of an enable, and a      *)
(* synchronization closes it (dynamic.rs:90,102-103,112).                  *)
LEMMA ProposalWindow ==
  ASSUME SvcInv, NEW q \in Request, Prepare(q)
  PROVE  WindowSound(ProposedEnablePc(q), Proposal(q))
<1> USE ServiceAssumption DEF SvcInv
<1>0. /\ PrepareResult(q) = "OK" /\ Current(q)
      /\ q.op = "WRITE" => WriteResult(q) = "OK" /\ enablePc = {}
  BY DEF Prepare, Result, PrepareResult
<1>1. CASE q.op = "WRITE" /\ q.selector = "SCTLR"
  <2>1. /\ Guard(q) = "OK" /\ ~Pending
        /\ q.candidate.sctlr = [state.arch.sctlr EXCEPT !.m = TRUE]
        /\ ~state.arch.sctlr.m
    BY <1>0, <1>1 DEF WriteResult
  <2>2. /\ q.pc + 1 \in RamAddr /\ mem[q.pc + 1] = IsbWord
        /\ Walk[q.candidate.regs][q.pc + 1] = q.pc + 1
    BY <2>1 DEF Guard
  <2>3. q.candidate.sctlr.m /\ ~state.eff.sctlr.m
    BY <2>1 DEF Pending, TypeOK, State, Snapshot, Sctlr
  <2> QED
    BY <1>1, <2>2, <2>3 DEF WindowSound, ProposedEnablePc, Proposal, AfterWrite, TypeOK, State
<1>2. CASE q.op = "WRITE" /\ q.selector # "SCTLR"
  <2>1. /\ WellFormed(q) /\ ~state.arch.sctlr.m
    BY <1>0, <1>2 DEF WriteResult
  <2>2. q.candidate.sctlr = state.arch.sctlr
    BY <1>0, <1>2, <2>1 DEF WellFormed, Current
  <2> QED
    BY <1>0, <1>2, <2>1, <2>2 DEF WindowSound, ProposedEnablePc, Proposal, AfterWrite, TypeOK, State
<1>3. CASE q.op = "ISB" /\ Pending
  BY <1>3 DEF WindowSound, ProposedEnablePc, Proposal, TypeOK, State
<1>4. CASE ~(q.op = "WRITE") /\ ~(q.op = "ISB" /\ Pending)
  BY <1>4 DEF WindowSound, ProposedEnablePc, Proposal, TypeOK, State
<1> QED
  BY <1>1, <1>2, <1>3, <1>4

(* What PREPARE proposes is one step of the committed state.               *)
LEMMA ProposalStep ==
  ASSUME SvcInv, NEW q \in Request, Prepare(q)
  PROVE  OneStep(state, enablePc, Proposal(q), ProposedEnablePc(q))
<1> USE ServiceAssumption DEF SvcInv
<1>0. /\ PrepareResult(q) = "OK" /\ Current(q)
      /\ q.op = "WRITE" => WriteResult(q) = "OK"
  BY DEF Prepare, Result, PrepareResult
<1>1. CASE q.op = "WRITE"
  <2>1. ~state.arch.sctlr.m
    BY <1>0, <1>1 DEF WriteResult
  <2> QED
    BY <1>1, <2>1, ProposalArms DEF OneStep, Wrote, TypeOK, State
<1>2. CASE q.op = "ISB" /\ Pending
  <2>1. /\ state.eff.sctlr.m => state.arch.sctlr.m
        /\ ~state.eff.sctlr.m /\ state.arch.sctlr.m => enablePc # {}
    BY DEF WindowSound
  <2>2. ProposedEnablePc(q) = {}
    BY <1>2 DEF ProposedEnablePc
  <2> QED
    BY <1>2, <2>1, <2>2, ProposalArms DEF OneStep, Synced, TypeOK, State
<1>3. CASE ~(q.op = "WRITE") /\ ~(q.op = "ISB" /\ Pending)
  BY <1>3, ProposalArms DEF OneStep, Flushed, TypeOK, State
<1> QED
  BY <1>1, <1>2, <1>3

(* PREPARE changes nothing but the live transaction and the token counter. *)
LEMMA PrepareInv ==
  ASSUME SvcInv, NEW q \in Request, Prepare(q)
  PROVE  SvcInv'
<1> USE DEF SvcInv
<1>1. /\ UNCHANGED <<state, enablePc, mmu, mem>>
      /\ nextToken' = nextToken + 1
      /\ prepared' = {[request |-> q, token |-> nextToken, state |-> Proposal(q),
                       mmu |-> ProposedMmu(q), enablePc |-> ProposedEnablePc(q)]}
  BY DEF Prepare
<1>2. nextToken # TokenMax
  BY DEF Prepare, Result, PrepareResult
<1>3. TypeOK'
  <2>1. [request |-> q, token |-> nextToken, state |-> Proposal(q),
         mmu |-> ProposedMmu(q), enablePc |-> ProposedEnablePc(q)] \in Prepared
    BY ProposalType DEF Prepared, TypeOK
  <2>2. nextToken + 1 \in 1..TokenMax
    BY <1>2, ServiceAssumption DEF TypeOK
  <2> QED
    BY <1>1, <2>1, <2>2 DEF TypeOK
<1>4. Coherent(mmu, state)'
  BY <1>1 DEF Coherent
<1>5. WindowSound(enablePc, state)'
  BY <1>1 DEF WindowSound
<1>6. PreparedSound'
  <2> SUFFICES ASSUME NEW p \in prepared'
               PROVE  /\ Coherent(p.mmu, p.state)'
                      /\ WindowSound(p.enablePc, p.state)'
                      /\ OneStep(state, enablePc, p.state, p.enablePc)'
    BY DEF PreparedSound
  <2>1. /\ p.state = Proposal(q) /\ p.mmu = ProposedMmu(q)
        /\ p.enablePc = ProposedEnablePc(q)
    BY <1>1
  <2>2. Coherent(p.mmu, p.state)'
    BY <2>1, ProposalCoherent DEF Coherent
  <2>3. WindowSound(p.enablePc, p.state)'
    BY <1>1, <2>1, ProposalWindow DEF WindowSound
  <2>4. OneStep(state, enablePc, p.state, p.enablePc)'
    BY <1>1, <2>1, ProposalStep DEF OneStep
  <2> QED
    BY <2>2, <2>3, <2>4
<1> QED
  BY <1>3, <1>4, <1>5, <1>6

(* CANCEL forgets the transaction.                                         *)
LEMMA CancelInv ==
  ASSUME SvcInv, NEW q \in Request, Cancel(q)
  PROVE  SvcInv'
BY DEF SvcInv, Cancel, TypeOK, Coherent, WindowSound, PreparedSound

(* COMMIT installs what PREPARE proved sound, and moves the state by one   *)
(* step (dynamic.rs:124-128).                                              *)
LEMMA CommitInv ==
  ASSUME SvcInv, NEW q \in Request, Commit(q)
  PROVE  SvcInv' /\ OneStep(state, enablePc, state', enablePc')
<1> USE DEF SvcInv
<1>1. PICK p \in prepared : state' = p.state /\ mmu' = p.mmu
                            /\ enablePc' = p.enablePc
  BY DEF Commit
<1>2. prepared' = {} /\ UNCHANGED <<mem, nextToken>>
  BY DEF Commit
<1>3. /\ Coherent(p.mmu, p.state) /\ WindowSound(p.enablePc, p.state)
      /\ OneStep(state, enablePc, p.state, p.enablePc)
  BY DEF PreparedSound
<1>4. p \in Prepared
  BY DEF TypeOK
<1>5. TypeOK'
  BY <1>1, <1>2, <1>4 DEF TypeOK, Prepared
<1>6. Coherent(mmu, state)'
  BY <1>1, <1>3 DEF Coherent
<1>7. WindowSound(enablePc, state)'
  BY <1>1, <1>2, <1>3 DEF WindowSound
<1>8. PreparedSound'
  BY <1>2 DEF PreparedSound
<1> QED
  BY <1>1, <1>3, <1>5, <1>6, <1>7, <1>8

(* Any control() call.                                                     *)
LEMMA ControlInv ==
  ASSUME SvcInv, NEW q \in Request, Control(q)
  PROVE  /\ SvcInv'
         /\ \/ UNCHANGED <<state, enablePc>>
            \/ OneStep(state, enablePc, state', enablePc')
<1>1. CASE Refuse(q)
  BY <1>1 DEF Refuse, svcVars, SvcInv, TypeOK, Coherent, WindowSound, PreparedSound, OneStep
<1>2. CASE Prepare(q)
  BY <1>2, PrepareInv DEF Prepare
<1>3. CASE Cancel(q)
  BY <1>3, CancelInv DEF Cancel
<1>4. CASE Commit(q)
  BY <1>4, CommitInv
<1> QED
  BY <1>1, <1>2, <1>3, <1>4 DEF Control

(* A translation is an address or a fault, and is what a walk under the    *)
(* effective registers gives once M=1 is effective.                        *)
LEMMA TranslateSound ==
  ASSUME SvcInv, NEW a \in Addr
  PROVE  /\ Translate(a) \in Addr \cup {NoPA}
         /\ state.eff.sctlr.m => Translate(a) = Walk[state.eff.regs][a]
<1>1. state.eff.regs \in Bank /\ mmu.tlb[a] \in Addr \cup {NoPA}
  BY DEF SvcInv, TypeOK, State, Snapshot, Mmu
<1>2. Walk[state.eff.regs][a] \in Addr \cup {NoPA}
  BY <1>1, ServiceAssumption
<1> QED
  BY <1>1, <1>2 DEF Translate, SvcInv, Coherent

(* A store needs an idle owner: no live transaction and no open window     *)
(* (dynamic.rs:130-131).                                                   *)
LEMMA StoreIdle ==
  ASSUME NEW q, NEW first, NEW second, Stored(q, first, second) # mem
  PROVE  prepared = {} /\ enablePc = {}
<1>1. q.kind = "STORE" /\ ExecuteResult(q) = "OK"
  BY DEF Stored
<1>2. Admitted(q) /\ InWindow(q)
  BY <1>1 DEF ExecuteResult
<1> QED
  BY <1>1, <1>2 DEF Admitted, InWindow

(* A memory request fills the TLB with what a walk gives, and stores only  *)
(* to an idle owner (dynamic.rs:129-141).                                  *)
LEMMA ExecuteInv ==
  ASSUME SvcInv, NEW q \in Access, NEW first \in Word, NEW second \in Word,
         Execute(q, first, second)
  PROVE  SvcInv' /\ UNCHANGED <<state, enablePc>>
<1> USE DEF SvcInv
<1>1. /\ mem' = Stored(q, first, second) /\ mmu' = FilledMmu(q)
      /\ UNCHANGED <<state, prepared, enablePc, nextToken>>
  BY DEF Execute
<1>2. mem' \in [Backed -> Word]
  <2>1. mem \in [Backed -> Word]
    BY DEF TypeOK
  <2> DEFINE one == [mem EXCEPT ![Translate(q.va)] = first]
  <2>2. one \in [Backed -> Word]
    BY <2>1
  <2>3. [one EXCEPT ![Translate(Last(q))] = second] \in [Backed -> Word]
    <3> HIDE DEF one
    <3> QED BY <2>2
  <2>4. Stored(q, first, second)
          \in {mem, one, [one EXCEPT ![Translate(Last(q))] = second]}
    BY DEF Stored
  <2> QED
    BY <1>1, <2>1, <2>2, <2>3, <2>4
<1>3. Reached(q) \subseteq Addr
  BY ServiceAssumption DEF Reached, Access, Last, Addr
<1>4. /\ mmu' \in Mmu /\ mmu'.regs = mmu.regs
      /\ \A a \in Addr : \/ mmu'.tlb[a] = mmu.tlb[a]
                         \/ state.eff.sctlr.m /\ mmu'.tlb[a] = Translate(a)
  <2>1. CASE ~state.eff.sctlr.m
    BY <1>1, <2>1 DEF FilledMmu, TypeOK
  <2>2. CASE state.eff.sctlr.m
    <3> DEFINE tlb == [a \in Addr |-> IF a \in Reached(q) THEN Translate(a)
                                      ELSE mmu.tlb[a]]
    <3>1. mmu' = [mmu EXCEPT !.tlb = tlb]
      BY <1>1, <2>2 DEF FilledMmu
    <3>2. \A a \in Addr : tlb[a] = mmu.tlb[a] \/ tlb[a] = Translate(a)
      OBVIOUS
    <3>3. tlb \in [Addr -> Addr \cup {NoPA}]
      <4>1. \A a \in Addr : mmu.tlb[a] \in Addr \cup {NoPA}
        BY DEF TypeOK, Mmu
      <4>2. \A a \in Addr : tlb[a] \in Addr \cup {NoPA}
        BY <4>1, TranslateSound
      <4> QED
        BY <4>2
    <3> HIDE DEF tlb
    <3>4. mmu' = [regs |-> mmu.regs, tlb |-> tlb] /\ mmu.regs \in Bank
      BY <3>1 DEF TypeOK, Mmu
    <3> QED
      BY <2>2, <3>2, <3>3, <3>4 DEF Mmu
  <2> QED
    BY <2>1, <2>2
<1>5. TypeOK'
  BY <1>1, <1>2, <1>4 DEF TypeOK
<1>6. Coherent(mmu, state)'
  <2> SUFFICES ASSUME NEW a \in Addr, mmu'.tlb[a] # NoPA
               PROVE  state.eff.sctlr.m /\ mmu'.tlb[a] = Walk[state.eff.regs][a]
    BY <1>1, <1>4 DEF Coherent
  <2>1. CASE mmu'.tlb[a] = mmu.tlb[a]
    BY <2>1 DEF Coherent
  <2>2. CASE state.eff.sctlr.m /\ mmu'.tlb[a] = Translate(a)
    BY <2>2, TranslateSound
  <2> QED
    BY <1>4, <2>1, <2>2
<1>7. mem' = mem \/ (prepared = {} /\ enablePc = {})
  BY <1>1, StoreIdle
<1>8. WindowSound(enablePc, state)'
  BY <1>1, <1>7 DEF WindowSound
<1>9. PreparedSound'
  <2>1. CASE mem' = mem
    BY <1>1, <2>1 DEF PreparedSound, Coherent, WindowSound, OneStep
  <2>2. CASE prepared = {}
    BY <1>1, <2>2 DEF PreparedSound
  <2> QED
    BY <1>7, <2>1, <2>2
<1> QED
  BY <1>1, <1>5, <1>6, <1>8, <1>9

(* Every call a client makes is a control call or a memory request of the  *)
(* right shape.                                                            *)
LEMMA NextInv ==
  ASSUME SvcInv, Next
  PROVE  /\ SvcInv'
         /\ \/ UNCHANGED <<state, enablePc>>
            \/ OneStep(state, enablePc, state', enablePc')
<1>1. CASE ClientCall
  <2>1. PICK phase \in {"PREPARE", "COMMIT", "CANCEL"}, op \in Op, slot \in ClientPc,
             token \in {0, nextToken - 1}, lag \in 0..1, cand \in Candidates,
             sel \in Selector \cup {"NONE"} :
          Control([phase |-> phase, op |-> op, selector |-> sel, pc |-> slot,
                   token |-> token, revision |-> state.revision - lag,
                   epoch |-> state.epoch, before |-> state.arch,
                   candidate |-> cand])
    BY <1>1 DEF ClientCall
  <2>2. state.arch \in Snapshot /\ state.revision \in 1..CounterMax
        /\ state.epoch \in 1..CounterMax /\ nextToken \in 1..TokenMax
    BY DEF SvcInv, TypeOK, State
  <2>3. cand \in Snapshot
    <3>1. \A t \in Sctlr : [state.arch EXCEPT !.sctlr = t] \in Snapshot
      BY <2>2 DEF Snapshot
    <3>2. \A r \in Reg, v \in Value : [state.arch EXCEPT !.regs[r] = v] \in Snapshot
      BY <2>2 DEF Snapshot, Bank
    <3> QED
      BY <3>1, <3>2 DEF Candidates
  <2>4. /\ state.revision - lag \in Nat /\ state.epoch \in Nat /\ token \in Nat
        /\ slot \in Addr
    BY <2>2, ServiceAssumption
  <2>5. [phase |-> phase, op |-> op, selector |-> sel, pc |-> slot,
         token |-> token, revision |-> state.revision - lag,
         epoch |-> state.epoch, before |-> state.arch,
         candidate |-> cand] \in Request
    BY <2>2, <2>3, <2>4 DEF Request
  <2> QED
    BY <2>1, <2>5, ControlInv
<1>2. CASE ClientAccess
  <2>1. PICK kind \in {"FETCH", "LOAD", "STORE"}, slot \in ClientPc, va \in Addr,
             pair \in BOOLEAN, aligned \in BOOLEAN, lag \in 0..1,
             first \in Storable, second \in Storable :
          Execute([kind |-> kind, pc |-> slot, va |-> va, pair |-> pair,
                   aligned |-> aligned, eff |-> state.eff,
                   epoch |-> state.epoch - lag], first, second)
    BY <1>2 DEF ClientAccess
  <2>2. /\ state.eff \in Snapshot /\ state.epoch - lag \in Nat
        /\ slot \in Addr /\ first \in Word /\ second \in Word
    BY ServiceAssumption DEF SvcInv, TypeOK, State
  <2>3. [kind |-> kind, pc |-> slot, va |-> va, pair |-> pair,
         aligned |-> aligned, eff |-> state.eff,
         epoch |-> state.epoch - lag] \in Access
    BY <2>2 DEF Access
  <2> QED
    BY <2>1, <2>2, <2>3, ExecuteInv
<1> QED
  BY <1>1, <1>2 DEF Next

(* The invariant holds in every reachable state of the owner.              *)
THEOREM OwnerInvariant == Spec => []SvcInv
<1>1. SvcInv /\ [Next]_svcVars => SvcInv'
  <2> SUFFICES ASSUME SvcInv, [Next]_svcVars PROVE SvcInv'
    OBVIOUS
  <2>1. CASE Next
    BY <2>1, NextInv
  <2>2. CASE UNCHANGED svcVars
    BY <2>2 DEF svcVars, SvcInv, TypeOK, Coherent, WindowSound, PreparedSound, OneStep
  <2> QED
    BY <2>1, <2>2
<1> QED
  BY InitInv, <1>1, PTL DEF Spec

(* Type correctness: no counter of the owner leaves its width, whatever    *)
(* calls a client makes (dynamic.rs:105,110,114,120).                      *)
THEOREM TypeCorrect == Spec => []TypeOK
<1>1. SvcInv => TypeOK
  BY DEF SvcInv
<1> QED
  BY OwnerInvariant, <1>1, PTL

(* No TLB entry outlives its translation, for every page table.            *)
THEOREM TlbIsCoherent == Spec => []TlbCoherent
<1>1. SvcInv => TlbCoherent
  BY DEF SvcInv, Coherent, TlbCoherent
<1> QED
  BY OwnerInvariant, <1>1, PTL

(* The instruction after an enabling MSR stays an owned, identity-mapped   *)
(* ISB until it has executed.                                              *)
THEOREM WindowIsGuarded == Spec => []TransitionCode
<1>1. SvcInv => TransitionCode
  BY DEF SvcInv, WindowSound, TransitionCode
<1> QED
  BY OwnerInvariant, <1>1, PTL

(* Translation is enabled once, through the window, and never disabled.    *)
THEOREM EnableIsOneWay == Spec => OneWayEnable
<1> DEFINE A == /\ state.arch.sctlr.m => state'.arch.sctlr.m
                /\ state.eff.sctlr.m => state'.eff.sctlr.m
                /\ ~state.eff.sctlr.m /\ state'.eff.sctlr.m =>
                     enablePc # {} /\ enablePc' = {}
<1>1. SvcInv /\ [Next]_svcVars => [A]_svcVars
  BY NextInv DEF OneStep, svcVars
<1> QED
  BY OwnerInvariant, <1>1, PTL DEF Spec, OneWayEnable

(* The two counters identify the two snapshots.                            *)
THEOREM CountersIdentify == Spec => CountersNameSnapshots
<1> DEFINE A == /\ state'.revision \in {state.revision, state.revision + 1}
                /\ state'.epoch \in {state.epoch, state.epoch + 1}
                /\ state'.revision = state.revision => state'.arch = state.arch
                /\ state'.epoch = state.epoch => state'.eff = state.eff
<1>1. SvcInv /\ [Next]_svcVars => [A]_svcVars
  BY NextInv DEF OneStep, svcVars
<1> QED
  BY OwnerInvariant, <1>1, PTL DEF Spec, CountersNameSnapshots

-----------------------------------------------------------------------------
(* The dispatcher. *)

\* The window both sides have once the instruction is acknowledged.
EnablingAfter == CASE instr.op = "ISB" -> {}
                   [] instr.sel = "SCTLR" -> {pc + 1}
                   [] OTHER -> enabling

InStep == state = known /\ bank = known.arch /\ enabling = enablePc

\* A live transaction is the dispatcher's own prediction.
Foretold == \A p \in prepared : p.state = expected /\ p.enablePc = EnablingAfter

\* The PREPARE request the dispatcher sent.
Sent(q) == /\ q.phase = "PREPARE"
           /\ q.op = instr.op /\ q.selector = instr.sel /\ q.pc = pc
           /\ expected = ExpectedState(q.candidate)

\* A reply that claims success carries a token.
TokenOK(r) == r.result = "OK" => "token" \in DOMAIN r /\ r.token \in Nat

Committed == state = expected /\ enablePc = EnablingAfter /\ prepared = {}

\* What one control instruction makes of s, or nothing.
Predictable(s) == {s} \cup Atomic!Write(s) \cup Atomic!Synchronize(s)
                      \cup Atomic!Invalidate(s)

Profile(s) == \A b \in {s.arch.regs, s.eff.regs} :
                /\ b \in ValidBanks \cap ZeroAsidBanks
                /\ FixedField[b] = FixedField[Seed.regs]

DispatcherType ==
  /\ known \in State /\ pc \in Addr /\ instr \in Word
  /\ tag \in {"KNOWN", "UNCERTAIN"}
  /\ mode \in {"loop", "execute", "prepare", "commit", "done"}

IdleInv == mode \in {"loop", "execute"} =>
             tag = "KNOWN" /\ InStep /\ prepared = {}

PrepareInvariant ==
  mode = "prepare" =>
    /\ tag = "KNOWN" /\ InStep /\ Foretold
    /\ expected \in Predictable(known)
    /\ instr.op \in Op
    /\ \A q \in request : q \in Request /\ Sent(q)
    /\ \A r \in reply : TokenOK(r)

CommitInvariant ==
  mode = "commit" =>
    /\ tag = "KNOWN" /\ bank = known.arch /\ Foretold
    /\ expected \in Predictable(known)
    /\ \A q \in request : q \in Request /\ q.phase = "COMMIT"
    /\ \A r \in reply : TokenOK(r) /\ (r.result = "OK" => Committed)
    /\ InStep \/ Committed
    /\ prepared # {} => InStep

DoneInvariant ==
  mode = "done" => /\ tag = "KNOWN" => InStep
                   /\ state \in {known, expected}

RunInv == /\ SvcInv
          /\ DispatcherType
          /\ Profile(known) /\ Profile(expected)
          /\ IdleInv /\ PrepareInvariant /\ CommitInvariant /\ DoneInvariant

(* A run starts on a fresh owner, with its state (memory_dynamic.inc:119). *)
LEMMA RunInitInv == RunInit => RunInv
<1> SUFFICES ASSUME RunInit PROVE RunInv
  OBVIOUS
<1>1. Init
  BY DEF RunInit
<1>2. SvcInv
  BY <1>1, InitInv
<1>3. /\ known = state /\ expected = state /\ bank = state.arch
      /\ tag = "KNOWN" /\ mode = "loop" /\ enabling = {} /\ instr = IsbWord
      /\ pc \in Addr
  BY RunAssumption DEF RunInit
<1>4. DispatcherType
  BY <1>2, <1>3 DEF DispatcherType, SvcInv, TypeOK, IsbWord, Word
<1>5. Profile(state)
  BY <1>1, ServiceAssumption DEF Init, Profile
<1>6. IdleInv
  BY <1>1, <1>3 DEF Init, IdleInv, InStep
<1> QED
  BY <1>2, <1>3, <1>4, <1>5, <1>6
     DEF RunInv, PrepareInvariant, CommitInvariant, DoneInvariant

(* A step between two exchanges that touches neither side's control state. *)
LEMMA QuietStep ==
  ASSUME RunInv, SvcInv', mode \in {"loop", "execute"},
         mode' \in {"loop", "execute", "done"}, pc' \in Addr, instr' \in Word,
         UNCHANGED <<state, prepared, enablePc, known, tag, bank, enabling, expected>>
  PROVE  RunInv'
<1>1. tag = "KNOWN" /\ InStep /\ prepared = {}
  BY DEF RunInv, IdleInv
<1>2. DispatcherType'
  BY DEF RunInv, DispatcherType
<1>3. Profile(known)' /\ Profile(expected)'
  BY DEF RunInv, Profile
<1>4. InStep'
  BY <1>1 DEF InStep
<1>5. IdleInv' /\ DoneInvariant'
  BY <1>1, <1>4 DEF IdleInv, DoneInvariant, InStep
<1>6. PrepareInvariant' /\ CommitInvariant'
  BY DEF PrepareInvariant, CommitInvariant
<1> QED
  BY <1>2, <1>3, <1>5, <1>6 DEF RunInv

(* The accesses the dispatcher sends have the shape execute() expects.     *)
LEMMA AccessShape ==
  ASSUME RunInv
  PROVE  /\ FetchAccess \in Access
         /\ instr.op \in {"LOAD", "STORE"} =>
              \A va \in Addr, pair \in BOOLEAN, aligned \in BOOLEAN :
                DataAccess(va, pair, aligned) \in Access
<1>1. known.eff \in Snapshot /\ known.epoch \in Nat /\ pc \in Addr
  BY ServiceAssumption DEF RunInv, DispatcherType, State
<1> QED
  BY <1>1 DEF FetchAccess, DataAccess, Access

LEMMA NextPcInRange == ASSUME pc \in Addr PROVE NextPc \in Addr
BY ServiceAssumption DEF NextPc, Addr

(* What an access leaves alone at the owner, served or not.                *)
LEMMA AccessQuiet ==
  ASSUME RunInv, NEW q \in Access, NEW first \in Word, NEW second \in Word,
         Execute(q, first, second) \/ UNCHANGED svcVars
  PROVE  SvcInv' /\ UNCHANGED <<state, prepared, enablePc>>
<1>1. CASE Execute(q, first, second)
  BY <1>1, ExecuteInv DEF RunInv, Execute
<1>2. CASE UNCHANGED svcVars
  BY <1>2 DEF svcVars, RunInv, SvcInv, TypeOK, Coherent, WindowSound,
              PreparedSound, OneStep
<1> QED
  BY <1>1, <1>2

(* The fetch, its failures, and the stops at the top of the loop           *)
(* (memory_dynamic.inc:119-140).                                           *)
LEMMA FetchKeeps ==
  ASSUME RunInv, Fetch \/ FetchFailure \/ BudgetStop \/ ProtectFailure
  PROVE  RunInv'
<1> USE DEF RunInv, DispatcherType
<1>0. IsbWord \in Word
  BY DEF IsbWord, Word
<1>1. CASE Fetch
  <2>1. Execute(FetchAccess, IsbWord, IsbWord)
    BY <1>1 DEF Fetch
  <2>2. SvcInv' /\ UNCHANGED <<state, prepared, enablePc>>
    BY <2>1, <1>0, AccessShape, AccessQuiet
  <2>3. instr' \in Word
    <3>1. CASE instr' = instr
      BY <3>1
    <3>2. CASE instr' # instr
      <4>1. ExecuteResult(FetchAccess) = "OK" /\ instr' = mem[Translate(pc)]
        BY <1>1, <3>2 DEF Fetch
      <4>2. FetchAccess.va = pc /\ FetchAccess.kind = "FETCH"
        BY DEF FetchAccess
      <4>3. SpanResult(FetchAccess) = "OK"
        BY <4>1 DEF ExecuteResult
      <4>4. SlotResult("FETCH", pc) = "OK"
        BY <4>2, <4>3 DEF SpanResult
      <4>5. Translate(pc) \in Backed
        BY <4>4 DEF SlotResult
      <4> QED
        BY <4>1, <4>5 DEF SvcInv, TypeOK
    <3> QED
      BY <3>1, <3>2
  <2>4. /\ mode = "loop" /\ mode' \in {"execute", "done"}
        /\ UNCHANGED <<known, tag, bank, pc, enabling, expected>>
    BY <1>1 DEF Fetch, Exit
  <2> QED
    BY <2>2, <2>3, <2>4, QuietStep
<1>2. CASE FetchFailure
  <2>1. /\ Execute(FetchAccess, IsbWord, IsbWord) \/ UNCHANGED svcVars
        /\ mode = "loop" /\ mode' = "done"
        /\ UNCHANGED <<known, tag, bank, pc, instr, enabling, expected>>
    BY <1>2 DEF FetchFailure, AccessFailure, Exit
  <2>2. SvcInv' /\ UNCHANGED <<state, prepared, enablePc>>
    BY <2>1, <1>0, AccessShape, AccessQuiet
  <2> QED
    BY <2>1, <2>2, QuietStep
<1>3. CASE BudgetStop \/ ProtectFailure
  <2>1. /\ UNCHANGED svcVars
        /\ mode \in {"loop", "execute"} /\ mode' = "done"
        /\ UNCHANGED <<known, tag, bank, pc, instr, enabling, expected>>
    BY <1>3 DEF BudgetStop, ProtectFailure, Exit
  <2>2. SvcInv' /\ UNCHANGED <<state, prepared, enablePc>>
    BY <2>1, <1>0, AccessShape, AccessQuiet
  <2> QED
    BY <2>1, <2>2, QuietStep
<1> QED
  BY <1>1, <1>2, <1>3

(* Every instruction but a control instruction (memory_dynamic.inc:141).   *)
LEMMA InstructionKeeps ==
  ASSUME RunInv,
         ExecuteAlu \/ ExecuteBranch \/ ExecuteOther \/ ExecuteData \/ DataFailure
  PROVE  RunInv'
<1> USE DEF RunInv, DispatcherType
<1>0. NextPc \in Addr
  BY NextPcInRange
<1>1. CASE ExecuteAlu \/ ExecuteBranch \/ ExecuteOther
  <2>1. /\ UNCHANGED svcVars
        /\ mode = "execute" /\ mode' \in {"loop", "done"}
        /\ pc' \in Addr
        /\ UNCHANGED <<known, tag, bank, instr, enabling, expected>>
    BY <1>0, <1>1 DEF ExecuteAlu, ExecuteBranch, ExecuteOther, Retire, Exit
  <2>2. SvcInv' /\ UNCHANGED <<state, prepared, enablePc>>
    BY <2>1, AccessShape, AccessQuiet DEF Word
  <2> QED
    BY <2>1, <2>2, QuietStep
<1>2. CASE ExecuteData
  <2>1. PICK va \in Addr, pair \in BOOLEAN, aligned \in BOOLEAN,
             first \in Storable, second \in Storable :
          LET q == DataAccess(va, pair, aligned) IN
          /\ Execute(q, first, second)
          /\ IF ExecuteResult(q) = "OK" THEN Retire(NextPc)
             ELSE Exit(ProviderStatus(ExecuteResult(q))) /\ UNCHANGED <<pc, retired>>
    BY <1>2 DEF ExecuteData
  <2>2. /\ mode = "execute" /\ instr.op \in {"LOAD", "STORE"}
        /\ UNCHANGED <<known, tag, bank, instr, enabling, expected>>
    BY <1>2 DEF ExecuteData
  <2>3. mode' \in {"loop", "done"} /\ pc' \in Addr
    BY <1>0, <2>1 DEF Retire, Exit
  <2>4. first \in Word /\ second \in Word
    BY ServiceAssumption
  <2>5. SvcInv' /\ UNCHANGED <<state, prepared, enablePc>>
    BY <2>1, <2>2, <2>4, AccessShape, AccessQuiet
  <2> QED
    BY <2>2, <2>3, <2>5, QuietStep
<1>3. CASE DataFailure
  <2>1. PICK va \in Addr, pair \in BOOLEAN, first \in Storable, second \in Storable :
          AccessFailure(DataAccess(va, pair, TRUE), first, second)
    BY <1>3 DEF DataFailure
  <2>2. /\ mode = "execute" /\ mode' = "done" /\ instr.op \in {"LOAD", "STORE"}
        /\ UNCHANGED <<known, tag, bank, pc, instr, enabling, expected>>
        /\ \/ Execute(DataAccess(va, pair, TRUE), first, second)
           \/ UNCHANGED svcVars
    BY <1>3, <2>1 DEF DataFailure, AccessFailure, Exit
  <2>3. first \in Word /\ second \in Word
    BY ServiceAssumption
  <2>4. SvcInv' /\ UNCHANGED <<state, prepared, enablePc>>
    BY <2>2, <2>3, AccessShape, AccessQuiet
  <2> QED
    BY <2>2, <2>4, QuietStep
<1> QED
  BY <1>1, <1>2, <1>3

(* The operand of a control instruction gives a snapshot, one register     *)
(* away from the acknowledged one (memory_dynamic.inc:66-73).              *)
LEMMA OperandShape ==
  ASSUME RunInv, instr.op \in Op, NEW cand \in Operands
  PROVE  /\ cand \in Snapshot
         /\ instr.sel # "SCTLR" => cand.sctlr = known.arch.sctlr
         /\ instr.sel = "SCTLR" => cand.regs = known.arch.regs
<1>1. known.arch \in Snapshot /\ instr \in Word
  BY DEF RunInv, DispatcherType, State
<1>2. CASE instr.op # "WRITE"
  <2>1. instr.sel = "NONE"
    BY <1>1, <1>2 DEF Word
  <2>2. cand = known.arch
    BY <1>2, <2>1 DEF Operands
  <2> QED
    BY <1>1, <2>1, <2>2
<1>3. CASE instr.op = "WRITE" /\ instr.sel = "SCTLR"
  <2>1. PICK t \in Sctlr : cand = [known.arch EXCEPT !.sctlr = t]
    BY <1>3 DEF Operands
  <2> QED
    BY <1>1, <1>3, <2>1 DEF Snapshot
<1>4. CASE instr.op = "WRITE" /\ instr.sel # "SCTLR"
  <2>1. PICK v \in Value : cand = [known.arch EXCEPT !.regs[instr.sel] = v]
    BY <1>4 DEF Operands
  <2>2. instr.sel \in Reg
    BY <1>1, <1>4 DEF Word, Selector
  <2>3. [known.arch.regs EXCEPT ![instr.sel] = v] \in Bank
    BY <1>1, <2>2 DEF Snapshot, Bank
  <2> QED
    BY <1>1, <1>4, <2>1, <2>3 DEF Snapshot
<1> QED
  BY <1>2, <1>3, <1>4

(* The dispatcher's prediction is one step of the abstract control state,  *)
(* and in the profile (memory_dynamic.inc:74-93).                          *)
LEMMA PredictionSound ==
  ASSUME RunInv, mode = "execute", instr.op \in Op,
         NEW cand \in Operands, Askable(cand)
  PROVE  /\ ExpectedState(cand) \in Predictable(known)
         /\ Profile(ExpectedState(cand))
<1>1. known \in State /\ known.arch \in Snapshot /\ Profile(known)
  BY DEF RunInv, DispatcherType, State
<1>2. CASE instr.op = "WRITE"
  <2>1. ExpectedState(cand) = [known EXCEPT !.arch = cand, !.revision = @ + 1]
    BY <1>2 DEF ExpectedState
  <2>2. /\ ~known.arch.sctlr.m /\ DynamicControlsValid(cand.regs)
        /\ FixedField[cand.regs] = FixedField[known.eff.regs]
        /\ instr.sel = "SCTLR" =>
             /\ cand.sctlr = [known.arch.sctlr EXCEPT !.m = TRUE]
             /\ ~KnownPending
    BY <1>2 DEF Askable
  <2>3. cand \in Snapshot
    BY OperandShape
  <2>4. cand.sctlr # known.arch.sctlr =>
          cand = [known.arch EXCEPT !.sctlr.m = TRUE] /\ known.arch = known.eff
    <3> SUFFICES ASSUME cand.sctlr # known.arch.sctlr
                 PROVE  cand = [known.arch EXCEPT !.sctlr.m = TRUE]
                        /\ known.arch = known.eff
      OBVIOUS
    <3>1. instr.sel = "SCTLR"
      BY OperandShape
    <3>2. /\ cand.sctlr = [known.arch.sctlr EXCEPT !.m = TRUE]
          /\ cand.regs = known.arch.regs /\ ~KnownPending
      BY <2>2, <3>1, OperandShape
    <3> QED
      BY <1>1, <2>3, <3>2 DEF Snapshot, KnownPending
  <2>5. ExpectedState(cand) \in Atomic!Write(known)
    BY <2>1, <2>2, <2>3, <2>4 DEF Atomic!Write
  <2>6. ExpectedState(cand).arch = cand /\ ExpectedState(cand).eff = known.eff
    BY <1>1, <2>1 DEF State
  <2>7. Profile(ExpectedState(cand))
    BY <1>1, <2>2, <2>6 DEF Profile, DynamicControlsValid
  <2> QED
    BY <2>5, <2>7 DEF Predictable
<1>3. CASE instr.op = "ISB" /\ KnownPending
  <2>1. ExpectedState(cand) = [known EXCEPT !.eff = known.arch, !.epoch = @ + 1]
    BY <1>3 DEF ExpectedState
  <2>2. ExpectedState(cand).arch = known.arch /\ ExpectedState(cand).eff = known.arch
    BY <1>1, <2>1 DEF State
  <2> QED
    BY <1>1, <2>1, <2>2 DEF Predictable, Atomic!Synchronize, Profile
<1>4. CASE instr.op = "TLBI"
  <2>1. ExpectedState(cand) = [known EXCEPT !.invalidations = @ + 1]
    BY <1>4 DEF ExpectedState
  <2>2. ExpectedState(cand).arch = known.arch /\ ExpectedState(cand).eff = known.eff
    BY <1>1, <2>1 DEF State
  <2> QED
    BY <1>1, <2>1, <2>2 DEF Predictable, Atomic!Invalidate, Profile
<1>5. CASE instr.op = "DSB" \/ (instr.op = "ISB" /\ ~KnownPending)
  <2>1. ExpectedState(cand) = known
    BY <1>5 DEF ExpectedState
  <2> QED
    BY <1>1, <2>1 DEF Predictable
<1> QED
  BY <1>2, <1>3, <1>4, <1>5 DEF Op

(* The dispatcher asks only from an idle, agreed state, or stops there     *)
(* (memory_dynamic.inc:66-95).                                             *)
LEMMA ControlStartKeeps ==
  ASSUME RunInv, ControlStart
  PROVE  RunInv'
<1> USE DEF RunInv
<1>0. PICK cand \in Operands :
        IF Askable(cand)
        THEN /\ request' = {PrepareRequest(cand)}
             /\ expected' = ExpectedState(cand)
             /\ reply' = {} /\ mode' = "prepare" /\ UNCHANGED <<status, tag>>
        ELSE /\ DynamicFailure("UNSUPPORTED", FALSE)
             /\ UNCHANGED <<request, expected, reply>>
  BY DEF ControlStart
<1>1. /\ mode = "execute" /\ instr.op \in Op
      /\ UNCHANGED <<svcVars, known, bank, pc, retired, enabling, instr>>
  BY DEF ControlStart
<1>2. UNCHANGED <<state, prepared, enablePc, mmu, mem, nextToken>>
  BY <1>1 DEF svcVars
<1>3. SvcInv'
  BY <1>2 DEF SvcInv, TypeOK, Coherent, WindowSound, PreparedSound, OneStep
<1>4. tag = "KNOWN" /\ InStep /\ prepared = {}
  BY <1>1 DEF IdleInv
<1>5. CASE Askable(cand)
  <2>1. /\ request' = {PrepareRequest(cand)} /\ expected' = ExpectedState(cand)
        /\ reply' = {} /\ mode' = "prepare" /\ tag' = tag
    BY <1>0, <1>5
  <2>2. expected' \in Predictable(known)' /\ Profile(expected)'
    <3>1. ExpectedState(cand) \in Predictable(known) /\ Profile(ExpectedState(cand))
      BY <1>1, <1>5, PredictionSound
    <3>2. Predictable(known)' = Predictable(known)
      BY <1>1 DEF Predictable, Atomic!Write, Atomic!Synchronize, Atomic!Invalidate
    <3> QED
      BY <2>1, <3>1, <3>2 DEF Profile
  <2>3. PrepareRequest(cand) \in Request
    <3>1. /\ cand \in Snapshot /\ known.arch \in Snapshot /\ pc \in Addr
          /\ known.revision \in Nat /\ known.epoch \in Nat
          /\ instr.sel \in Selector \cup {"NONE"}
      BY <1>1, OperandShape, ServiceAssumption DEF DispatcherType, State, Word
    <3> QED
      BY <1>1, <3>1 DEF PrepareRequest, Request
  <2>4. (\A q \in request : q \in Request /\ Sent(q))'
    <3>1. PICK q \in Request : q = PrepareRequest(cand)
      BY <2>3
    <3>2. /\ q.phase = "PREPARE" /\ q.op = instr.op /\ q.selector = instr.sel
          /\ q.pc = pc /\ q.candidate = cand
      BY <3>1 DEF PrepareRequest
    <3>3. request' = {q} /\ expected' = ExpectedState(cand)
      BY <2>1, <3>1
    <3>4. ExpectedState(q.candidate)' = ExpectedState(cand)
      BY <1>1, <3>2 DEF ExpectedState, KnownPending
    <3>5. Sent(q)'
      BY <1>1, <3>2, <3>3, <3>4 DEF Sent
    <3> QED
      BY <3>3, <3>5
  <2>5. InStep' /\ Foretold' /\ DispatcherType' /\ Profile(known)'
    BY <1>1, <1>2, <1>4, <2>1 DEF InStep, Foretold, DispatcherType, Profile
  <2>6. PrepareInvariant'
    BY <1>1, <1>4, <2>1, <2>2, <2>4, <2>5 DEF PrepareInvariant
  <2> QED
    BY <1>3, <2>1, <2>2, <2>5, <2>6 DEF IdleInv, CommitInvariant, DoneInvariant
<1>6. CASE ~Askable(cand)
  <2>1. mode' = "done" /\ tag' = tag /\ expected' = expected
    BY <1>0, <1>6 DEF DynamicFailure, Exit
  <2> QED
    BY <1>1, <1>2, <1>3, <2>1, QuietStep DEF DispatcherType
<1> QED
  BY <1>5, <1>6

(* COMMIT is sent on the exact proposal only, while both sides agree       *)
(* (memory_dynamic.inc:96-98).                                             *)
LEMMA PrepareReturnedKeeps ==
  ASSUME RunInv, PrepareReturned
  PROVE  RunInv'
<1> USE DEF RunInv
<1>0. PICK r \in reply, q \in request :
        IF r.result = "OK"
        THEN IF r.token # 0 /\ ReplyIs(r, "PREPARE", "PROPOSED", r.token)
             THEN /\ request' = {[q EXCEPT !.phase = "COMMIT", !.token = r.token]}
                  /\ reply' = {} /\ mode' = "commit" /\ UNCHANGED <<status, tag>>
             ELSE /\ DynamicFailure("INVALID_REPLY", FALSE)
                  /\ UNCHANGED <<request, reply>>
        ELSE /\ DynamicFailure(ProviderStatus(r.result), FALSE)
             /\ UNCHANGED <<request, reply>>
  BY DEF PrepareReturned
<1>1. /\ mode = "prepare"
      /\ UNCHANGED <<svcVars, known, bank, pc, retired, enabling, instr, expected>>
  BY DEF PrepareReturned
<1>2. UNCHANGED <<state, prepared, enablePc, mmu, mem, nextToken>>
  BY <1>1 DEF svcVars
<1>3. SvcInv'
  BY <1>2 DEF SvcInv, TypeOK, Coherent, WindowSound, PreparedSound, OneStep
<1>4. /\ tag = "KNOWN" /\ InStep /\ Foretold /\ expected \in Predictable(known)
      /\ q \in Request /\ TokenOK(r)
  BY <1>1 DEF PrepareInvariant
<1>5. /\ InStep' /\ Foretold' /\ Profile(known)' /\ Profile(expected)'
      /\ expected' \in Predictable(known)'
  BY <1>1, <1>2, <1>4
     DEF InStep, Foretold, EnablingAfter, Profile, Predictable, Atomic!Write,
         Atomic!Synchronize, Atomic!Invalidate
<1>6. CASE mode' = "commit"
  <2>1. /\ r.result = "OK" /\ reply' = {} /\ tag' = tag
        /\ request' = {[q EXCEPT !.phase = "COMMIT", !.token = r.token]}
    BY <1>0, <1>6 DEF DynamicFailure, Exit
  <2>2. r.token \in Nat
    BY <1>4, <2>1 DEF TokenOK
  <2>3. /\ [q EXCEPT !.phase = "COMMIT", !.token = r.token] \in Request
        /\ [q EXCEPT !.phase = "COMMIT", !.token = r.token].phase = "COMMIT"
    BY <1>4, <2>2 DEF Request
  <2>4. CommitInvariant'
    BY <1>4, <1>5, <2>1, <2>3 DEF CommitInvariant, InStep
  <2>5. DispatcherType'
    BY <1>1, <1>6, <2>1 DEF DispatcherType
  <2> QED
    BY <1>3, <1>5, <1>6, <2>4, <2>5 DEF IdleInv, PrepareInvariant, DoneInvariant
<1>7. CASE mode' # "commit"
  <2>1. mode' = "done" /\ tag' = tag
    BY <1>0, <1>7 DEF DynamicFailure, Exit
  <2>2. DispatcherType'
    BY <1>1, <2>1 DEF DispatcherType
  <2>3. DoneInvariant'
    BY <1>5 DEF DoneInvariant, InStep
  <2> QED
    BY <1>3, <1>5, <2>1, <2>2, <2>3 DEF IdleInv, PrepareInvariant, CommitInvariant
<1> QED
  BY <1>6, <1>7

(* The exact acknowledgement means that the owner is at the predicted      *)
(* state; anything else leaves the two states it can be at, and the tag    *)
(* says so (memory_dynamic.inc:99-112).                                    *)
LEMMA CommitReturnedKeeps ==
  ASSUME RunInv, CommitReturned
  PROVE  /\ RunInv'
         /\ \/ Atomic!Acknowledge
            \/ Atomic!Doubt
<1> USE DEF RunInv
<1>0. PICK r \in reply :
        IF ReplyIs(r, "COMMIT", "KNOWN", 0)
        THEN /\ bank' = expected.arch
             /\ known' = expected
             /\ enabling' = CASE instr.op = "ISB" -> {}
                              [] instr.sel = "SCTLR" -> {pc + 1}
                              [] OTHER -> enabling
             /\ Retire(NextPc)
             /\ request' = {} /\ reply' = {}
             /\ UNCHANGED <<tag, instr, expected>>
        ELSE /\ DynamicFailure(IF r = Lost THEN "CALLBACK_FAILURE"
                               ELSE "INVALID_REPLY", TRUE)
             /\ UNCHANGED <<known, bank, pc, retired, enabling, instr, request,
                            expected, reply>>
  BY DEF CommitReturned
<1>1. mode = "commit" /\ UNCHANGED svcVars
  BY DEF CommitReturned
<1>2. UNCHANGED <<state, prepared, enablePc, mmu, mem, nextToken>>
  BY <1>1 DEF svcVars
<1>3. SvcInv'
  BY <1>2 DEF SvcInv, TypeOK, Coherent, WindowSound, PreparedSound, OneStep
<1>4. /\ tag = "KNOWN" /\ bank = known.arch
      /\ InStep \/ Committed
      /\ r.result = "OK" => Committed
  BY <1>1 DEF CommitInvariant
<1>5. CASE ReplyIs(r, "COMMIT", "KNOWN", 0)
  <2>1. /\ bank' = expected.arch /\ known' = expected
        /\ enabling' = EnablingAfter
        /\ pc' = NextPc /\ mode' = "loop"
        /\ UNCHANGED <<tag, instr, expected>>
    BY <1>0, <1>5 DEF EnablingAfter, Retire
  <2>2. Committed
    BY <1>4, <1>5 DEF ReplyIs
  <2>3. InStep' /\ prepared' = {}
    BY <1>2, <2>1, <2>2 DEF InStep, Committed
  <2>4. DispatcherType'
    BY <1>2, <2>1, <2>2, NextPcInRange DEF DispatcherType, Committed, SvcInv, TypeOK
  <2>5. Profile(known)' /\ Profile(expected)'
    BY <2>1 DEF Profile
  <2>6. RunInv'
    BY <1>3, <1>4, <2>1, <2>3, <2>4, <2>5
       DEF IdleInv, PrepareInvariant, CommitInvariant, DoneInvariant
  <2>7. Atomic!Acknowledge
    BY <1>2, <1>4, <2>1, <2>2 DEF Atomic!Acknowledge, Committed
  <2> QED
    BY <2>6, <2>7
<1>6. CASE ~ReplyIs(r, "COMMIT", "KNOWN", 0)
  <2>1. /\ mode' = "done" /\ tag' = "UNCERTAIN"
        /\ UNCHANGED <<known, bank, pc, enabling, instr, expected>>
    BY <1>0, <1>6 DEF DynamicFailure, Exit
  <2>2. DispatcherType' /\ Profile(known)' /\ Profile(expected)'
    BY <2>1 DEF DispatcherType, Profile
  <2>3. DoneInvariant'
    BY <1>2, <1>4, <2>1 DEF DoneInvariant, InStep, Committed
  <2>4. RunInv'
    BY <1>3, <2>1, <2>2, <2>3 DEF IdleInv, PrepareInvariant, CommitInvariant
  <2>5. Atomic!Doubt
    BY <1>2, <2>1 DEF Atomic!Doubt
  <2> QED
    BY <2>4, <2>5
<1> QED
  BY <1>5, <1>6

(* On an agreed state the owner's proposal for the dispatcher's request is *)
(* the dispatcher's prediction, window included (dynamic.rs:89-118,        *)
(* memory_dynamic.inc:74-93).                                              *)
LEMMA ProposalIsPrediction ==
  ASSUME RunInv, InStep, NEW q \in Request, Sent(q)
  PROVE  Proposal(q) = expected /\ ProposedEnablePc(q) = EnablingAfter
<1>1. instr \in Word /\ WindowSound(enablePc, state)
  BY DEF RunInv, DispatcherType, SvcInv
<1>2. Proposal(q) = expected
  BY DEF Proposal, AfterWrite, Pending, Sent, ExpectedState, KnownPending, InStep
<1>3. ~Pending => enablePc = {}
  BY <1>1 DEF Pending, WindowSound
<1>4. ProposedEnablePc(q) = EnablingAfter
  <2>1. CASE instr.op = "ISB"
    <3>1. instr.sel = "NONE"
      BY <1>1, <2>1 DEF Word
    <3> QED
      BY <1>3, <2>1, <3>1 DEF ProposedEnablePc, EnablingAfter, Sent, InStep
  <2>2. CASE instr.op = "WRITE"
    BY <2>2 DEF ProposedEnablePc, EnablingAfter, Sent, InStep
  <2>3. CASE instr.op \notin {"ISB", "WRITE"}
    <3>1. instr.sel = "NONE"
      BY <1>1, <2>3 DEF Word
    <3> QED
      BY <2>3, <3>1 DEF ProposedEnablePc, EnablingAfter, Sent, InStep
  <2> QED
    BY <2>1, <2>2, <2>3
<1> QED
  BY <1>2, <1>4

(* The reply to a request claims success only with a token.                *)
LEMMA ReplyToken ==
  ASSUME RunInv, NEW q
  PROVE  TokenOK(ReplyTo(q))
<1>1. nextToken \in Nat
  BY ServiceAssumption DEF RunInv, SvcInv, TypeOK
<1>2. CASE Result(q) # "OK"
  BY <1>2 DEF ReplyTo, TokenOK
<1>3. CASE Result(q) = "OK"
  BY <1>1, <1>3 DEF ReplyTo, TokenOK
<1> QED
  BY <1>2, <1>3

(* PREPARE at the owner: the transaction it opens is the one foretold, and *)
(* a second PREPARE is refused (dynamic.rs:81-122).                        *)
LEMMA ServePrepareKeeps ==
  ASSUME RunInv, Serve, mode = "prepare"
  PROVE  RunInv' /\ UNCHANGED <<state, known, tag>>
<1> USE DEF RunInv
<1>0. PICK q \in request : Control(q) /\ reply' = {ReplyTo(q)}
  BY DEF Serve
<1>1. UNCHANGED <<known, tag, bank, pc, retired, enabling, mode, instr, request,
                  expected, status>>
  BY DEF Serve
<1>2. /\ tag = "KNOWN" /\ InStep /\ Foretold /\ instr.op \in Op
      /\ expected \in Predictable(known)
      /\ q \in Request /\ Sent(q)
      /\ \A x \in request : x \in Request /\ Sent(x)
  BY DEF PrepareInvariant
<1>3. Refuse(q) \/ Prepare(q)
  BY <1>0, <1>2 DEF Control, Sent, Cancel, Commit
<1>4. SvcInv'
  BY <1>0, <1>2, ControlInv
<1>5. UNCHANGED <<state, enablePc>>
  BY <1>3 DEF Refuse, Prepare, svcVars
<1>6. Foretold'
  <2>1. EnablingAfter' = EnablingAfter
    BY <1>1 DEF EnablingAfter
  <2>2. CASE Refuse(q)
    BY <1>1, <1>2, <2>1, <2>2 DEF Refuse, svcVars, Foretold
  <2>3. CASE Prepare(q)
    <3>1. Proposal(q) = expected /\ ProposedEnablePc(q) = EnablingAfter
      BY <1>2, ProposalIsPrediction
    <3>2. prepared' = {[request |-> q, token |-> nextToken, state |-> expected,
                        mmu |-> ProposedMmu(q), enablePc |-> EnablingAfter]}
      BY <2>3, <3>1 DEF Prepare
    <3> QED
      BY <1>1, <2>1, <3>2 DEF Foretold
  <2> QED
    BY <1>3, <2>2, <2>3
<1>7. (\A x \in request : x \in Request /\ Sent(x))'
  <2>1. ASSUME NEW x \in request PROVE x \in Request /\ Sent(x)'
    BY <1>1, <1>2, <2>1 DEF Sent, ExpectedState, KnownPending
  <2> QED
    BY <1>1, <2>1
<1>8. (\A r \in reply : TokenOK(r))'
  BY <1>0, ReplyToken DEF TokenOK
<1>9. /\ InStep' /\ DispatcherType' /\ Profile(known)' /\ Profile(expected)'
      /\ expected' \in Predictable(known)'
  BY <1>1, <1>2, <1>5
     DEF InStep, DispatcherType, Profile, Predictable, Atomic!Write,
         Atomic!Synchronize, Atomic!Invalidate
<1>10. PrepareInvariant'
  BY <1>1, <1>2, <1>6, <1>7, <1>8, <1>9 DEF PrepareInvariant
<1> QED
  BY <1>1, <1>4, <1>5, <1>9, <1>10 DEF IdleInv, CommitInvariant, DoneInvariant

(* COMMIT at the owner: the foretold transaction is installed once, as one *)
(* step of the abstract state, and a second COMMIT is refused              *)
(* (dynamic.rs:76-79,124-128).                                             *)
LEMMA ServeCommitKeeps ==
  ASSUME RunInv, Serve, mode = "commit"
  PROVE  /\ RunInv'
         /\ Atomic!Apply \/ UNCHANGED <<state, known, tag>>
<1> USE DEF RunInv
<1>0. PICK q \in request : Control(q) /\ reply' = {ReplyTo(q)}
  BY DEF Serve
<1>1. UNCHANGED <<known, tag, bank, pc, retired, enabling, mode, instr, request,
                  expected, status>>
  BY DEF Serve
<1>2. /\ tag = "KNOWN" /\ bank = known.arch /\ Foretold
      /\ expected \in Predictable(known)
      /\ q \in Request /\ q.phase = "COMMIT"
      /\ InStep \/ Committed
      /\ prepared # {} => InStep
      /\ \A x \in request : x \in Request /\ x.phase = "COMMIT"
  BY DEF CommitInvariant
<1>3. Refuse(q) \/ Commit(q)
  BY <1>0, <1>2 DEF Control, Prepare, Cancel
<1>4. SvcInv'
  BY <1>0, <1>2, ControlInv
<1>5. (\A r \in reply : TokenOK(r))'
  BY <1>0, ReplyToken DEF TokenOK
<1>6. /\ DispatcherType' /\ Profile(known)' /\ Profile(expected)'
      /\ expected' \in Predictable(known)'
      /\ EnablingAfter' = EnablingAfter
  BY <1>1, <1>2
     DEF DispatcherType, Profile, Predictable, Atomic!Write,
         Atomic!Synchronize, Atomic!Invalidate, EnablingAfter
<1>7. CASE Refuse(q)
  <2>1. UNCHANGED <<state, prepared, enablePc>> /\ Result(q) # "OK"
    BY <1>7 DEF Refuse, svcVars
  <2>2. (\A r \in reply : r.result # "OK")'
    BY <1>0, <2>1 DEF ReplyTo
  <2>3. Foretold' /\ (InStep \/ Committed)' /\ (prepared # {} => InStep)'
    BY <1>1, <1>2, <1>6, <2>1 DEF Foretold, InStep, Committed
  <2>4. CommitInvariant'
    BY <1>1, <1>2, <1>5, <1>6, <2>2, <2>3 DEF CommitInvariant
  <2> QED
    BY <1>1, <1>4, <1>6, <2>1, <2>4 DEF IdleInv, PrepareInvariant, DoneInvariant
<1>8. CASE Commit(q)
  <2>1. PICK p \in prepared : state' = p.state /\ enablePc' = p.enablePc
    BY <1>8 DEF Commit
  <2>2. prepared' = {}
    BY <1>8 DEF Commit
  <2>3. state' = expected /\ enablePc' = EnablingAfter
    BY <1>2, <2>1 DEF Foretold
  <2>4. Committed' /\ Foretold'
    BY <1>1, <1>6, <2>2, <2>3 DEF Committed, Foretold
  <2>5. CommitInvariant'
    BY <1>1, <1>2, <1>5, <1>6, <2>2, <2>4 DEF CommitInvariant
  <2>6. state = known
    BY <1>2, <2>1 DEF InStep
  <2>7. Atomic!Apply \/ UNCHANGED <<state, known, tag>>
    BY <1>1, <1>2, <2>3, <2>6 DEF Predictable, Atomic!Apply
  <2> QED
    BY <1>1, <1>4, <1>6, <2>5, <2>7 DEF IdleInv, PrepareInvariant, DoneInvariant
<1> QED
  BY <1>3, <1>7, <1>8

(* The transport loses or damages a reply: it never makes an OK of a       *)
(* failure, and it changes neither side (memory_dynamic.inc:88-104).     *)
LEMMA TransportFailureKeeps ==
  ASSUME RunInv, TransportFailure
  PROVE  RunInv' /\ UNCHANGED <<state, known, tag>>
<1> USE DEF RunInv
<1>1. /\ UNCHANGED <<svcVars, known, tag, bank, pc, retired, enabling, mode,
                     instr, request, expected, status>>
      /\ mode \in {"prepare", "commit"}
  BY DEF TransportFailure, Calling
<1>2. UNCHANGED <<state, prepared, enablePc, mmu, mem, nextToken>>
  BY <1>1 DEF svcVars
<1>3. SvcInv'
  BY <1>2 DEF SvcInv, TypeOK, Coherent, WindowSound, PreparedSound, OneStep
<1>4. /\ DispatcherType' /\ Profile(known)' /\ Profile(expected)'
      /\ InStep' = InStep /\ Committed' = Committed /\ Foretold' = Foretold
      /\ (expected \in Predictable(known))' = (expected \in Predictable(known))
  BY <1>1, <1>2
     DEF DispatcherType, Profile, InStep, Committed, Foretold, EnablingAfter,
         Predictable, Atomic!Write, Atomic!Synchronize, Atomic!Invalidate
<1>5. \A d \in reply' : \/ d.result # "OK"
                        \/ /\ \E r \in reply : r.result = "OK" /\ TokenOK(r)
                           /\ TokenOK(d)
  <2>1. CASE reply = {}
    BY <2>1 DEF TransportFailure, Lost
  <2>2. CASE reply # {}
    <3>1. PICK r \in reply : \E d \in Damage(r) : reply' = {d}
      BY <2>2 DEF TransportFailure
    <3>2. PICK d \in Damage(r) : reply' = {d}
      BY <3>1
    <3>3. TokenOK(r)
      BY <1>1, <2>2 DEF PrepareInvariant, CommitInvariant
    <3>4. CASE d \in {Lost, Damaged} \cup {[result |-> f] : f \in Failure}
      BY <3>2, <3>4 DEF Lost, Damaged, Failure
    <3>5. CASE /\ r.result = "OK"
               /\ d \in {[r EXCEPT !.token = 0], [r EXCEPT !.token = TokenMax]}
      BY <3>2, <3>3, <3>5, ServiceAssumption DEF TokenOK
    <3> QED
      BY <3>2, <3>4, <3>5 DEF Damage
  <2> QED
    BY <2>1, <2>2
<1>6. CASE mode = "prepare"
  <2>1. (\A r \in reply : TokenOK(r))'
    BY <1>5 DEF TokenOK
  <2>2. (\A q \in request : q \in Request /\ Sent(q))'
    BY <1>1, <1>6 DEF PrepareInvariant, Sent, ExpectedState, KnownPending
  <2>3. PrepareInvariant'
    BY <1>1, <1>4, <1>6, <2>1, <2>2 DEF PrepareInvariant
  <2> QED
    BY <1>1, <1>2, <1>3, <1>4, <1>6, <2>3 DEF IdleInv, CommitInvariant, DoneInvariant
<1>7. CASE mode = "commit"
  <2>1. (\A r \in reply : TokenOK(r) /\ (r.result = "OK" => Committed))'
    BY <1>4, <1>5, <1>7 DEF TokenOK, CommitInvariant
  <2>2. CommitInvariant'
    BY <1>1, <1>2, <1>4, <1>7, <2>1 DEF CommitInvariant
  <2> QED
    BY <1>1, <1>2, <1>3, <1>4, <1>7, <2>2 DEF IdleInv, PrepareInvariant, DoneInvariant
<1> QED
  BY <1>1, <1>6, <1>7

(* Every step keeps the invariant and is a step, or a stutter, of the      *)
(* abstract exchange.                                                      *)
LEMMA RunNextKeeps ==
  ASSUME RunInv, [RunNext]_allVars
  PROVE  RunInv' /\ [Atomic!Next]_(Atomic!absVars)
<1> USE DEF Atomic!absVars
<1>1. CASE Fetch \/ FetchFailure \/ BudgetStop \/ ProtectFailure
  <2>1. UNCHANGED <<state, known, tag>>
    BY <1>1 DEF Fetch, FetchFailure, BudgetStop, ProtectFailure, AccessFailure,
                Execute, svcVars
  <2> QED
    BY <1>1, <2>1, FetchKeeps
<1>2. CASE ExecuteAlu \/ ExecuteBranch \/ ExecuteOther \/ ExecuteData \/ DataFailure
  <2>1. UNCHANGED <<state, known, tag>>
    BY <1>2 DEF ExecuteAlu, ExecuteBranch, ExecuteOther, ExecuteData, DataFailure,
                AccessFailure, Execute, svcVars
  <2> QED
    BY <1>2, <2>1, InstructionKeeps
<1>3. CASE ControlStart
  <2>1. UNCHANGED <<state, known, tag>>
    BY <1>3 DEF ControlStart, DynamicFailure, svcVars
  <2> QED
    BY <1>3, <2>1, ControlStartKeeps
<1>4. CASE PrepareReturned
  <2>1. UNCHANGED <<state, known, tag>>
    BY <1>4 DEF PrepareReturned, DynamicFailure, svcVars
  <2> QED
    BY <1>4, <2>1, PrepareReturnedKeeps
<1>5. CASE CommitReturned
  BY <1>5, CommitReturnedKeeps DEF Atomic!Next
<1>6. CASE Serve
  <2>1. mode \in {"prepare", "commit"}
    BY <1>6 DEF Serve, Calling
  <2> QED
    BY <1>6, <2>1, ServePrepareKeeps, ServeCommitKeeps DEF Atomic!Next
<1>7. CASE TransportFailure
  BY <1>7, TransportFailureKeeps
<1>8. CASE Done \/ UNCHANGED allVars
  <2>1. UNCHANGED <<svcVars, runVars>>
    BY <1>8 DEF Done, allVars
  <2>2. UNCHANGED <<state, prepared, enablePc, mmu, mem, nextToken>>
    BY <2>1 DEF svcVars
  <2>3. UNCHANGED <<known, tag, bank, pc, enabling, mode, instr, request,
                    expected, reply>>
    BY <2>1 DEF runVars
  <2>4. SvcInv'
    BY <2>2 DEF RunInv, SvcInv, TypeOK, Coherent, WindowSound, PreparedSound, OneStep
  <2>5. RunInv'
    BY <2>2, <2>3, <2>4
       DEF RunInv, DispatcherType, Profile, IdleInv, PrepareInvariant,
           CommitInvariant, DoneInvariant, InStep, Foretold, Committed,
           EnablingAfter, Sent, ExpectedState, KnownPending, TokenOK,
           Predictable, Atomic!Write, Atomic!Synchronize, Atomic!Invalidate
  <2> QED
    BY <2>2, <2>3, <2>5
<1> QED
  BY <1>1, <1>2, <1>3, <1>4, <1>5, <1>6, <1>7, <1>8 DEF RunNext, Dispatcher

(* The invariant of an exchange holds in every state of every run.         *)
THEOREM RunInvariant == RunSpec => []RunInv
<1>1. RunInv /\ [RunNext]_allVars => RunInv'
  BY RunNextKeeps
<1> QED
  BY RunInitInv, <1>1, PTL DEF RunSpec

(* A result tagged KNOWN is the owner's state, on every program and after  *)
(* any number of lost, damaged or duplicated calls (memory_dynamic.inc:55).*)
THEOREM KnownResultIsTrue == RunSpec => []KnownIsCommitted
<1>1. RunInv => KnownIsCommitted
  BY DEF RunInv, DispatcherType, IdleInv, PrepareInvariant, DoneInvariant, InStep,
         KnownIsCommitted
<1> QED
  BY RunInvariant, <1>1, PTL

(* An uncertain result is off by at most the one instruction in flight     *)
(* (memory_dynamic.inc:99-102).                                            *)
THEOREM DoubtIsOneStep == RunSpec => []UncertainByOneStep
<1>1. RunInv => UncertainByOneStep
  BY DEF RunInv, DispatcherType, IdleInv, PrepareInvariant, CommitInvariant,
         DoneInvariant, InStep, Committed, UncertainByOneStep
<1> QED
  BY RunInvariant, <1>1, PTL

(* No run leaves the profile, whatever the guest writes                    *)
(* (memory_dynamic.h:58-65).                                               *)
THEOREM RunKeepsProfile == RunSpec => []RunInProfile
<1>1. RunInv => state \in {known, expected}
  BY DEF RunInv, DispatcherType, IdleInv, PrepareInvariant, CommitInvariant,
         DoneInvariant, InStep, Committed
<1>2. RunInv => RunInProfile
  BY <1>1 DEF RunInv, Profile, RunInProfile, InProfile
<1> QED
  BY RunInvariant, <1>2, PTL

(* The two-phase exchange over a failing transport implements one atomic   *)
(* step per control instruction.                                           *)
THEOREM ExchangeIsAtomic == RunSpec => AtomicExchange
<1>1. RunInit => Atomic!Init
  BY DEF RunInit, Init, Atomic!Init
<1>2. RunInv /\ [RunNext]_allVars => [Atomic!Next]_(Atomic!absVars)
  BY RunNextKeeps
<1> QED
  BY RunInvariant, <1>1, <1>2, PTL DEF RunSpec, AtomicExchange, Atomic!Spec
=============================================================================
