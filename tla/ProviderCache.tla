---------------------------- MODULE ProviderCache ----------------------------
(***************************************************************************)
(* The provider run loops with their run-local cache of native code:       *)
(* vf_run_memory_provider (runtime/jit.c) and run_memory_provider_v2       *)
(* (runtime/memory_stage1.inc), which share this control flow, over the    *)
(* protection adapter of runtime/jit_protection.c and a firmware that may  *)
(* refuse a change or report success without making it.                    *)
(*                                                                         *)
(* The code buffer is a row of cells.  A slot is SlotLen cells; a          *)
(* translation fills Size[word] cells from the start of its entry, so one  *)
(* that is longer than a slot runs into the slots beside it.               *)
(***************************************************************************)
EXTENDS GuestStep

CONSTANTS
    Size,        \* Words -> cells the translation of the word needs
    SlotLen,     \* cells in NEXTCORE_PROVIDER_CACHE_SLOT_BYTES
    MaxSlots,    \* entries of the cache array
    Capacities   \* the buffer sizes a caller may bring

ASSUME CacheAssumption ==
    /\ Size \in [Words -> Nat \ {0}]
    /\ SlotLen \in Nat \ {0}
    /\ MaxSlots \in Nat \ {0}
    /\ Capacities \subseteq Nat \ {0}

VARIABLES
    guest,     \* the CPU and the memory behind the callback
    capacity,  \* code->capacity
    cells,     \* what the code buffer holds
    cache,     \* provider_native_entry cache[64]
    victim,    \* the next slot to replace
    phase,     \* where the loop is
    cur,       \* the iteration's locals
    prot,      \* the buffer's page attributes
    firmware   \* the protection protocol found, and whether it keeps its word

vars == <<guest, capacity, cells, cache, victim, phase, cur, prot, firmware>>

Cells == 0..(capacity - 1)

Slots == IF capacity \div SlotLen > MaxSlots THEN MaxSlots
                                             ELSE capacity \div SlotLen

SlotSet == 0..(Slots - 1)

\* Cell k of the translation tr, and the contents of an untouched buffer.
Cell(tr, k) == [tr |-> tr, k |-> k]
Blank == [k |-> 0]

NoEntry == [valid |-> FALSE]
Entry(tr) == [valid |-> TRUE, tr |-> tr]

\* pc, instruction and current_el of an iteration: what is to be run.
Fetched == [pc |-> guest.pc, word |-> cur.word, el |-> guest.el]

Whole == [base |-> 0, len |-> capacity]
SlotAt(i) == [base |-> i * SlotLen, len |-> SlotLen]

Init ==
    /\ guest \in GuestInit
    /\ capacity \in Capacities
    /\ cells = [c \in Cells |-> Blank]
    /\ cache = [i \in SlotSet |-> NoEntry]
    /\ victim = 0
    /\ phase = "fetch"
    /\ cur = [word |-> guest.mem[guest.pc], entry |-> Whole,
              selected |-> 0, publish |-> FALSE]
    /\ prot \in [ro : BOOLEAN, xp : BOOLEAN]
    /\ firmware \in [cpuArch : BOOLEAN, honest : BOOLEAN]

End(g) == guest' = g /\ phase' = "done"

\* The head of the loop: budget, controls, interrupt.
OutOfBudget ==
    /\ phase = "fetch"
    /\ guest.retired = Budget
    /\ End(Stop(guest, "budget"))
    /\ UNCHANGED <<capacity, cells, cache, victim, cur, prot, firmware>>

ControlsChanged ==
    /\ phase = "fetch"
    /\ guest.retired < Budget
    /\ ~guest.controls
    /\ End(Stop(guest, "controls"))
    /\ UNCHANGED <<capacity, cells, cache, victim, cur, prot, firmware>>

Interrupted ==
    /\ phase = "fetch"
    /\ guest.retired < Budget
    /\ guest.controls
    /\ End(Interrupt(guest))
    /\ UNCHANGED <<capacity, cells, cache, victim, cur, prot, firmware>>

FetchFails ==
    /\ phase = "fetch"
    /\ guest.retired < Budget
    /\ guest.controls
    /\ End(Stop(guest, "fetch"))
    /\ UNCHANGED <<capacity, cells, cache, victim, cur, prot, firmware>>

\* Mutant: The instruction word is left out of the comparison.
Hits_AnyWord(tr) ==
    {i \in SlotSet :
        cache[i].valid /\ cache[i].tr.pc = tr.pc /\ cache[i].tr.el = tr.el}

\* The slots whose entry matches pc, the fetched word and the level.
Hits(tr) == {i \in SlotSet : cache[i] = Entry(tr)}

\* The fetch and the lookup: a hit runs the slot, a miss takes the victim
\* slot, and a buffer without slots is used whole.
Lookup ==
    /\ phase = "fetch"
    /\ guest.retired < Budget
    /\ guest.controls
    /\ LET word == guest.mem[guest.pc]
           hits == Hits([pc |-> guest.pc, word |-> word, el |-> guest.el])
       IN  \/ /\ hits # {}
              /\ phase' = "exec"
              /\ cur' = [word |-> word, selected |-> 0, publish |-> FALSE,
                         entry |-> SlotAt(CHOOSE i \in hits :
                                            \A j \in hits : i <= j)]
              /\ cache' = cache
           \/ /\ hits = {}
              /\ Slots > 0
              /\ phase' = "unseal"
              /\ cur' = [word |-> word, selected |-> victim, publish |-> TRUE,
                         entry |-> SlotAt(victim)]
              /\ cache' = [cache EXCEPT ![victim] = NoEntry]
           \/ /\ Slots = 0
              /\ phase' = "unseal"
              /\ cur' = [word |-> word, selected |-> 0, publish |-> FALSE,
                         entry |-> Whole]
              /\ cache' = cache
    /\ UNCHANGED <<guest, capacity, cells, victim, prot, firmware>>

\* Mutant: Execution is granted before writing is withdrawn, and the reverse.
FirstChange_Swapped(executable) ==
    IF firmware.cpuArch THEN [ro |-> TRUE, xp |-> TRUE]
    ELSE IF executable THEN [prot EXCEPT !.xp = FALSE]
                       ELSE [prot EXCEPT !.ro = FALSE]

(***************************************************************************)
(* vf_efi_jit_protect: two attribute changes and a check of the result.    *)
(* The attribute protocol changes one attribute at a time; the CPU         *)
(* architectural protocol sets both, and passes through RO+XP.             *)
(***************************************************************************)
FirstChange(executable) ==
    IF firmware.cpuArch THEN [ro |-> TRUE, xp |-> TRUE]
    ELSE IF executable THEN [prot EXCEPT !.ro = TRUE]
                       ELSE [prot EXCEPT !.xp = TRUE]

SecondChange(executable) ==
    IF firmware.cpuArch THEN [ro |-> executable, xp |-> ~executable]
    ELSE IF executable THEN [prot EXCEPT !.xp = FALSE]
                       ELSE [prot EXCEPT !.ro = FALSE]

\* Mutant: The adapter trusts what the calls returned.
Verified_Trusting(p, executable) == TRUE

Verified(p, executable) == p = [ro |-> executable, xp |-> ~executable]

\* What a call that reports success may have left behind.
Granted(p) == IF firmware.honest THEN {p} ELSE {p, prot}

Refused ==
    /\ phase \in {"unseal", "unseal2", "seal", "seal2"}
    /\ End(Stop(guest, "protection"))
    /\ UNCHANGED <<capacity, cells, cache, victim, cur, prot, firmware>>

ProtectFirst ==
    /\ phase \in {"unseal", "seal"}
    /\ prot' \in Granted(FirstChange(phase = "seal"))
    /\ phase' = IF phase = "seal" THEN "seal2" ELSE "unseal2"
    /\ UNCHANGED <<guest, capacity, cells, cache, victim, cur, firmware>>

Unseal ==
    /\ phase = "unseal2"
    /\ prot' \in Granted(SecondChange(FALSE))
    /\ \/ /\ Verified(prot', FALSE)
          /\ phase' = "translate"
          /\ guest' = guest
       \/ /\ ~Verified(prot', FALSE)
          /\ End(Stop(guest, "protection"))
    /\ UNCHANGED <<capacity, cells, cache, victim, cur, firmware>>

\* The whole buffer is executable again; only now is the entry published.
Seal ==
    /\ phase = "seal2"
    /\ prot' \in Granted(SecondChange(TRUE))
    /\ \/ /\ Verified(prot', TRUE)
          /\ phase' = "exec"
          /\ guest' = guest
          /\ \/ /\ cur.publish
                /\ cache' = [cache EXCEPT ![cur.selected] = Entry(Fetched)]
                /\ victim' = (cur.selected + 1) % Slots
             \/ /\ ~cur.publish
                /\ UNCHANGED <<cache, victim>>
       \/ /\ ~Verified(prot', TRUE)
          /\ End(Stop(guest, "protection"))
          /\ UNCHANGED <<cache, victim>>
    /\ UNCHANGED <<capacity, cells, cur, firmware>>

\* translate_impl: the bytes beyond the entry's capacity are not written.
Written(tr, entry) ==
    [c \in Cells |->
        IF c \in entry.base..(entry.base + entry.len - 1)
             /\ c - entry.base < Size[tr.word]
        THEN Cell(tr, c - entry.base) ELSE cells[c]]

Fits(entry) == Size[cur.word] <= entry.len

Translate ==
    /\ phase = "translate"
    /\ cells' = Written(Fetched, cur.entry)
    /\ \/ /\ Fits(cur.entry)
          /\ phase' = "seal"
          /\ guest' = guest
       \/ /\ ~Fits(cur.entry)
          /\ cur.publish
          /\ phase' = "retry"
          /\ guest' = guest
       \/ /\ ~Fits(cur.entry)
          /\ ~cur.publish
          /\ End(Stop(guest, "code_full"))
    /\ UNCHANGED <<capacity, cache, victim, cur, prot, firmware>>

\* The metadata of the cache once the whole buffer is to be overwritten.
Forgotten == [i \in SlotSet |-> NoEntry]

\* VF_CODE_FULL from a slot: forget every entry, translate over the buffer.
Retranslate ==
    /\ phase = "retry"
    /\ cache' = Forgotten
    /\ victim' = 0
    /\ cur' = [cur EXCEPT !.publish = FALSE, !.entry = Whole]
    /\ cells' = Written(Fetched, Whole)
    /\ \/ /\ Fits(Whole)
          /\ phase' = "seal"
          /\ guest' = guest
       \/ /\ ~Fits(Whole)
          /\ End(Stop(guest, "code_full"))
    /\ UNCHANGED <<capacity, prot, firmware>>

\* The translation whose code starts at the entry.
Native == cells[cur.entry.base].tr

\* execute_native_block and the handling of its status.
Execute ==
    /\ phase = "exec"
    /\ guest' \in Outcomes(Native, guest)
    /\ phase' = IF guest'.status = "run" THEN "fetch" ELSE "done"
    /\ UNCHANGED <<capacity, cells, cache, victim, cur, prot, firmware>>

Returned == phase = "done" /\ UNCHANGED vars

Next ==
    \/ OutOfBudget \/ ControlsChanged \/ Interrupted \/ FetchFails
    \/ Lookup \/ Refused \/ ProtectFirst \/ Unseal \/ Seal
    \/ Translate \/ Retranslate \/ Execute \/ Returned

Spec == Init /\ [][Next]_vars

\* The loop is one thread that runs to its return: every call it makes is
\* synchronous, so a step that can be taken is taken.
FairSpec == Spec /\ WF_vars(Next)

-----------------------------------------------------------------------------

\* The code at an entry is the whole translation tr, from its first cell on.
Holds(tr, base) ==
    \A k \in 0..(Size[tr.word] - 1) :
        base + k \in Cells /\ cells[base + k] = Cell(tr, k)

\* Native code is entered only when the buffer is read-only and executable,
\* and only when it is the code of the word just fetched, at this pc and
\* level; it is written only when it cannot be executed.  Between entries a
\* valid slot holds exactly the code it names, also while a neighbour is
\* being written and after a translation too long for a slot has run over
\* the buffer (jit_protection.c:43-64, jit.c:972-992,
\* memory_stage1.inc:248-278).
SealedAndCurrent ==
    /\ phase = "exec" => /\ prot = [ro |-> TRUE, xp |-> FALSE]
                         /\ Holds(Fetched, cur.entry.base)
                         /\ cur.word = guest.mem[guest.pc]
    /\ phase \in {"translate", "retry"} => prot = [ro |-> FALSE, xp |-> TRUE]
    /\ \A i \in SlotSet : cache[i].valid => Holds(cache[i].tr, i * SlotLen)

\* No attribute change makes the buffer writable and executable at once,
\* whatever the call before it did, on a firmware that keeps its word
\* (main.c:100-107, jit_protection.c:48-58).
WritableAndExecutable == ~prot.ro /\ ~prot.xp
NeverOpened ==
    [][firmware.honest /\ WritableAndExecutable' => WritableAndExecutable]_vars

\* The cached loop is invisible: the guest goes through the states of a run
\* that translates every instruction afresh, over self-modifying code and
\* replacement, and stops only for the reasons that run may stop for
\* (docs/PROVIDER_NATIVE_CACHE.md; jit.c:966-1003).
Uncached == INSTANCE UncachedRun
CacheInvisible == Uncached!Spec

\* A run returns: every pass over the loop retires an instruction or ends it
\* (jit.c:950, memory_stage1.inc:227).
RunReturns == <>(phase = "done")

=============================================================================
