------------------------- MODULE ProviderCacheProofs -------------------------
(***************************************************************************)
(* The native-code cache for every guest program, every buffer and slot    *)
(* size and every length of a translation.                                 *)
(*                                                                         *)
(* The invariant says what the loop may rely on at each of its points.     *)
(* A valid slot holds the code it names and does not reach beyond itself,  *)
(* so a write into another slot leaves it alone.  From the miss to the     *)
(* publication the selected slot is invalid; an iteration that uses the    *)
(* whole buffer has no valid slot at all.                                  *)
(***************************************************************************)
EXTENDS ProviderCache, WellFoundedInduction, TLAPS

\* Between the lookup of an iteration and the entry of its code.
Preparing == phase \in {"unseal", "unseal2", "translate", "retry", "seal", "seal2"}

GuestType ==
    /\ guest \in Guest
    /\ capacity \in Nat \ {0}
    /\ phase \in {"fetch", "unseal", "unseal2", "translate", "retry", "seal",
                  "seal2", "exec", "done"}
    /\ prot \in [ro : BOOLEAN, xp : BOOLEAN]
    /\ firmware \in [cpuArch : BOOLEAN, honest : BOOLEAN]
    /\ cur \in [word : Words, entry : [base : Nat, len : Nat],
               selected : Nat, publish : BOOLEAN]
    /\ DOMAIN cells = Cells /\ DOMAIN cache = SlotSet

\* The run is still going, on the word the guest's memory holds now.
Going ==
    /\ phase # "done" => guest.status = "run"
    /\ phase \notin {"done", "fetch"} =>
         /\ guest.retired < Budget /\ guest.controls
         /\ cur.word = guest.mem[guest.pc]

\* Every valid slot holds its code, within its bounds.
SlotsSound ==
    \A i \in SlotSet : cache[i].valid =>
        /\ cache[i].tr.word \in Words
        /\ Size[cache[i].tr.word] <= SlotLen
        /\ Holds(cache[i].tr, i * SlotLen)

VictimSound == victim \in Nat /\ (Slots > 0 => victim \in SlotSet)

\* The slot or the buffer the iteration writes, and that nothing else names it.
EntrySound ==
    Preparing =>
        /\ cur.publish => /\ cur.selected \in SlotSet
                          /\ cur.entry = SlotAt(cur.selected)
                          /\ ~cache[cur.selected].valid
        /\ ~cur.publish => /\ cur.entry = Whole
                           /\ \A i \in SlotSet : ~cache[i].valid

CodeSound ==
    /\ phase \in {"seal", "seal2"} => Fits(cur.entry)
    /\ phase = "retry" => cur.publish
    /\ phase \in {"seal", "seal2", "exec"} => Holds(Fetched, cur.entry.base)

\* A slot is valid only in a buffer that was made executable after it.
ProtSound ==
    /\ phase = "exec" => prot = [ro |-> TRUE, xp |-> FALSE]
    /\ phase = "fetch" /\ (\E i \in SlotSet : cache[i].valid) =>
         prot = [ro |-> TRUE, xp |-> FALSE]
    /\ phase \in {"translate", "retry"} => prot = [ro |-> FALSE, xp |-> TRUE]
    /\ firmware.honest /\ phase = "unseal2" => prot.xp
    /\ firmware.honest /\ phase = "seal2" => prot.ro

CacheInv == /\ GuestType /\ Going /\ SlotsSound /\ VictimSound
            /\ EntrySound /\ CodeSound /\ ProtSound

-----------------------------------------------------------------------------
(* Arithmetic of the slots.                                                *)

(* A nonempty set of numbers has a least one, which the scan of the cache  *)
(* array finds first (jit.c:968).                                          *)
LEMMA LeastExists ==
  ASSUME NEW T, T \subseteq Nat, T # {}
  PROVE  \E i \in T : \A j \in T : i <= j
<1>1. PICK m \in T : \A k \in T : ~(<<k, m>> \in OpToRel(<, Nat))
  BY WFMin, NatLessThanWellFounded, Zenon
<1>2. \A k \in T : ~(k < m)
  BY <1>1, Zenon DEF OpToRel
<1> QED
  BY <1>2

(* Slots do not overlap.                                                   *)
LEMMA SlotsApart ==
  ASSUME NEW L \in Nat, NEW i \in Nat, NEW j \in Nat, i < j
  PROVE  i * L + L <= j * L
<1>1. PICK d \in Nat : j = i + 1 + d
  <2>1. j - (i + 1) \in Nat /\ j = i + 1 + (j - (i + 1))
    OBVIOUS
  <2> QED
    BY <2>1
<1>2. (i + 1 + d) * L = i * L + L + d * L
  OBVIOUS
<1>3. d * L \in Nat /\ i * L \in Nat /\ j * L \in Nat
  OBVIOUS
<1> QED
  BY <1>1, <1>2, <1>3

(* The slots lie inside the buffer (jit.c:956).                            *)
LEMMA SlotsInside ==
  ASSUME capacity \in Nat \ {0}, NEW i \in SlotSet
  PROVE  i \in Nat /\ i * SlotLen \in Nat /\ i * SlotLen + SlotLen <= capacity
<1> USE CacheAssumption
<1>1. capacity \div SlotLen \in Nat /\ (capacity \div SlotLen) * SlotLen <= capacity
  OBVIOUS
<1>2. i \in Nat /\ i < capacity \div SlotLen
  BY <1>1 DEF SlotSet, Slots
<1>3. i * SlotLen + SlotLen <= (capacity \div SlotLen) * SlotLen
  BY <1>1, <1>2, SlotsApart
<1>4. i * SlotLen \in Nat /\ (capacity \div SlotLen) * SlotLen \in Nat
  BY <1>1, <1>2
<1> QED
  BY <1>1, <1>2, <1>3, <1>4

LEMMA SlotCount ==
  ASSUME capacity \in Nat \ {0}
  PROVE  Slots \in Nat
BY CacheAssumption DEF Slots

-----------------------------------------------------------------------------
(* The guest.                                                              *)

(* Running a translation leaves a guest of the same shape, and stays       *)
(* within the budget the head of the loop has checked.                     *)
LEMMA OutcomesType ==
  ASSUME NEW g \in Guest, g.retired < Budget, NEW tr, tr.word \in Words, tr.pc \in Pcs,
         NEW h \in Outcomes(tr, g)
  PROVE  h \in Guest
<1> USE StepAssumption
<1>1. \A x \in Guest, pc \in Pcs : x.retired < Budget => Retire(x, pc) \in Guest
  <2> SUFFICES ASSUME NEW x \in Guest, NEW pc \in Pcs, x.retired < Budget
               PROVE  Retire(x, pc) \in Guest
    OBVIOUS
  <2>1. x.retired + 1 \in 0..Budget
    BY DEF Guest
  <2>2. [x EXCEPT !.pc = pc] \in Guest
    BY DEF Guest
  <2>3. [[x EXCEPT !.pc = pc] EXCEPT !.retired = x.retired + 1] \in Guest
    BY <2>1, <2>2 DEF Guest
  <2>4. Retire(x, pc) = [[x EXCEPT !.pc = pc] EXCEPT !.retired = x.retired + 1]
    BY DEF Retire, Guest
  <2> QED
    BY <2>3, <2>4
<1>2. \A x \in Guest, s \in Statuses : Stop(x, s) \in Guest
  BY DEF Guest, Stop
<1>3. /\ Succ[tr.pc] \in Pcs /\ Target[tr.pc] \in Pcs /\ g.pc \in Pcs
      /\ Succ[g.pc] \in Pcs
  BY DEF Guest
<1>4. CASE Kind[tr.word] \in {"step", "branch"}
  BY <1>1, <1>3, <1>4 DEF Outcomes
<1>5. CASE Kind[tr.word] = "memory"
  <2>1. h \in DataStep(g)
    BY <1>5 DEF Outcomes
  <2>2. CASE \E a \in Pcs : h \in {Retire([g EXCEPT !.mem[a] = w], Succ[g.pc]) :
                                    w \in Stored}
    <3>1. PICK a \in Pcs, w \in Stored : h = Retire([g EXCEPT !.mem[a] = w], Succ[g.pc])
      BY <2>2
    <3>2. [g EXCEPT !.mem[a] = w] \in Guest /\ [g EXCEPT !.mem[a] = w].retired < Budget
      BY DEF Guest
    <3> QED
      BY <1>1, <1>3, <3>1, <3>2
  <2>3. CASE h \in {Retire(g, Succ[g.pc]), Stop(g, "data")}
    BY <1>1, <1>2, <1>3, <2>3 DEF Statuses
  <2> QED
    BY <2>1, <2>2, <2>3 DEF DataStep
<1>6. CASE Kind[tr.word] = "system"
  <2>1. h \in SystemStep(tr, g)
    BY <1>6 DEF Outcomes
  <2>2. h \in {Stop(g, "privilege"), Stop(g, "trap"), Retire(g, Succ[g.pc]),
               Retire([g EXCEPT !.controls = FALSE], Succ[g.pc])}
    BY <2>1 DEF SystemStep
  <2>3. [g EXCEPT !.controls = FALSE] \in Guest
        /\ [g EXCEPT !.controls = FALSE].retired < Budget
    BY DEF Guest
  <2> QED
    BY <1>1, <1>2, <1>3, <2>2, <2>3 DEF Statuses
<1>7. CASE Kind[tr.word] = "halt"
  <2>1. h = Stop(Retire(g, Succ[tr.pc]), "halt")
    BY <1>7 DEF Outcomes
  <2> QED
    BY <1>1, <1>2, <1>3, <2>1 DEF Statuses
<1>8. CASE Kind[tr.word] = "undefined"
  <2>1. h = Stop(g, "undefined")
    BY <1>8 DEF Outcomes
  <2> QED
    BY <1>2, <2>1 DEF Statuses
<1> QED
  BY <1>4, <1>5, <1>6, <1>7, <1>8 DEF Kinds

LEMMA StopType ==
  ASSUME NEW g \in Guest
  PROVE  /\ \A s \in Statuses : Stop(g, s) \in Guest
         /\ Interrupt(g) \in Guest
BY StepAssumption DEF Guest, Stop, Interrupt, Statuses

-----------------------------------------------------------------------------
(* The code buffer.                                                        *)

(* A translation that fits its entry is there, whole, once written.        *)
LEMMA WrittenHolds ==
  ASSUME GuestType, NEW tr, tr.word \in Words, NEW base \in Nat, NEW len \in Nat,
         base + len <= capacity, Size[tr.word] <= len,
         cells' = Written(tr, [base |-> base, len |-> len]), capacity' = capacity
  PROVE  Holds(tr, base)'
<1>1. Size[tr.word] \in Nat /\ capacity \in Nat
  BY CacheAssumption DEF GuestType
<1>2. ASSUME NEW k \in 0..(Size[tr.word] - 1)
      PROVE  base + k \in Cells' /\ cells'[base + k] = Cell(tr, k)
  <2>1. base + k \in Cells /\ base + k \in base..(base + len - 1) /\ (base + k) - base = k
    BY <1>1 DEF Cells
  <2> QED
    BY <1>1, <2>1 DEF Written, Cells
<1> QED
  BY <1>2 DEF Holds

(* A write into one slot leaves every other valid slot as it was.          *)
LEMMA WrittenApart ==
  ASSUME GuestType, NEW tr, NEW i \in SlotSet, NEW j \in SlotSet, i # j,
         NEW t, Size[t.word] \in Nat, Size[t.word] <= SlotLen, Holds(t, j * SlotLen),
         cells' = Written(tr, SlotAt(i)), capacity' = capacity
  PROVE  Holds(t, j * SlotLen)'
<1> USE CacheAssumption
<1>1. /\ i \in Nat /\ i * SlotLen \in Nat /\ i * SlotLen + SlotLen <= capacity
      /\ j \in Nat /\ j * SlotLen \in Nat /\ j * SlotLen + SlotLen <= capacity
  BY SlotsInside DEF GuestType
<1>2. \/ i * SlotLen + SlotLen <= j * SlotLen
      \/ j * SlotLen + SlotLen <= i * SlotLen
  BY <1>1, SlotsApart
<1>3. PICK a \in Nat, b \in Nat : a = i * SlotLen /\ b = j * SlotLen
  BY <1>1
<1>4. ASSUME NEW k \in 0..(Size[t.word] - 1)
      PROVE  b + k \in Cells' /\ cells'[b + k] = Cell(t, k)
  <2>1. b + k \in Cells /\ cells[b + k] = Cell(t, k)
    BY <1>3 DEF Holds
  <2>2. b + k \notin a..(a + SlotLen - 1)
    BY <1>2, <1>3
  <2>3. SlotAt(i) = [base |-> a, len |-> SlotLen]
    BY <1>3 DEF SlotAt
  <2>4. cells'[b + k] = cells[b + k]
    BY <2>1, <2>2, <2>3 DEF Written
  <2> QED
    BY <2>1, <2>4 DEF Cells
<1> QED
  BY <1>3, <1>4 DEF Holds

-----------------------------------------------------------------------------
(* The steps of the loop.                                                  *)

LEMMA CacheInitInv == Init => CacheInv
<1> SUFFICES ASSUME Init PROVE CacheInv
  OBVIOUS
<1> USE CacheAssumption
<1>1. guest \in Guest /\ guest.status = "run" /\ guest.mem[guest.pc] \in Words
  BY DEF Init, GuestInit, Guest
<1>2. capacity \in Nat \ {0} /\ phase = "fetch" /\ victim = 0
  BY DEF Init
<1>3. cur = [word |-> guest.mem[guest.pc], entry |-> Whole, selected |-> 0,
             publish |-> FALSE]
  BY DEF Init
<1>4. GuestType
  BY <1>1, <1>2, <1>3 DEF Init, GuestType, Whole
<1>5. \A i \in SlotSet : ~cache[i].valid
  BY DEF Init, NoEntry
<1>6. VictimSound
  BY <1>2, SlotCount DEF VictimSound, SlotSet
<1> QED
  BY <1>1, <1>2, <1>4, <1>5, <1>6
     DEF CacheInv, Going, SlotsSound, EntrySound, Preparing, CodeSound, ProtSound

LEMMA SlotsKept ==
  ASSUME SlotsSound, UNCHANGED <<capacity, cells, cache>>
  PROVE  SlotsSound'
BY DEF SlotsSound, Holds, Cells, SlotSet, Slots

(* A run that returns leaves the buffer and its bookkeeping as they are.   *)
LEMMA StopKeeps ==
  ASSUME CacheInv, guest' \in Guest, phase' = "done",
         prot' \in [ro : BOOLEAN, xp : BOOLEAN],
         UNCHANGED <<capacity, cells, cache, victim, cur, firmware>>
  PROVE  CacheInv'
<1>1. GuestType'
  BY DEF CacheInv, GuestType, Cells, SlotSet, Slots
<1>2. SlotsSound'
  BY SlotsKept DEF CacheInv
<1>3. VictimSound'
  BY DEF CacheInv, VictimSound, SlotSet, Slots
<1> QED
  BY <1>1, <1>2, <1>3
     DEF CacheInv, Going, EntrySound, Preparing, CodeSound, ProtSound

LEMMA HeadKeeps ==
  ASSUME CacheInv, OutOfBudget \/ ControlsChanged \/ Interrupted \/ FetchFails \/ Refused
  PROVE  CacheInv'
<1>1. guest \in Guest /\ prot \in [ro : BOOLEAN, xp : BOOLEAN]
  BY DEF CacheInv, GuestType
<1>2. guest' \in Guest /\ phase' = "done"
  BY <1>1, StopType
     DEF OutOfBudget, ControlsChanged, Interrupted, FetchFails, Refused, End, Statuses
<1>3. UNCHANGED <<capacity, cells, cache, victim, cur, prot, firmware>>
  BY DEF OutOfBudget, ControlsChanged, Interrupted, FetchFails, Refused
<1> QED
  BY <1>1, <1>2, <1>3, StopKeeps

(* A hit enters a sound slot; a miss invalidates the slot it will write    *)
(* (jit.c:966-982).                                                        *)
LEMMA LookupKeeps ==
  ASSUME CacheInv, Lookup
  PROVE  CacheInv'
<1> USE CacheAssumption
<1>1. /\ phase = "fetch" /\ guest.retired < Budget /\ guest.controls
      /\ UNCHANGED <<guest, capacity, cells, victim, prot, firmware>>
  BY DEF Lookup
<1>2. PICK word \in Words : word = guest.mem[guest.pc]
  BY DEF CacheInv, GuestType, Guest
<1>3. PICK tr : tr = [pc |-> guest.pc, word |-> word, el |-> guest.el]
  OBVIOUS
<1>4. guest \in Guest /\ guest.status = "run" /\ capacity \in Nat \ {0}
  BY <1>1 DEF CacheInv, GuestType, Going
<1>5. VictimSound'
  BY <1>1 DEF CacheInv, VictimSound, SlotSet, Slots
<1>6. SlotSet' = SlotSet /\ Cells' = Cells /\ Slots' = Slots
  BY <1>1 DEF SlotSet, Slots, Cells
<1>7. CASE Hits(tr) # {}
  <2>1. PICK s : s = CHOOSE i \in Hits(tr) : \A j \in Hits(tr) : i <= j
    OBVIOUS
  <2>2. s \in SlotSet /\ cache[s] = Entry(tr)
    <3>1. Hits(tr) \subseteq Nat
      BY <1>4, SlotsInside DEF Hits
    <3>2. \E i \in Hits(tr) : \A j \in Hits(tr) : i <= j
      BY <1>7, <3>1, LeastExists
    <3>3. s \in Hits(tr)
      BY <2>1, <3>2
    <3> QED
      BY <3>3 DEF Hits
  <2>3. /\ phase' = "exec" /\ cache' = cache
        /\ cur' = [word |-> word, selected |-> 0, publish |-> FALSE, entry |-> SlotAt(s)]
    BY <1>2, <1>3, <1>7, <2>1, <2>2 DEF Lookup, SlotSet
  <2>4. cache[s].valid /\ cache[s].tr = tr
    BY <2>2 DEF Entry
  <2>5. SlotAt(s).base = s * SlotLen /\ SlotAt(s) \in [base : Nat, len : Nat]
    BY <1>4, <2>2, SlotsInside DEF SlotAt
  <2>6. Holds(tr, s * SlotLen)
    BY <2>2, <2>4 DEF CacheInv, SlotsSound
  <2>7. Holds(Fetched, cur.entry.base)'
    <3>1. Fetched' = tr
      BY <1>1, <1>3, <2>3 DEF Fetched
    <3>2. (cur.entry.base)' = s * SlotLen
      BY <2>3, <2>5
    <3> QED
      BY <1>1, <1>6, <2>6, <3>1, <3>2 DEF Holds
  <2>8. GuestType'
    BY <1>1, <1>6, <2>3, <2>5 DEF CacheInv, GuestType
  <2>9. SlotsSound'
    BY <1>1, <2>3, SlotsKept DEF CacheInv
  <2>10. prot = [ro |-> TRUE, xp |-> FALSE]
    BY <1>1, <2>2, <2>4 DEF CacheInv, ProtSound
  <2>11. Going'
    BY <1>1, <1>2, <1>4, <2>3 DEF Going
  <2> QED
    BY <1>1, <1>5, <2>3, <2>7, <2>8, <2>9, <2>10, <2>11
       DEF CacheInv, EntrySound, Preparing, CodeSound, ProtSound
<1>8. CASE Hits(tr) = {}
  <2>1. \/ /\ Slots > 0
           /\ cur' = [word |-> word, selected |-> victim, publish |-> TRUE,
                      entry |-> SlotAt(victim)]
           /\ cache' = [cache EXCEPT ![victim] = NoEntry]
        \/ /\ Slots = 0
           /\ cur' = [word |-> word, selected |-> 0, publish |-> FALSE, entry |-> Whole]
           /\ cache' = cache
    BY <1>2, <1>3, <1>8 DEF Lookup
  <2>2. phase' = "unseal"
    BY <1>2, <1>3, <1>8 DEF Lookup
  <2>3. Slots > 0 => /\ victim \in SlotSet
                     /\ SlotAt(victim) \in [base : Nat, len : Nat]
    BY <1>4, SlotsInside DEF CacheInv, VictimSound, SlotAt
  <2>4. Whole \in [base : Nat, len : Nat] /\ victim \in Nat
    BY <1>4 DEF Whole, CacheInv, VictimSound
  <2>5. GuestType'
    <3>1. cur' \in [word : Words, entry : [base : Nat, len : Nat],
                   selected : Nat, publish : BOOLEAN]
      <4>1. CASE Slots > 0 /\ cur' = [word |-> word, selected |-> victim,
                                     publish |-> TRUE, entry |-> SlotAt(victim)]
        BY <2>3, <2>4, <4>1
      <4>2. CASE cur' = [word |-> word, selected |-> 0, publish |-> FALSE,
                         entry |-> Whole]
        BY <2>4, <4>2
      <4> QED
        BY <2>1, <4>1, <4>2
    <3>2. DOMAIN cache' = DOMAIN cache
      BY <2>1
    <3> QED
      BY <1>1, <1>6, <2>2, <3>1, <3>2 DEF CacheInv, GuestType
  <2>6. \A i \in SlotSet : cache'[i].valid => cache'[i] = cache[i]
    BY <2>1 DEF NoEntry, CacheInv, GuestType
  <2>7. SlotsSound'
    BY <1>1, <1>6, <2>6 DEF CacheInv, SlotsSound, Holds
  <2>8. Going'
    BY <1>1, <1>2, <1>4, <2>1, <2>2 DEF Going
  <2>9. EntrySound'
    <3>1. CASE Slots > 0
      BY <1>1, <1>6, <2>1, <2>3, <3>1
         DEF EntrySound, SlotAt, NoEntry, CacheInv, GuestType
    <3>2. CASE Slots = 0
      BY <1>1, <1>6, <2>1, <3>2 DEF EntrySound, SlotSet, Whole
    <3> QED
      BY <2>1, <3>1, <3>2
  <2> QED
    BY <1>1, <1>5, <2>2, <2>5, <2>7, <2>8, <2>9 DEF CacheInv, CodeSound, ProtSound
<1> QED
  BY <1>7, <1>8

LEMMA ChangeType ==
  ASSUME GuestType, NEW e \in BOOLEAN, prot' \in Granted(FirstChange(e))
                                       \/ prot' \in Granted(SecondChange(e))
  PROVE  prot' \in [ro : BOOLEAN, xp : BOOLEAN]
<1>1. prot \in [ro : BOOLEAN, xp : BOOLEAN]
  BY DEF GuestType
<1>2. FirstChange(e) \in [ro : BOOLEAN, xp : BOOLEAN]
  BY <1>1 DEF FirstChange
<1>3. SecondChange(e) \in [ro : BOOLEAN, xp : BOOLEAN]
  <2>1. [ro |-> e, xp |-> ~e] \in [ro : BOOLEAN, xp : BOOLEAN]
    OBVIOUS
  <2> QED
    BY <1>1, <2>1 DEF SecondChange
<1> QED
  BY <1>1, <1>2, <1>3 DEF Granted

(* A change of protection touches neither the code nor the bookkeeping     *)
(* (jit_protection.c:43-64).                                               *)
LEMMA ProtectKeeps ==
  ASSUME CacheInv, ProtectFirst \/ Unseal
  PROVE  CacheInv'
<1>1. UNCHANGED <<capacity, cells, cache, victim, cur, firmware>>
  BY DEF ProtectFirst, Unseal
<1>2. /\ prot \in [ro : BOOLEAN, xp : BOOLEAN] /\ guest \in Guest
      /\ firmware \in [cpuArch : BOOLEAN, honest : BOOLEAN]
  BY DEF CacheInv, GuestType
<1>3. prot' \in [ro : BOOLEAN, xp : BOOLEAN]
  BY ChangeType DEF ProtectFirst, Unseal, CacheInv
<1>4. CASE phase' = "done"
  <2>1. guest' \in Guest
    BY <1>2, <1>4, StopType DEF ProtectFirst, Unseal, End, Statuses
  <2> QED
    BY <1>1, <1>3, <1>4, <2>1, StopKeeps
<1>5. CASE phase' # "done"
  <2>1. /\ guest' = guest
        /\ \/ phase = "unseal" /\ phase' = "unseal2"
           \/ phase = "seal" /\ phase' = "seal2"
           \/ phase = "unseal2" /\ phase' = "translate"
    BY <1>5 DEF ProtectFirst, Unseal, End
  <2>2. GuestType' /\ Going'
    BY <1>1, <1>3, <2>1 DEF CacheInv, GuestType, Going, Cells, SlotSet, Slots
  <2>3. SlotsSound'
    BY <1>1, SlotsKept DEF CacheInv
  <2>4. VictimSound'
    BY <1>1 DEF CacheInv, VictimSound, SlotSet, Slots
  <2>5. EntrySound'
    BY <1>1, <2>1 DEF CacheInv, EntrySound, Preparing, SlotSet, Slots, SlotAt, Whole
  <2>6. CodeSound'
    BY <1>1, <2>1 DEF CacheInv, CodeSound, Fits, Holds, Fetched, Cells
  <2>7. ProtSound'
    <3>1. CASE phase = "unseal2"
      BY <2>1, <3>1 DEF Unseal, ProtectFirst, Verified, ProtSound, End
    <3>2. CASE phase = "unseal"
      BY <1>1, <1>2, <2>1, <3>2
         DEF Unseal, ProtectFirst, Granted, FirstChange, ProtSound
    <3>3. CASE phase = "seal"
      BY <1>1, <1>2, <2>1, <3>3
         DEF Unseal, ProtectFirst, Granted, FirstChange, ProtSound
    <3> QED
      BY <2>1, <3>1, <3>2, <3>3
  <2> QED
    BY <2>2, <2>3, <2>4, <2>5, <2>6, <2>7 DEF CacheInv
<1> QED
  BY <1>4, <1>5

(* The entry is published once the buffer is executable again: its slot    *)
(* holds its code, within its bounds (jit.c:995-1001).                     *)
LEMMA SealKeeps ==
  ASSUME CacheInv, Seal
  PROVE  CacheInv'
<1> USE CacheAssumption
<1>1. phase = "seal2" /\ UNCHANGED <<capacity, cells, cur, firmware>>
  BY DEF Seal
<1>2. prot' \in [ro : BOOLEAN, xp : BOOLEAN]
  BY ChangeType DEF Seal, CacheInv
<1>3. guest \in Guest /\ capacity \in Nat \ {0} /\ cur.word \in Words
  BY DEF CacheInv, GuestType
<1>4. SlotSet' = SlotSet /\ Cells' = Cells /\ Slots' = Slots
  BY <1>1 DEF SlotSet, Slots, Cells
<1>5. CASE phase' = "done"
  <2>1. guest' \in Guest /\ UNCHANGED <<cache, victim>>
    BY <1>3, <1>5, StopType DEF Seal, End, Statuses
  <2> QED
    BY <1>1, <1>2, <1>5, <2>1, StopKeeps
<1>6. CASE phase' # "done"
  <2>1. /\ phase' = "exec" /\ guest' = guest
        /\ Verified(prot', TRUE)
        /\ \/ /\ cur.publish
              /\ cache' = [cache EXCEPT ![cur.selected] = Entry(Fetched)]
              /\ victim' = (cur.selected + 1) % Slots
           \/ ~cur.publish /\ UNCHANGED <<cache, victim>>
    BY <1>6 DEF Seal, End
  <2>2. prot' = [ro |-> TRUE, xp |-> FALSE]
    BY <2>1 DEF Verified
  <2>3. GuestType'
    <3>1. DOMAIN cache' = DOMAIN cache
      BY <2>1
    <3> QED
      BY <1>1, <1>2, <1>4, <2>1, <3>1 DEF CacheInv, GuestType
  <2>4. Going'
    BY <1>1, <2>1 DEF CacheInv, Going
  <2>5. Holds(Fetched, cur.entry.base) /\ Fits(cur.entry)
    BY <1>1 DEF CacheInv, CodeSound
  <2>6. Fetched' = Fetched /\ Fetched.word = cur.word
    BY <1>1, <2>1 DEF Fetched
  <2>7. CodeSound'
    BY <1>1, <1>4, <2>1, <2>5, <2>6 DEF CodeSound, Holds
  <2>8. cur.publish => /\ cur.selected \in SlotSet
                       /\ cur.entry = SlotAt(cur.selected)
    BY <1>1 DEF CacheInv, EntrySound, Preparing
  <2>9. SlotsSound'
    <3>1. CASE ~cur.publish
      BY <1>1, <2>1, <3>1, SlotsKept DEF CacheInv
    <3>2. CASE cur.publish
      <4>1. /\ cur.entry.base = cur.selected * SlotLen /\ cur.entry.len = SlotLen
            /\ cur.selected \in SlotSet
            /\ cache' = [cache EXCEPT ![cur.selected] = Entry(Fetched)]
        BY <2>1, <2>8, <3>2 DEF SlotAt
      <4>2. ASSUME NEW i \in SlotSet, cache'[i].valid
            PROVE  /\ cache'[i].tr.word \in Words
                   /\ Size[cache'[i].tr.word] <= SlotLen
                   /\ Holds(cache'[i].tr, i * SlotLen)
        <5>1. CASE i = cur.selected
          <6>1. cache'[i].tr = Fetched
            BY <4>1, <5>1 DEF Entry, CacheInv, GuestType
          <6> QED
            BY <1>3, <2>5, <2>6, <4>1, <5>1, <6>1 DEF Fits
        <5>2. CASE i # cur.selected
          <6>1. cache'[i] = cache[i]
            BY <4>1, <5>2 DEF CacheInv, GuestType
          <6> QED
            BY <4>2, <6>1 DEF CacheInv, SlotsSound
        <5> QED
          BY <5>1, <5>2
      <4> QED
        BY <1>1, <1>4, <4>2 DEF SlotsSound, Holds
    <3> QED
      BY <3>1, <3>2
  <2>10. VictimSound'
    <3>1. CASE ~cur.publish
      BY <1>4, <2>1, <3>1 DEF CacheInv, VictimSound
    <3>2. CASE cur.publish
      <4>1. Slots \in Nat \ {0} /\ cur.selected \in Nat
        BY <1>3, <2>8, <3>2, SlotCount DEF SlotSet
      <4>2. (cur.selected + 1) % Slots \in 0..(Slots - 1)
        BY <4>1
      <4> QED
        BY <1>4, <2>1, <3>2, <4>1, <4>2 DEF VictimSound, SlotSet
    <3> QED
      BY <3>1, <3>2
  <2> QED
    BY <2>1, <2>2, <2>3, <2>4, <2>7, <2>9, <2>10
       DEF CacheInv, EntrySound, Preparing, ProtSound
<1> QED
  BY <1>5, <1>6

(* The translation is written into the invalid slot or over a buffer       *)
(* without valid slots (jit.c:985-992).                                    *)
LEMMA TranslateKeeps ==
  ASSUME CacheInv, Translate
  PROVE  CacheInv'
<1> USE CacheAssumption
<1>1. /\ phase = "translate" /\ cells' = Written(Fetched, cur.entry)
      /\ UNCHANGED <<capacity, cache, victim, cur, prot, firmware>>
  BY DEF Translate
<1>2. /\ guest \in Guest /\ capacity \in Nat \ {0} /\ cur.word \in Words
      /\ cur.entry \in [base : Nat, len : Nat] /\ GuestType
  BY DEF CacheInv, GuestType
<1>3. SlotSet' = SlotSet /\ Cells' = Cells /\ Slots' = Slots
  BY <1>1 DEF SlotSet, Slots, Cells
<1>4. /\ cur.publish => /\ cur.selected \in SlotSet
                        /\ cur.entry = SlotAt(cur.selected)
                        /\ ~cache[cur.selected].valid
      /\ ~cur.publish => /\ cur.entry = Whole
                         /\ \A i \in SlotSet : ~cache[i].valid
  BY <1>1 DEF CacheInv, EntrySound, Preparing
<1>5. cur.entry.base + cur.entry.len <= capacity
  <2>1. CASE cur.publish
    BY <1>2, <1>4, <2>1, SlotsInside DEF SlotAt
  <2>2. CASE ~cur.publish
    BY <1>2, <1>4, <2>2 DEF Whole
  <2> QED
    BY <2>1, <2>2
<1>6. /\ guest' \in Guest
      /\ \/ guest' = guest /\ phase' = "seal" /\ Fits(cur.entry)
         \/ guest' = guest /\ phase' = "retry" /\ cur.publish
         \/ phase' = "done"
  BY <1>2, StopType DEF Translate, End, Statuses
<1>7. GuestType'
  <2>1. DOMAIN cells' = Cells
    BY <1>1 DEF Written
  <2> QED
    BY <1>1, <1>3, <1>6, <2>1 DEF CacheInv, GuestType
<1>8. SlotsSound'
  <2> SUFFICES ASSUME NEW i \in SlotSet, cache[i].valid
               PROVE  /\ cache[i].tr.word \in Words
                      /\ Size[cache[i].tr.word] <= SlotLen
                      /\ Holds(cache[i].tr, i * SlotLen)'
    BY <1>1, <1>3 DEF SlotsSound
  <2>1. PICK t : t = cache[i].tr
    OBVIOUS
  <2>2. t.word \in Words /\ Size[t.word] <= SlotLen /\ Holds(t, i * SlotLen)
    BY <2>1 DEF CacheInv, SlotsSound
  <2>3. /\ cur.selected \in SlotSet /\ i # cur.selected
        /\ cells' = Written(Fetched, SlotAt(cur.selected))
    BY <1>1, <1>4
  <2>4. Holds(t, i * SlotLen)'
    BY <1>1, <1>2, <2>2, <2>3, WrittenApart
  <2> QED
    BY <1>1, <2>1, <2>2, <2>4 DEF Holds
<1>9. phase' = "seal" => Holds(Fetched, cur.entry.base)'
  <2> SUFFICES ASSUME phase' = "seal" PROVE Holds(Fetched, cur.entry.base)'
    OBVIOUS
  <2>0. PICK t : t = Fetched
    OBVIOUS
  <2>1. PICK b \in Nat, n \in Nat : /\ b = cur.entry.base /\ n = cur.entry.len
                                   /\ cur.entry = [base |-> b, len |-> n]
    BY <1>2
  <2>2. t.word \in Words /\ Size[t.word] <= n
    BY <1>2, <1>6, <2>0, <2>1 DEF Fetched, Fits
  <2>3. Holds(t, b)'
    BY <1>1, <1>2, <1>5, <2>0, <2>1, <2>2, WrittenHolds
  <2>4. t = Fetched' /\ b = (cur.entry.base)'
    BY <1>1, <1>6, <2>0, <2>1 DEF Fetched
  <2> QED
    BY <2>3, <2>4 DEF Holds
<1>10. Going' /\ VictimSound' /\ ProtSound'
  BY <1>1, <1>3, <1>6 DEF CacheInv, Going, VictimSound, ProtSound
<1>11. EntrySound'
  BY <1>1, <1>3, <1>4 DEF EntrySound, SlotAt, Whole
<1>12. CodeSound'
  BY <1>1, <1>6, <1>9 DEF CodeSound, Fits
<1> QED
  BY <1>7, <1>8, <1>10, <1>11, <1>12 DEF CacheInv

(* A translation too long for its slot forgets every slot before it        *)
(* overwrites the buffer (jit.c:988-992).                                  *)
LEMMA RetranslateKeeps ==
  ASSUME CacheInv, Retranslate
  PROVE  CacheInv'
<1> USE CacheAssumption
<1>1. /\ phase = "retry" /\ cache' = Forgotten /\ victim' = 0
      /\ cur' = [cur EXCEPT !.publish = FALSE, !.entry = Whole]
      /\ cells' = Written(Fetched, Whole)
      /\ UNCHANGED <<capacity, prot, firmware>>
  BY DEF Retranslate
<1>2. /\ guest \in Guest /\ capacity \in Nat \ {0} /\ cur.word \in Words /\ GuestType
  BY DEF CacheInv, GuestType
<1>3. SlotSet' = SlotSet /\ Cells' = Cells /\ Slots' = Slots
  BY <1>1 DEF SlotSet, Slots, Cells
<1>4. /\ guest' \in Guest
      /\ \/ guest' = guest /\ phase' = "seal" /\ Fits(Whole)
         \/ phase' = "done"
  BY <1>2, StopType DEF Retranslate, End, Statuses
<1>5. Whole \in [base : Nat, len : Nat] /\ Whole.base = 0 /\ Whole.len = capacity
  BY <1>2 DEF Whole
<1>6. /\ cur' \in [word : Words, entry : [base : Nat, len : Nat],
                   selected : Nat, publish : BOOLEAN]
      /\ cur'.word = cur.word /\ cur'.publish = FALSE /\ cur'.entry = Whole
  <2>1. cur \in [word : Words, entry : [base : Nat, len : Nat],
                 selected : Nat, publish : BOOLEAN]
    BY <1>2 DEF GuestType
  <2>2. [cur EXCEPT !.publish = FALSE]
          \in [word : Words, entry : [base : Nat, len : Nat],
               selected : Nat, publish : BOOLEAN]
    BY <2>1
  <2>3. cur' = [[cur EXCEPT !.publish = FALSE] EXCEPT !.entry = Whole]
    BY <1>1, <2>1
  <2> QED
    BY <1>5, <2>1, <2>2, <2>3
<1>7. \A i \in SlotSet : ~cache'[i].valid
  BY <1>1 DEF Forgotten, NoEntry
<1>8. GuestType'
  <2>1. DOMAIN cells' = Cells
    BY <1>1 DEF Written
  <2>2. DOMAIN cache' = SlotSet
    BY <1>1 DEF Forgotten
  <2> QED
    BY <1>1, <1>3, <1>4, <1>6, <2>1, <2>2 DEF GuestType, CacheInv
<1>9. SlotsSound' /\ EntrySound'
  <2>1. Whole' = Whole
    BY <1>1 DEF Whole
  <2> QED
    BY <1>3, <1>6, <1>7, <2>1 DEF SlotsSound, EntrySound
<1>10. VictimSound'
  BY <1>1, <1>2, <1>3, SlotCount DEF VictimSound, SlotSet
<1>11. Going' /\ ProtSound'
  BY <1>1, <1>4, <1>6 DEF CacheInv, Going, ProtSound
<1>12. phase' = "seal" => Holds(Fetched, cur.entry.base)'
  <2> SUFFICES ASSUME phase' = "seal" PROVE Holds(Fetched, cur.entry.base)'
    OBVIOUS
  <2>1. PICK t : t = Fetched
    OBVIOUS
  <2>2. PICK n \in Nat : n = capacity /\ Whole = [base |-> 0, len |-> n]
    BY <1>2 DEF Whole
  <2>3. t.word \in Words /\ Size[t.word] <= n
    BY <1>2, <1>4, <2>1, <2>2 DEF Fetched, Fits
  <2>4. cells' = Written(t, [base |-> 0, len |-> n])
    BY <1>1, <2>1, <2>2
  <2>5. 0 + n <= capacity
    BY <2>2
  <2>6. Holds(t, 0)'
    BY <1>1, <1>2, <2>3, <2>4, <2>5, WrittenHolds
  <2>7. t = Fetched' /\ (cur.entry.base)' = 0
    BY <1>1, <1>4, <1>5, <1>6, <2>1 DEF Fetched
  <2> QED
    BY <2>6, <2>7 DEF Holds
<1>13. CodeSound'
  BY <1>1, <1>4, <1>6, <1>12 DEF CodeSound, Fits
<1> QED
  BY <1>8, <1>9, <1>10, <1>11, <1>13 DEF CacheInv

(* The code at the entry is the code of the instruction the guest's memory *)
(* holds at its pc, so running it is an uncached step.                     *)
LEMMA NativeIsFetched ==
  ASSUME CacheInv, phase = "exec"
  PROVE  Native = Fetched /\ Fetched.word \in Words /\ Fetched.pc \in Pcs
<1>1. /\ Holds(Fetched, cur.entry.base) /\ cur.entry.base \in Nat
      /\ Fetched.word \in Words /\ Fetched.pc \in Pcs
  BY DEF CacheInv, CodeSound, GuestType, Fetched, Guest
<1>2. Size[Fetched.word] \in Nat \ {0}
  BY <1>1, CacheAssumption
<1>3. cells[cur.entry.base + 0] = Cell(Fetched, 0)
  BY <1>1, <1>2 DEF Holds
<1> QED
  BY <1>1, <1>3 DEF Native, Cell

LEMMA ExecuteKeeps ==
  ASSUME CacheInv, Execute
  PROVE  CacheInv'
<1>1. /\ phase = "exec" /\ guest' \in Outcomes(Native, guest)
      /\ phase' = (IF guest'.status = "run" THEN "fetch" ELSE "done")
      /\ UNCHANGED <<capacity, cells, cache, victim, cur, prot, firmware>>
  BY DEF Execute
<1>2. guest' \in Guest
  <2>1. guest \in Guest /\ guest.retired < Budget
    BY <1>1 DEF CacheInv, GuestType, Going
  <2> QED
    BY <1>1, <2>1, NativeIsFetched, OutcomesType
<1>3. SlotsSound'
  BY <1>1, SlotsKept DEF CacheInv
<1>4. GuestType' /\ VictimSound' /\ Going' /\ ProtSound'
  BY <1>1, <1>2
     DEF CacheInv, GuestType, VictimSound, Going, ProtSound, Cells, SlotSet, Slots
<1>5. EntrySound' /\ CodeSound'
  BY <1>1 DEF EntrySound, Preparing, CodeSound
<1> QED
  BY <1>3, <1>4, <1>5 DEF CacheInv

LEMMA CacheNextKeeps ==
  ASSUME CacheInv, [Next]_vars
  PROVE  CacheInv'
<1>1. CASE UNCHANGED vars
  BY <1>1 DEF vars, CacheInv, GuestType, Going, SlotsSound, VictimSound, EntrySound,
              Preparing, CodeSound, ProtSound, Holds, Cells, SlotSet, Slots, SlotAt,
              Whole, Fits, Fetched
<1>2. CASE Returned
  BY <1>1, <1>2 DEF Returned
<1> QED
  BY <1>1, <1>2, HeadKeeps, LookupKeeps, ProtectKeeps, SealKeeps, TranslateKeeps,
     RetranslateKeeps, ExecuteKeeps DEF Next

(* What the loop relies on holds in every state of every run.              *)
THEOREM CacheInvariant == Spec => []CacheInv
<1>1. CacheInv /\ [Next]_vars => CacheInv'
  BY CacheNextKeeps
<1> QED
  BY CacheInitInv, <1>1, PTL DEF Spec

(* Native code is entered only sealed, whole and current, and a valid slot *)
(* holds what it names, for every program and buffer (jit.c:966-1003).     *)
THEOREM CodeIsSealedAndCurrent == Spec => []SealedAndCurrent
<1>1. CacheInv => SealedAndCurrent
  BY DEF CacheInv, Going, SlotsSound, CodeSound, ProtSound, SealedAndCurrent
<1> QED
  BY CacheInvariant, <1>1, PTL

(* A firmware that keeps its word never has the buffer writable and        *)
(* executable because of the adapter (jit_protection.c:48-58).             *)
THEOREM BufferNeverOpened == Spec => NeverOpened
<1> DEFINE A == firmware.honest /\ WritableAndExecutable' => WritableAndExecutable
<1>1. CacheInv /\ [Next]_vars => [A]_vars
  <2> SUFFICES ASSUME CacheInv, Next, firmware.honest, prot' # prot
               PROVE  prot'.ro \/ prot'.xp
    BY DEF WritableAndExecutable, vars
  <2>1. /\ prot \in [ro : BOOLEAN, xp : BOOLEAN]
        /\ phase = "unseal2" => prot.xp
        /\ phase = "seal2" => prot.ro
    BY DEF CacheInv, GuestType, ProtSound
  <2>2. ProtectFirst \/ Unseal \/ Seal
    BY DEF Next, OutOfBudget, ControlsChanged, Interrupted, FetchFails, Lookup,
           Refused, Translate, Retranslate, Execute, Returned, vars
  <2>3. CASE ProtectFirst
    BY <2>1, <2>3 DEF ProtectFirst, Granted, FirstChange
  <2>4. CASE Unseal
    BY <2>1, <2>4 DEF Unseal, Granted, SecondChange
  <2>5. CASE Seal
    BY <2>1, <2>5 DEF Seal, Granted, SecondChange
  <2> QED
    BY <2>2, <2>3, <2>4, <2>5
<1> QED
  BY CacheInvariant, <1>1, PTL DEF Spec, NeverOpened

(* What the uncached run calls a step of the guest is what it is here.     *)
LEMMA SameGuest ==
  /\ Uncached!GuestInit = GuestInit
  /\ \A g, s : Uncached!Stop(g, s) = Stop(g, s)
  /\ \A g : Uncached!Interrupt(g) = Interrupt(g)
  /\ \A tr, g : Uncached!Outcomes(tr, g) = Outcomes(tr, g)
BY DEF Uncached!GuestInit, GuestInit, Uncached!Guest, Guest, Uncached!Statuses, Statuses,
       Uncached!Stop, Stop, Uncached!Interrupt, Interrupt, Uncached!Outcomes, Outcomes,
       Uncached!Retire, Retire, Uncached!DataStep, DataStep, Uncached!SystemStep,
       SystemStep

(* Every step of the cached loop is a step of the uncached one, or does    *)
(* not touch the guest.                                                    *)
LEMMA CacheStepIsUncached ==
  ASSUME CacheInv, [Next]_vars
  PROVE  [Uncached!Next]_guest
<1> USE SameGuest
<1>1. phase # "done" => guest.status = "run"
  BY DEF CacheInv, Going
<1>2. phase \notin {"done", "fetch"} => /\ guest.retired < Budget /\ guest.controls
                                        /\ cur.word = guest.mem[guest.pc]
  BY DEF CacheInv, Going
<1>3. CASE OutOfBudget
  BY <1>1, <1>3 DEF OutOfBudget, End, Uncached!Next, Uncached!OutOfBudget
<1>4. CASE ControlsChanged
  BY <1>1, <1>4 DEF ControlsChanged, End, Uncached!Next, Uncached!ControlsChanged
<1>5. CASE Interrupted
  BY <1>1, <1>5 DEF Interrupted, End, Uncached!Next, Uncached!HostStops
<1>6. CASE FetchFails
  BY <1>1, <1>6 DEF FetchFails, End, Uncached!Next, Uncached!HostStops
<1>7. CASE guest' = Stop(guest, "protection") /\ phase \notin {"done", "fetch"}
  BY <1>1, <1>2, <1>7 DEF Uncached!Next, Uncached!HostStops
<1>8. CASE guest' = Stop(guest, "code_full") /\ phase \notin {"done", "fetch"}
  BY <1>1, <1>2, <1>8 DEF Uncached!Next, Uncached!HostStops
<1>9. CASE Execute
  <2>1. phase = "exec" /\ guest' \in Outcomes(Native, guest)
    BY <1>9 DEF Execute
  <2>2. Native = Uncached!Current
    BY <1>2, <2>1, NativeIsFetched DEF Uncached!Current, Fetched
  <2> QED
    BY <1>1, <1>2, <2>1, <2>2 DEF Uncached!Next, Uncached!Instruction
<1>10. CASE Lookup \/ ProtectFirst \/ Returned \/ UNCHANGED vars
  BY <1>10 DEF Lookup, ProtectFirst, Returned, vars
<1>11. CASE Refused \/ Unseal \/ Seal \/ Translate \/ Retranslate
  BY <1>7, <1>8, <1>11 DEF Refused, Unseal, Seal, Translate, Retranslate, End
<1> QED
  BY <1>3, <1>4, <1>5, <1>6, <1>9, <1>10, <1>11 DEF Next

(* The cache is invisible to the guest, for every program, buffer size,    *)
(* slot size and translation length (docs/PROVIDER_NATIVE_CACHE.md).       *)
THEOREM CacheIsInvisible == Spec => CacheInvisible
<1>1. Init => Uncached!Init
  BY SameGuest DEF Init, Uncached!Init
<1>2. CacheInv /\ [Next]_vars => [Uncached!Next]_guest
  BY CacheStepIsUncached
<1> QED
  BY CacheInvariant, <1>1, <1>2, PTL DEF Spec, CacheInvisible, Uncached!Spec
=============================================================================
