------------------------------ MODULE GuestStep ------------------------------
(***************************************************************************)
(* What one translated AArch64 instruction does to the guest when the      *)
(* native code made from it runs and the provider loop has handled its     *)
(* status (runtime/jit.c, runtime/memory_stage1.inc).  The translator      *)
(* writes the guest PC, the instruction word and the exception level into  *)
(* the code (finish, field32, known_privileged in jit.c), so the effect of *)
(* a block is the effect of the translation it was made from, whatever the *)
(* guest holds by the time it runs.                                        *)
(***************************************************************************)
EXTENDS Naturals

CONSTANTS
    Pcs,        \* guest instruction addresses
    Words,      \* instruction words
    Kind,       \* Words -> what the translator recognises the word as
    Succ,       \* Pcs -> Pcs: the address pc + 4
    Target,     \* Pcs -> Pcs: the branch target embedded at that address
    Vector,     \* the interrupt vector of EL1
    Stored,     \* the words a guest store may write over an instruction
    Budget      \* instructions a run may retire

Kinds == {"step", "branch", "memory", "system", "halt", "undefined"}

ASSUME StepAssumption ==
    /\ Kind \in [Words -> Kinds]
    /\ Succ \in [Pcs -> Pcs]
    /\ Target \in [Pcs -> Pcs]
    /\ Vector \in Pcs
    /\ Stored \subseteq Words
    /\ Budget \in Nat \ {0}

\* What translate_impl compiles in: the fetched word, its address, its EL.
Translation == [pc : Pcs, word : Words, el : {0, 1}]

\* How a run ends; "run" while it has not.
Statuses == {"run", "budget", "interrupt", "controls", "fetch", "protection",
             "code_full", "data", "privilege", "trap", "undefined", "halt"}

\* The guest as the loop sees it: vf_cpu, the words its owner's memory holds,
\* and whether the memory controls are still the ones the run was given.
\* version tells the two loops apart: 1 may write control registers, 2 not.
Guest == [pc : Pcs, el : {0, 1}, mem : [Pcs -> Words], controls : BOOLEAN,
          version : {1, 2}, retired : 0..Budget, status : Statuses]

\* Mutant: the instruction is not counted.
Retire_Uncounted(g, pc) == [g EXCEPT !.pc = pc]

Retire(g, pc) == [g EXCEPT !.pc = pc, !.retired = g.retired + 1]

Stop(g, status) == [g EXCEPT !.status = status]

\* vf_cpu_poll_interrupt enters the vector before the run returns.
Interrupt(g) == Stop([g EXCEPT !.pc = Vector, !.el = 1], "interrupt")

\* A memory dispatch stub carries its word only; the address of the next
\* instruction comes from the live CPU.
DataStep(g) ==
    {Retire(g, Succ[g.pc]), Stop(g, "data")}
        \cup (UNION {{Retire([g EXCEPT !.mem[a] = w], Succ[g.pc]) : w \in Stored}
                     : a \in Pcs})

\* A word the translator leaves to the slow steps.  Privileged words were
\* refused at translation time for EL0; version 1 admits control writes.
SystemStep(tr, g) ==
    IF tr.el = 0
    THEN {Stop(g, "privilege")}
    ELSE {Retire(g, Succ[g.pc]), Stop(g, "trap")}
           \cup (IF g.version = 1
                 THEN {Retire([g EXCEPT !.controls = FALSE], Succ[g.pc])}
                 ELSE {})

\* Every guest that running the code made from tr can leave behind.
Outcomes(tr, g) ==
    CASE Kind[tr.word] = "step" -> {Retire(g, Succ[tr.pc])}
      [] Kind[tr.word] = "branch" ->
            {Retire(g, Succ[tr.pc]), Retire(g, Target[tr.pc])}
      [] Kind[tr.word] = "memory" -> DataStep(g)
      [] Kind[tr.word] = "system" -> SystemStep(tr, g)
      [] Kind[tr.word] = "halt" -> {Stop(Retire(g, Succ[tr.pc]), "halt")}
      [] Kind[tr.word] = "undefined" -> {Stop(g, "undefined")}

\* The entry checks passed: a run starts at any address, over any code.
GuestInit ==
    {g \in Guest : g.retired = 0 /\ g.status = "run"}

=============================================================================
