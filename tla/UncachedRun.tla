----------------------------- MODULE UncachedRun -----------------------------
(***************************************************************************)
(* What a provider run promises: the run of the uncached build             *)
(* (NEXTCORE_DISABLE_PROVIDER_CACHE in runtime/jit.c and                   *)
(* runtime/memory_stage1.inc), with the code buffer and its protection     *)
(* abstracted to their outcomes.  Each instruction is the one the guest's  *)
(* memory holds at its pc when it is executed.                             *)
(***************************************************************************)
EXTENDS GuestStep

VARIABLE guest

Init == guest \in GuestInit

\* The instruction at the pc, freshly fetched and freshly translated.
Current == [pc |-> guest.pc, word |-> guest.mem[guest.pc], el |-> guest.el]

Instruction ==
    /\ guest.status = "run"
    /\ guest.retired < Budget
    /\ guest.controls
    /\ guest' \in Outcomes(Current, guest)

\* The budget ends a run only when it is used up.
OutOfBudget ==
    /\ guest.status = "run"
    /\ guest.retired = Budget
    /\ guest' = Stop(guest, "budget")

\* Changed controls end a run before the next instruction.
ControlsChanged ==
    /\ guest.status = "run"
    /\ guest.retired < Budget
    /\ ~guest.controls
    /\ guest' = Stop(guest, "controls")

\* What the host or the memory owner may do between two instructions.
HostStops ==
    /\ guest.status = "run"
    /\ guest.retired < Budget
    /\ guest.controls
    /\ \/ guest' = Interrupt(guest)
       \/ \E s \in {"fetch", "protection", "code_full"} :
              guest' = Stop(guest, s)

Next == Instruction \/ OutOfBudget \/ ControlsChanged \/ HostStops

Spec == Init /\ [][Next]_guest

=============================================================================
