---------------------------- MODULE AtomicControl ----------------------------
(***************************************************************************)
(* What the two-phase control exchange promises its caller: one committed  *)
(* control state and one acknowledged copy of it.  A guest control         *)
(* instruction is one atomic step of the committed state, taken only from  *)
(* a state the caller has seen; the caller then sees it, or stays in doubt *)
(* for ever.  Nothing is lost, applied twice or applied out of order.      *)
(***************************************************************************)
EXTENDS Integers

CONSTANTS
  Snapshot,  \* the control snapshots
  Seed       \* the first of them

VARIABLES
  committed, \* A, E and counters at the owner
  acked,     \* the caller's copy
  tag        \* KNOWN, or UNCERTAIN once an acknowledgement is missing

absVars == <<committed, acked, tag>>

Init ==
  /\ committed = [arch |-> Seed, eff |-> Seed,
                  revision |-> 1, epoch |-> 1, invalidations |-> 0]
  /\ acked = committed
  /\ tag = "KNOWN"

\* A register write before the enable, or the enable of a synchronized state.
Write(s) ==
  {[s EXCEPT !.arch = a, !.revision = @ + 1] :
     a \in {x \in Snapshot :
              /\ ~s.arch.sctlr.m
              /\ x.sctlr # s.arch.sctlr =>
                   /\ x = [s.arch EXCEPT !.sctlr.m = TRUE]
                   /\ s.arch = s.eff}}

\* Context synchronization makes the architectural snapshot effective.
Synchronize(s) == {[s EXCEPT !.eff = s.arch, !.epoch = @ + 1]}

Invalidate(s) == {[s EXCEPT !.invalidations = @ + 1]}

Apply ==
  /\ tag = "KNOWN" /\ acked = committed
  /\ committed' \in Write(committed) \cup Synchronize(committed)
                      \cup Invalidate(committed)
  /\ UNCHANGED <<acked, tag>>

Acknowledge ==
  /\ tag = "KNOWN"
  /\ acked' = committed
  /\ UNCHANGED <<committed, tag>>

Doubt ==
  /\ tag' = "UNCERTAIN"
  /\ UNCHANGED <<committed, acked>>

Next == Apply \/ Acknowledge \/ Doubt

Spec == Init /\ [][Next]_absVars
=============================================================================
