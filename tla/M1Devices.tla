----------------------------- MODULE M1Devices -----------------------------
(***************************************************************************)
(* The leaf devices behind the M1 guest bridge as operators on their       *)
(* states: timer, storage, display, recovery channel, DART, UART and SEP   *)
(* mailbox.  A device knows nothing of the interrupt controller: it has a  *)
(* Pending predicate, and the bridge copies that onto its line.            *)
(* Registers that no predicate depends on are left out.                    *)
(***************************************************************************)
EXTENDS Integers

CONSTANTS MaxTime,    \* stands for UINT64_MAX, where the counter saturates
          MaxGen,     \* stands for UINT32_MAX, where the attach epoch sticks
          SeqMod,     \* stands for 2^32, the recovery sequence's modulus
          FifoDepth   \* the UART's receive FIFO

Time == 0..MaxTime

(* Timer: a saturating counter against a comparator. *)
TimerInit == [counter |-> 0, compare |-> 0, enabled |-> FALSE, masked |-> FALSE]

TimerPending(t) == t.enabled /\ ~t.masked /\ t.counter >= t.compare

TimerAdvance(t, ticks) ==
  [t EXCEPT !.counter = IF @ > MaxTime - ticks THEN MaxTime ELSE @ + ticks]

TimerCompare(t, value) == [t EXCEPT !.compare = value]
TimerCtl(t, enabled, masked) == [t EXCEPT !.enabled = enabled, !.masked = masked]

(* Storage: attached or not, and a sticky attach epoch. *)
StorageInit == [attached |-> FALSE, generation |-> 0]

StoragePending(s) == s.attached

StorageAttach(s) ==
  [attached |-> TRUE,
   generation |-> IF s.generation < MaxGen THEN s.generation + 1 ELSE s.generation]

StorageDetach(s) == [s EXCEPT !.attached = FALSE]

(* Display: a frame presented raises vblank until it is acknowledged. *)
AdpInit == [configured |-> FALSE, enabled |-> FALSE, presented |-> FALSE,
            vblank |-> FALSE]

AdpPending(d) == d.vblank

AdpConfigure(d) == [configured |-> TRUE, enabled |-> FALSE, presented |-> FALSE,
                    vblank |-> FALSE]
AdpPresent(d) == [d EXCEPT !.enabled = TRUE, !.presented = TRUE, !.vblank = TRUE]
AdpDisable(d) == [d EXCEPT !.enabled = FALSE]
AdpAckVblank(d) == [d EXCEPT !.vblank = FALSE]

(* Recovery: frames are accepted in sequence, one at a time. *)
RecoveryInit == [expected |-> 0, last |-> 0, ready |-> FALSE]

RecoveryPending(r) == r.ready

\* Every other error of vf_recovery_ingest() is a frame that is not intact.
RecoveryAccepts(r, sequence, intact) == intact /\ sequence = r.expected

RecoveryIngest(r, sequence) ==
  [expected |-> (r.expected + 1) % SeqMod, last |-> sequence, ready |-> TRUE]

RecoveryClear(r) == [r EXCEPT !.ready = FALSE]

(* DART: an error flag, write-one-to-clear, and the configuration lock. *)
DartInit == [fault |-> FALSE, locked |-> FALSE]

DartPending(d) == d.fault

DartFault(d) == [d EXCEPT !.fault = TRUE]
DartClear(d, bits) == [d EXCEPT !.fault = @ /\ ~bits]
DartConfig(d, lock) == [d EXCEPT !.locked = lock]

(* UART: the interrupt latch is separate from the receive FIFO. *)
UartInit == [rx |-> 0, fifo |-> FALSE, pending |-> FALSE]

UartPending(u) == u.pending

UartPushRx(u) == [u EXCEPT !.rx = @ + 1, !.pending = TRUE]
\* URXH pops only with the FIFO enabled, and never touches the latch.
UartReadRx(u) == [u EXCEPT !.rx = IF u.fifo /\ @ > 0 THEN @ - 1 ELSE @]
UartFifoControl(u, enable, reset) ==
  [u EXCEPT !.fifo = enable, !.rx = IF reset THEN 0 ELSE @,
            !.pending = @ /\ ~reset]
UartTx(u) == [u EXCEPT !.pending = TRUE]
UartAck(u) == [u EXCEPT !.pending = FALSE]

(* SEP: one reply slot; a request overwrites a reply nobody read. *)
SepInit == [reply |-> "ANNOUNCE", pending |-> TRUE]

SepPending(s) == s.pending

SepRequest == {"PING", "GET_STATUS", "OTHER"}
SepHandle(s, request) ==
  [reply |-> CASE request = "PING"       -> "PING_ACK"
               [] request = "GET_STATUS" -> "STATUS_REPLY"
               [] request = "OTHER"      -> "L1_REJECT",
   pending |-> TRUE]
SepDrain(s) == [s EXCEPT !.pending = FALSE]
=============================================================================
