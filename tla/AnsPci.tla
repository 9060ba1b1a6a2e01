------------------------------- MODULE AnsPci -------------------------------
(***************************************************************************)
(* The ANS PCIe host stub (devices/ans_pci_v1.c) as operators on its state.*)
(* It latches one pending interrupt on one of three routes, MSI-X before   *)
(* MSI before INTx, writes the prepared MSI message to a bound sink, and   *)
(* mirrors "anything pending" onto a bound interrupt-controller line.      *)
(* Reads have no effect and are left out; the message address is inside    *)
(* or outside the bound guest window.                                      *)
(***************************************************************************)
EXTENDS Integers

PciInit == [master |-> FALSE,
            intx |-> FALSE, msi |-> FALSE, msix |-> FALSE,
            msiEnabled |-> FALSE, msixEnabled |-> FALSE,
            gpaBound |-> FALSE, addrInWindow |-> FALSE,
            messageWritten |-> FALSE,
            aicBound |-> FALSE, aicLineHigh |-> FALSE]

DeliveryPending(p) == p.intx \/ p.msi \/ p.msix

\* ans_pci_sync_aic(): the stub's half; the line itself is the caller's.
SyncAic(p) ==
  IF p.aicBound THEN [p EXCEPT !.aicLineHigh = DeliveryPending(p)] ELSE p

\* ans_pci_try_msi_message_write() through the guest window.  The callback
\* sink is bound by nothing but a unit test and is left out.
TryMessage(p) ==
  IF p.gpaBound /\ p.addrInWindow THEN [p EXCEPT !.messageWritten = TRUE] ELSE p

\* Mutant: re-enabling MSI moves the pending interrupt although MSI-X owns it.
ApplyMsiEnable_Steals(p, on) ==
  LET q == [p EXCEPT !.msiEnabled = on] IN
  SyncAic(IF on /\ (p.intx \/ p.msix)
          THEN TryMessage([q EXCEPT !.msi = TRUE, !.intx = FALSE, !.msix = FALSE])
          ELSE q)

\* ans_pci_apply_msi_enable(): moves a pending interrupt with the route,
\* unless MSI-X owns delivery.
ApplyMsiEnable(p, on) ==
  LET q == [p EXCEPT !.msiEnabled = on] IN
  SyncAic(CASE p.msixEnabled -> q
            [] ~p.msixEnabled /\ on /\ ~p.msiEnabled /\ p.intx ->
                 TryMessage([q EXCEPT !.msi = TRUE, !.intx = FALSE])
            [] ~p.msixEnabled /\ ~on /\ p.msiEnabled /\ p.msi ->
                 [q EXCEPT !.msi = FALSE, !.intx = TRUE]
            [] OTHER -> q)

ApplyMsixEnable(p, on) ==
  LET q == [p EXCEPT !.msixEnabled = on] IN
  SyncAic(CASE on /\ ~p.msixEnabled /\ (p.intx \/ p.msi) ->
                 [q EXCEPT !.msix = TRUE, !.intx = FALSE, !.msi = FALSE]
            [] ~on /\ p.msixEnabled /\ p.msix ->
                 IF p.msiEnabled
                 THEN TryMessage([q EXCEPT !.msix = FALSE, !.msi = TRUE,
                                           !.intx = FALSE])
                 ELSE [q EXCEPT !.msix = FALSE, !.intx = TRUE]
            [] OTHER -> q)

\* vf_ans_pci_set_irq(): exactly the latch of the current route.
SetIrq(p, level) ==
  LET q == [p EXCEPT !.msix = level /\ p.msixEnabled,
                     !.msi  = level /\ p.msiEnabled /\ ~p.msixEnabled,
                     !.intx = level /\ ~p.msiEnabled /\ ~p.msixEnabled]
  IN SyncAic(IF q.msi THEN TryMessage(q) ELSE q)

EnableMemoryBusMaster(p) == [p EXCEPT !.master = TRUE]

\* A write to CONFIG replaces the command register.
WriteConfig(p, master) == [p EXCEPT !.master = master]

WriteMsiAddr(p, inWindow) == [p EXCEPT !.addrInWindow = inWindow]

BindMsiGpa(p) == [p EXCEPT !.gpaBound = TRUE]
UnbindMsiGpa(p) == [p EXCEPT !.gpaBound = FALSE, !.messageWritten = FALSE]

BindAic(p) == SyncAic([p EXCEPT !.aicBound = TRUE])
\* Unbinding does not lower the line.
UnbindAic(p) == [p EXCEPT !.aicBound = FALSE, !.aicLineHigh = FALSE]

(* A pending interrupt is latched on exactly the route the two enable bits *)
(* select, however the enables were toggled while it was pending           *)
(* (ans_pci_v1.c:92-141,188-214).                                          *)
RouteSelected(p) ==
  /\ p.msix => p.msixEnabled
  /\ p.msi => p.msiEnabled /\ ~p.msixEnabled
  /\ p.intx => ~p.msiEnabled /\ ~p.msixEnabled
=============================================================================
