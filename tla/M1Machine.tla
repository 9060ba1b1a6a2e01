------------------------------ MODULE M1Machine ------------------------------
(***************************************************************************)
(* The whole M1 guest bridge: the interrupting devices of M1Bridge and the *)
(* devices beside them that raise no controller line, guarded execution    *)
(* (GXF and SPRR) with the guest CPU whose translations it flushes, the    *)
(* SMC and the SART, all reset together by vf_m1_guest_mmio_reset().  The  *)
(* pin controller is not wired to the bridge (devices/GPIO.md): it stands  *)
(* beside it and is driven through its own entry points.                   *)
(***************************************************************************)
EXTENDS M1Bridge, Sequences

CONSTANTS MaxAddr, Slots,                     \* guarded execution
          Words,       \* values of the guest's register writes
          Controls,    \* the MMU controls the guest writes
          PermWords, MaskWords, Vcpu,         \* SPRR and the bound CPUs
          MaxFlush,    \* bounds the EL0 permission writes of a behaviour
          MaxKeys, NewKey,                    \* the SMC
          SmcKeys,     \* the keys the guest asks for
          Regions, Pages, MaxSartGen,         \* the SART
          NPins, NGroups, WordBits, IntWords, \* the pin controller
          GpioModes    \* the pins that are driven, with the modes each is given

Gx == INSTANCE Gxf
Sm == INSTANCE Smc
Sa == INSTANCE Sart
Io == INSTANCE Gpio

NoCpu == "no cpu"
NoHook == "no hook"

ASSUME M1MachineAssumption ==
  /\ Words \subseteq 0..MaxAddr
  /\ Controls \subseteq Gx!CtlReg
  /\ PermWords \subseteq Gx!PermWord /\ MaskWords \subseteq Gx!MaskWord
  /\ SmcKeys \subseteq Sm!Key
  /\ Pages \cup Regions \subseteq Nat
  /\ Pages = 0..(Cardinality(Pages) - 1) /\ Regions = 0..(Cardinality(Regions) - 1)
  /\ Vcpu \cap {NoCpu, NoHook} = {}
  /\ {NPins, NGroups, WordBits, IntWords} \subseteq Nat \ {0}
  /\ DOMAIN GpioModes \subseteq Io!Pin /\ Io!PinsFit
  /\ \A pin \in DOMAIN GpioModes : GpioModes[pin] \subseteq Io!Mode
  /\ {MaxFlush, MaxKeys, MaxSartGen} \subseteq Nat /\ MaxKeys >= Len(Sm!SmcInit.keys)

VARIABLES
  gxf,      \* g_m1_gxf
  tlbCpu,   \* g_m1_gxf_tlb_cpu, the guest CPU bound last
  hook,     \* the context the device's flush hook was installed with
  tlbGen,   \* tlb_generation of every guest CPU
  entry,    \* history: the latest entry to guarded mode, not yet left
  smc,      \* g_m1_smc
  stored,   \* history: the value a key was last written with
  sart,     \* g_m1_sart
  gpio,     \* the pin controller
  lines,    \* the level its callback last reported, by group
  edges     \* history: edges a group was sent and did not acknowledge

gxfVars == <<gxf, tlbCpu, hook, tlbGen, entry>>
smcVars == <<smc, stored>>
gpioVars == <<gpio, lines, edges>>
sideVars == <<gxfVars, smcVars, sart, gpioVars>>
machineVars == <<vars, sideVars>>

\* The participants of this module.
GxfPart == {"gxf", "gxfFrame", "gxfBank", "gxfTrap", "gxfVector", "gxfLock", "sprr"}
Board == {"sart", "sart3", "gpio"}
SideDevice == GxfPart \cup Board \cup {"smc"}

NoEntry == [pc |-> -1, nested |-> FALSE]
NoKeys == [k \in {} |-> <<>>]

\* The static state of the bridge; the pin controller after its own init.
MachineInit ==
  /\ Init
  /\ gxf = Gx!GxfInit /\ tlbCpu = NoCpu /\ hook = NoHook
  /\ tlbGen = [c \in Vcpu |-> 0]
  /\ entry = NoEntry
  /\ smc = [sram |-> Sm!Blank, keys |-> <<>>]
  /\ stored = NoKeys
  /\ sart = Sa!SartInit(0)
  /\ gpio = Io!GpioInit
  /\ lines = [g \in Io!Group |-> FALSE]
  /\ edges = {}

\* Mutant: the hook that init cleared is not installed again.
MachineReset_HookLost ==
  /\ MmioReset
  /\ gxf' = Gx!GxfInit /\ entry' = NoEntry
  /\ hook' = NoHook
  /\ smc' = Sm!SmcInit /\ stored' = NoKeys
  /\ sart' = Sa!SartInit(1)
  /\ UNCHANGED <<tlbCpu, tlbGen, gpioVars>>

\* vf_m1_guest_mmio_reset(): the CPU stays bound and the hook, which the
\* device's init cleared, is installed for it again.  The bridge's SART has
\* layout version 1; version 3 is how the device's tests set it up.
MachineReset ==
  /\ MmioReset
  /\ gxf' = Gx!GxfInit /\ entry' = NoEntry
  /\ hook' = tlbCpu
  /\ smc' = Sm!SmcInit /\ stored' = NoKeys
  /\ sart' = Sa!SartInit(IF "sart3" \in driven THEN 3 ELSE 1)
  /\ UNCHANGED <<tlbCpu, tlbGen, gpioVars>>

-----------------------------------------------------------------------------
(* Guarded execution. *)

Drives(p) == ready /\ p \in driven

\* A call that works on the device alone.
GxfOnly(p, g) ==
  /\ Drives(p)
  /\ gxf' = g
  /\ UNCHANGED <<vars, tlbCpu, hook, tlbGen, smcVars, sart, gpioVars>>

\* Does the write of reg change where the exit will go?
Redirects(reg) == gxf.guarded /\ reg = "elr"
Forget(when) == entry' = IF when THEN NoEntry ELSE entry

RegsOf == [gxfFrame |-> {"elr"}, gxfBank |-> {"tpidr", "spsr"}, gxfTrap |-> {"esr", "far"},
           gxfVector |-> {"vbar"}, gxfLock |-> {"vbar"}]

GxfWriteAlias(p, reg, value, el) ==
  /\ ~Gx!TvmBlocks(gxf, reg, el)
  /\ GxfOnly(p, Gx!AliasWrite(gxf, reg, value, el))
  /\ Forget(Redirects(reg))

GxfWriteGuarded(p, reg, value) ==
  /\ Gx!GuardedOnlyAllowed(gxf)
  /\ GxfOnly(p, Gx!GuardedWrite(gxf, reg, value))
  /\ Forget(Redirects(reg))

GxfWriteAspsr(nest) ==
  /\ Gx!GuardedOnlyAllowed(gxf)
  /\ GxfOnly("gxfFrame", Gx!AspsrWrite(gxf, nest))
  /\ Forget(TRUE)

GxfWriteConfig(en) == GxfOnly("gxf", Gx!ConfigWrite(gxf, en)) /\ Forget(FALSE)

GxfWriteHcr(bits, el) ==
  Gx!HcrWritable(el) /\ GxfOnly("gxfTrap", Gx!SetHcr(gxf, bits)) /\ Forget(FALSE)
GxfSetHcr(bits) == GxfOnly("gxfTrap", Gx!SetHcr(gxf, bits)) /\ Forget(FALSE)

GxfWriteLock(bit) == GxfOnly("gxfLock", Gx!LockWrite(gxf, {bit})) /\ Forget(FALSE)
GxfSetLock(bits) == GxfOnly("gxfLock", Gx!SetLock(gxf, bits)) /\ Forget(FALSE)
GxfWriteCtl(reg, value, el) ==
  GxfOnly("gxfLock", Gx!CtlWrite(gxf, reg, value, el)) /\ Forget(FALSE)

\* What an entry saves: a return address and three words of status.
Frame(w) == [elr |-> w, spsr |-> w, esr |-> w, far |-> w]

GxfGenter(w) ==
  /\ Gx!GenterAllowed(gxf)
  /\ GxfOnly("gxf", Gx!Genter(gxf, Frame(w)))
  /\ entry' = [pc |-> w, nested |-> FALSE]

GxfAbort(w) ==
  /\ Gx!AbortAllowed(gxf)
  /\ GxfOnly("gxf", Gx!Abort(gxf, Frame(w)))
  /\ entry' = [pc |-> w, nested |-> gxf.guarded]

GxfGexit ==
  Gx!GexitAllowed(gxf) /\ GxfOnly("gxf", Gx!Gexit(gxf)) /\ Forget(TRUE)

\* An exception in guarded mode overwrites the saved return address.
GxfTakeException(kind, table, w) ==
  /\ Gx!ExceptionAllowed(gxf, kind, table)
  /\ GxfOnly("gxfVector", Gx!TakeException(gxf, kind, Frame(w)))
  /\ Forget(gxf.guarded)

Insns == [top : 0..1, group : {0}, opcode : {5}, rn : 0..2]

\* The instructions themselves; EL0 is refused before they are decoded.
GxfTcgExec(insn, el, w) ==
  /\ el # 0
  /\ \/ Gx!Classify(insn) = "genter" /\ GxfGenter(w)
     \/ Gx!Classify(insn) = "gexit" /\ GxfGexit

\* m1_gxf_sprr_guest_tlb_flush(): the hook's CPU, or the one bound last.
FlushTarget ==
  {CASE hook = NoHook -> NoCpu [] hook \in Vcpu -> hook [] OTHER -> tlbCpu} \cap Vcpu

GxfWriteSprr(request, el) ==
  /\ Drives("sprr")
  /\ el = 0 => \A c \in Vcpu : gxf.permGen < MaxFlush /\ tlbGen[c] < MaxFlush
  /\ gxf' = Gx!SprrWrite(gxf, request, el)
  /\ tlbGen' = [c \in Vcpu |->
                  IF el = 0 /\ c \in FlushTarget THEN tlbGen[c] + 1 ELSE tlbGen[c]]
  /\ UNCHANGED <<vars, tlbCpu, hook, entry, smcVars, sart, gpioVars>>

GxfWriteMprr(mask) == GxfOnly("sprr", Gx!MprrWrite(gxf, mask)) /\ Forget(FALSE)

\* Binding works before the first reset too: the reset installs the hook.
GxfBindGuestTlb(cpu) ==
  /\ "sprr" \in driven
  /\ tlbCpu' = cpu
  /\ hook' = IF ready THEN cpu ELSE hook
  /\ UNCHANGED <<vars, gxf, tlbGen, entry, smcVars, sart, gpioVars>>

-----------------------------------------------------------------------------
(* The SMC's mailbox.  The register that holds the latest response is       *)
(* overwritten by every message and read by nothing but the guest.          *)

SmcStep(answer) ==
  /\ Drives("smc")
  /\ smc' = answer.smc
  /\ UNCHANGED <<vars, gxfVars, sart, gpioVars>>

SmcMessage(answer) == SmcStep(answer) /\ UNCHANGED stored

SmcReadKey(key) == SmcMessage(Sm!ReadKey(smc, key))
SmcGetKeyInfo(key) == SmcMessage(Sm!GetKeyInfo(smc, key))
SmcGetKeyByIndex(index) == SmcMessage(Sm!GetKeyByIndex(smc, index))
SmcGetSramAddr == SmcMessage(Sm!GetSramAddr(smc))
SmcBadCommand == SmcMessage(Sm!BadCommand(smc))

SmcWriteKey(key, length) ==
  LET answer == Sm!WriteKey(smc, key, length)
      value == SubSeq(smc.sram, 1, length)
  IN /\ SmcStep(answer)
     /\ stored' = IF answer.resp.status # "SUCCESS" THEN stored
                  ELSE [k \in DOMAIN stored \cup {key} |->
                          IF k = key THEN value ELSE stored[k]]

\* The KEY_COUNT register reads the count key, outside the mailbox.
SmcReadKeyCount ==
  /\ Drives("smc")
  /\ smc' = Sm!ReadKey(smc, "NKEY").smc
  /\ UNCHANGED <<vars, gxfVars, stored, sart, gpioVars>>

-----------------------------------------------------------------------------
(* The SART's window, and the pin controller. *)

SartWrite(bank, i, value) ==
  /\ ready /\ driven \cap {"sart", "sart3"} # {}
  /\ sart.generation < MaxSartGen
  /\ sart' = Sa!SartWrite(sart, bank, i, value)
  /\ UNCHANGED <<vars, gxfVars, smcVars, gpioVars>>

\* gpio_raise_irq(): the callback reports one group's level.
Raised(groups) == [g \in Io!Group |-> IF g \in groups THEN Io!GroupActive(gpio', g) ELSE lines[g]]

GpioStep(state, groups) ==
  /\ "gpio" \in driven
  /\ gpio' = state
  /\ lines' = Raised(groups \cap Io!Group)
  /\ UNCHANGED <<vars, gxfVars, smcVars, sart>>

GpioWriteCfg(pin, cfg) ==
  /\ GpioStep(Io!WriteCfg(gpio, pin, cfg), {cfg.group})
  /\ edges' = edges \ {<<cfg.group, pin>>}

GpioSetIn(pin, level) ==
  LET cfg == gpio.cfg[pin]
      edge == (pin \in gpio.in) # level
      wanted == \/ cfg.mode = "EDG_ANY"
                \/ cfg.mode = "EDG_RIS" /\ level
                \/ cfg.mode = "EDG_FAL" /\ ~level
  IN /\ GpioStep(Io!SetIn(gpio, pin, level), {cfg.group})
     /\ edges' = IF edge /\ wanted /\ cfg.group # Io!Masked
                   THEN edges \cup {<<cfg.group, pin>>} ELSE edges

GpioWriteInt(g, bits) ==
  /\ GpioStep(Io!WriteInt(gpio, g, bits), {g})
  /\ edges' = {e \in edges : ~(e[1] = g /\ Io!IntBit(e[2]) \in bits)}

-----------------------------------------------------------------------------
GxfNext ==
  \/ \E p \in driven \cap DOMAIN RegsOf : \E reg \in RegsOf[p], value \in Words :
       \/ \E el \in 0..2 : GxfWriteAlias(p, reg, value, el)
       \/ GxfWriteGuarded(p, reg, value)
  \/ \E b \in BOOLEAN : GxfWriteAspsr(b) \/ GxfWriteConfig(b)
  \/ \E bits \in SUBSET Gx!HcrBit : GxfSetHcr(bits) \/ \E el \in 0..2 : GxfWriteHcr(bits, el)
  \/ \E bit \in Gx!LockBit \ (Gx!CtlReg \ Controls) :
       GxfWriteLock(bit) \/ GxfSetLock({bit})
  \/ \E reg \in Controls, value \in Words, el \in 0..2 : GxfWriteCtl(reg, value, el)
  \/ \E w \in Words :
       \/ GxfGenter(w)
       \/ GxfAbort(w)
       \/ \E kind \in DOMAIN Gx!Kind, table \in 0..3 : GxfTakeException(kind, table, w)
       \/ \E insn \in Insns, el \in 0..1 : GxfTcgExec(insn, el, w)
  \/ GxfGexit
  \/ \E request \in PermWords, el \in 0..1 : GxfWriteSprr(request, el)
  \/ \E mask \in MaskWords : GxfWriteMprr(mask)
  \/ \E cpu \in Vcpu \cup {NoCpu} : GxfBindGuestTlb(cpu)

SmcNext ==
  \/ \E key \in SmcKeys :
       \/ SmcReadKey(key)
       \/ SmcGetKeyInfo(key)
       \/ \E length \in Sm!Length : SmcWriteKey(key, length)
  \/ \E index \in {0, MaxKeys - 1} : SmcGetKeyByIndex(index)
  \/ SmcGetSramAddr \/ SmcBadCommand \/ SmcReadKeyCount

BoardNext ==
  \/ \E i \in Regions :
       \/ \E word \in Sa!SizeWord : SartWrite("size", i, word)
       \/ \E bank \in {"addr", "size3"}, page \in Pages : SartWrite(bank, i, page)
  \/ \E pin \in DOMAIN GpioModes :
       \/ \E cfg \in [mode : GpioModes[pin], group : Io!Group \cup {Io!Masked}] :
            GpioWriteCfg(pin, cfg)
       \/ \E level \in BOOLEAN : GpioSetIn(pin, level)
  \/ \E g \in Io!Group, word \in 0..(IntWords - 1) :
       \E bits \in SUBSET {<<word, b>> : b \in 0..(WordBits - 1)} : GpioWriteInt(g, bits)

\* What a behaviour drives decides which of the disjuncts can be taken.
MachineNext ==
  \/ MachineReset
  \/ driven \cap SideDevice = {} /\ DeviceNext /\ UNCHANGED sideVars
  \/ driven \cap GxfPart # {} /\ GxfNext
  \/ "smc" \in driven /\ SmcNext
  \/ driven \cap Board # {} /\ BoardNext

Spec == MachineInit /\ [][MachineNext]_machineVars

-----------------------------------------------------------------------------
(* Properties *)

(* The two banks of exception registers never leak into each other: no     *)
(* access and no exception in guarded mode touches the normal bank, and    *)
(* the guarded bank changes in normal mode only by an entry.  The flag the *)
(* accessors route by and the status bit the entries test never disagree   *)
(* (apple_gxf_v1.c:13-16, 89-146, 317-358).                                *)
BanksSeparate ==
  [][gxf' # gxf /\ ~MachineReset =>
       /\ gxf'.guarded = gxf'.status
       /\ gxf.guarded => gxf'.el = gxf.el
       /\ ~gxf.guarded /\ ~gxf'.guarded => gxf'.gl = gxf.gl]_machineVars

(* The exit from guarded mode undoes the latest entry: while the guest has *)
(* touched neither ELR nor ASPSR and taken no exception, the saved return  *)
(* address and the NEST bit are that entry's, however many aborts nested   *)
(* on it, and a NEST bit never outlives guarded mode, so that a later      *)
(* entry cannot be swallowed (apple_gxf_v1.c:272-315, 360-374).            *)
ExitUndoesEntry ==
  /\ gxf.nest => gxf.guarded
  /\ entry # NoEntry => /\ gxf.guarded
                        /\ gxf.gl.elr = entry.pc
                        /\ gxf.nest = entry.nested

\* A guest write at EL1 that may reach the normal VBAR, or an MMU control.
WritesVbar == \E value \in Words : GxfWriteAlias("gxfLock", "vbar", value, 1)
WritesCtl(reg) == \E value \in Words : GxfWriteCtl(reg, value, 1)

(* A VMSA lock holds at EL1: a locked MMU control changes only in guarded  *)
(* mode, a locked SCTLR.M too, the normal VBAR not even there, since the   *)
(* write reaches the guarded bank; and no write of the lock register, in   *)
(* any mode, drops a lock (apple_gxf_v1.c:51-57, 104-114, 472-503).        *)
LocksHold ==
  [][gxf' # gxf /\ Drives("gxfLock") /\ gxf.lock # {} =>
       /\ WritesVbar /\ "vbar" \in gxf.lock => gxf'.el.vbar = gxf.el.vbar
       /\ \A reg \in Controls :
            WritesCtl(reg) /\ ~gxf.guarded =>
              /\ reg \in gxf.lock => gxf'.ctl[reg] = gxf.ctl[reg]
              /\ reg = "sctlr" /\ "sctlrM" \in gxf.lock =>
                   gxf'.ctl[reg] % 2 = gxf.ctl[reg] % 2
       /\ (\E bit \in Gx!LockBit : GxfWriteLock(bit)) => gxf.lock \subseteq gxf'.lock
    ]_machineVars

Merged == gxf'.permGen = gxf.permGen + 1

(* A permission change from EL0 is announced to the CPU bound last and to  *)
(* no other, exactly once, whether it was bound before or after the reset  *)
(* that clears the hook; and it changes no bit that the mask in force      *)
(* denies (apple_gxf_v1.c:148-178, preos_bridge.c:80-86, 434-437, 894-899).*)
ChangeAnnounced ==
  [][/\ \A c \in Vcpu : tlbGen'[c] = tlbGen[c] + (IF Merged /\ c = tlbCpu THEN 1 ELSE 0)
     /\ Merged => \A s \in Slots :
                    gxf'.perm[s] \ gxf.mprr[s] = gxf.perm[s] \ gxf.mprr[s]
    ]_machineVars

(* The key table is a map: no key twice and never more than it has room    *)
(* for; a key that was written reads back with the length and the value of *)
(* its last write, whatever went through the shared SRAM in between; the   *)
(* read-only keys keep their boot values (apple_smc_v1.c:17-92, 179-205).  *)
KeysReadBack ==
  /\ Len(smc.keys) <= MaxKeys
  /\ \A i, j \in DOMAIN smc.keys : smc.keys[i].key = smc.keys[j].key => i = j
  /\ \A key \in DOMAIN stored : \E i \in DOMAIN smc.keys :
       /\ smc.keys[i].key = key
       /\ SubSeq(smc.keys[i].data, 1, smc.keys[i].size) = stored[key]
  /\ \A i \in DOMAIN smc.keys \ {1} :
       i <= Len(Sm!SmcInit.keys) /\ ~smc.keys[i].writable =>
         smc.keys[i] = Sm!SmcInit.keys[i]

(* The generation is a cache key: while it does not move, no page changes  *)
(* the region it hits, in either layout (sart_v1.c:14-23, 51-56, 99-124).  *)
SartCacheable ==
  [][sart' # sart /\ sart'.generation = sart.generation /\ ~MachineReset =>
       \A page \in Pages : Sa!Translate(sart', page) = Sa!Translate(sart, page)]_machineVars

(* The level last reported for a group is whether one of its bits is       *)
(* pending, although a pin's move to another group leaves its bit behind;  *)
(* and an edge stays pending until the guest clears that very bit or       *)
(* configures that pin in that group again, whatever happens to the pins   *)
(* that share its word (apple_gpio_v1.c:22-45, 62-132).                    *)
GpioLineTrue ==
  /\ \A g \in Io!Group : lines[g] = Io!GroupActive(gpio, g)
  /\ \A e \in edges : Io!IntBit(e[2]) \in gpio.int[e[1]]
=============================================================================
