# Nextcore-ISE in TLA+

Nextcore-ISE is a freestanding ARM64e-to-x86_64 translating runtime that an EFI
application starts before an operating system.  This directory holds TLA+
models of the parts of it that keep state and can go wrong in an order nobody
wrote a test for, the TLC configurations that check them on small instances,
and TLAPS proofs of their safety for every size.  Paths below are relative to
the repository root (`src/` in PROJECT.json).

`PROJECT.json` is the index: for each definition the source lines it
translates, for each run its properties, for each property a mutated form of
the code that breaks it, and the list of hazards the properties were chosen for.

## 1. The system

| Component | Source | State | Operations | What makes it correct |
|---|---|---|---|---|
| Dynamic memory owner | `runtime/memory-service/src/dynamic.rs` | architectural and effective control snapshots, counters, walker with TLB, one prepared transaction, guest RAM | `control` (PREPARE, COMMIT, CANCEL of WRITE, ISB, DSB, TLBI), `fetch`, `access` | no translation outlives the registers it came from; translation is enabled once, through a guarded ISB; counters name snapshots and never wrap |
| Dynamic dispatcher | `runtime/memory_dynamic.inc`, `.c`, `.h` | CPU bank, last acknowledged state and its tag, the exchange in progress | run one instruction at a time; a control instruction is PREPARE then COMMIT | what it reports as KNOWN is what the owner committed; after a failure the doubt is one instruction wide; a run ends |
| Stage-1 memory service | `runtime/memory-service/src/stage1.rs`, `lib.rs` | borrowed RAM and tables | translate and access for a fixed profile | used by the owner; records are validated |
| Provider run loops | `runtime/jit.c`, `runtime/memory_stage1.inc` | CPU, a 64-entry cache of native code in the caller's buffer | fetch, look up, translate, seal, enter, handle the status | the cache cannot be observed; only sealed, current code is entered; a run ends |
| JIT protection | `runtime/jit_protection.c` | page attributes owned by firmware | begin_write, begin_execute | the buffer is never writable and executable |
| Device bridge | `runtime/preos_bridge.c` | one instance of each device, bindings, shadows | reset, guest MMIO, host entry points, interrupt mirroring | a device's request and its controller line agree |
| AIC, timer, storage, display, recovery, DART, UART, SEP | `devices/*_v1.c` | registers, latches, FIFOs | reads with effects, writes, resets, host injection | the interrupt request follows the registers |
| ANS storage function | `devices/ans_v1.c`, `ans_pci_v1.c`, `ans_mbox_v1.c`, `ascwrap_v1.c`, `ans_autoboot_v1.c` | queues, command register, MSI and MSI-X routing, three lazily recomputed flags | doorbells, identify, drain, bind, capability writes | a completion is signalled on the selected route; nothing acts on a stale flag |
| NVRAM | `devices/nvram_v1.c` and the bridge | variables, staging buffer, image file | parse, serialize, load, save, attach, detach, commit | no mixture of two banks is read; a failed load leaves no half bank; a save can be loaded again |
| Native core | `runtime/arch.c`, `vf_run` of `runtime/jit.c` | system registers, PSTATE, pending events, timers | block loop, exception entry, poll, sysreg access | what a block-wise loop does is what an instruction-wise one would |
| Reference core | `runtime/preos/src/arch.rs`, `platform.rs` | the same, a walker and an exclusive monitor | bounded runs of one instruction at a time, ERET, exclusives | a return restores what entry saved; registers, walker and monitor agree |
| M1 machine graph | `runtime/preos/src/m1.rs` | timer, interrupt controller, devices | MMIO, mirroring after every instruction | two views of one timer agree |
| MMU walker | `runtime/preos/src/mmu.rs` | control registers, 16-entry TLB | configure, translate, invalidate | a TLB hit answers what a walk would; no address bit is lost |
| GXF and SPRR | `devices/apple_gxf_v1.c` and the bridge | two banks of exception registers, status, NEST, locks, MMU controls, permissions and mask, flush hook | GENTER, GEXIT, aborts, exceptions, register writes at each level, CPU binding | the banks do not leak into each other; an exit undoes the latest entry; locks hold; the bound CPU hears of each permission change |
| SMC | `devices/apple_smc_v1.c` | key table, shared SRAM | read, write, describe, enumerate | a key reads back what was last written; a full table takes no more |
| SART | `devices/sart_v1.c` | regions, generation | register writes, translate | a translation may be kept while the generation stands |
| GPIO | `devices/apple_gpio_v1.c` | pin configuration, inputs, pending bits | configure, drive a pin, acknowledge | the reported level is the pending one; no edge is lost |
| Floating point and SIMD | `runtime/fp_*.c`, `simd_*.c` | register bank, FPCR, FPSR, program counter | arithmetic, moves, control registers, bitwise, copies, Q transfers, access traps | one correct rounding with its flags; a refused instruction leaves nothing behind |
| Translator, PAC | `runtime/jit.c`, `pauth.rs` | none of their own | encodings, a cipher | tested bit by bit in the repository |
| EFI entry, boot, scanout | `runtime/main.c`, `boot_jit.c`, `memory_boot*.c`, `gop_scanout.c` | firmware handles | straight-line set-up | resource clean-up |

Everything runs on one thread.  What makes it hard is not preemption but:

* **two owners of one fact**: CPU bank and memory owner, device latch and
  controller line, cached native code and guest memory, file and parsed bank,
  doorbell and its shadow;
* **calls that fail in the middle**: a callback that returns an error after it
  acted, a firmware that reports a change it did not make, a write that stops
  half way through a file;
* **lazily recomputed state**: the STARTED, READY, ARMED chain;
* **order**: a host that may call any entry point between any two guest
  accesses, MSI and MSI-X enables toggled with an interrupt pending;
* **limits**: one-shot tokens and 64-bit counters at their end, doorbells that
  wrap, caches without a slot, full variable and key tables, exponents and
  addresses at the end of their range.

## 2. Modules and how they correspond to the code

```
DynamicService                                     AtomicControl
      ^                                                 ^ refined by
      +-- DynamicRun  <- DynamicRunProofs ---------------+
GuestStep <- UncachedRun <- refined by - ProviderCache  <- ProviderCacheProofs
Aic, M1Devices, AnsPci, Ans  --INSTANCE-->  M1Bridge
                 AnsPci, Ans  --INSTANCE-->  AnsStack  <- AnsStackProofs
        Gxf, Smc, Sart, Gpio  --INSTANCE-->  M1Machine  --EXTENDS--> M1Bridge
M1Machine  <- M1MachineProofs
Powers <- FpScalar <- FpReference <- FpUnit  <- FpProofs
CpuWords <- NativeCpu, ReferenceCpu  --INSTANCE-->  CpuPair  <- CpuPairProofs
Nvram  <- NvramProofs
Powers <- Mmu  <- MmuProofs
```

**DynamicService** (`dynamic.rs`).  `state` is `control.state` (A, E, revision,
epoch, invalidations), `mmu` the canonical walker, `enablePc` the slot of the
ISB an accepted enable waits for, `prepared` the one-shot transaction, `mem`
the guest RAM.  `Control` is the entry point of the exchange, with one disjunct
for each outcome (`Prepare`, `Commit`, `Cancel`, and `Refuse` for every
rejected request); `Execute` is a fetch, load or store.  A page-table
walk is the constant function `Walk`: the table image is immutable while the
owner holds it, so a walk depends on the registers alone.  The TLB has room for
every slot; the real one replaces entries, which only removes translations and
cannot make an incoherent one.  Registers have two or three values each, chosen
so that one changes the mapping, one is outside the profile and one carries an
ASID.

**DynamicRun** (`memory_dynamic.inc`) EXTENDS DynamicService and adds the
dispatcher: `mode` is its program counter, `known` and `tag` the record it
returns.  Between the dispatcher and the owner is a transport that loses a call
before or after it is served, damages the reply (the token included) and hands
the owner a request twice.  General registers are not kept: operands are any
value.

**AtomicControl** is what the two-phase exchange promises: a control
instruction is one atomic step of the committed state from an acknowledged one.

**GuestStep, UncachedRun, ProviderCache** (`jit.c`, `memory_stage1.inc`,
`jit_protection.c`).  `GuestStep` says what the native code of one instruction
does; a translation records the word, pc and exception level it was made for,
so running a stale one is visibly different.  `UncachedRun` is the run of the
build without the cache.  `ProviderCache` is the loop of both versions with
entries, replacement, the overwriting fallback for translations longer than a
slot, both protection protocols and a firmware that refuses or lies.  The
buffer is a row of cells, so overlapping translations really overwrite.

**M1Bridge** over **Aic**, **M1Devices**, **AnsPci**, **Ans**.  The device
modules are operators on device records (the C functions take a device
pointer); the bridge owns the records as variables and has one action per entry
point, the trailing interrupt synchronisation included.  `driven` limits a
behaviour to a group of participants that share state: the leaf devices are
independent of each other but for their lines.

**M1Machine** over **Gxf**, **Smc**, **Sart**, **Gpio** EXTENDS M1Bridge with
the devices that raise no controller line, so that one reset resets them all and
the one Next is that of the whole machine.  `Gxf` keeps the two banks (`el`,
`gl`), the flag the accessors route by and the status bit the entries test
separately, as the code does.  `tlbCpu` and `hook` are the bridge's binding and
the device's copy of it; `tlbGen` is what the guest CPU counts.  SPRR words are
sets of permitted bits per slot.  The SMC's SRAM and key data are groups of bytes; the
SART's two register layouts are both there (the bridge uses layout 1, the
device's tests set up 3).  The pin controller is not wired to the bridge
(`devices/GPIO.md`): it stands beside it and its callback's last level is
`lines`.  `entry`, `stored` and `edges` are history variables.

**FpScalar** is `fp_scalar.c` with the width of exponent and fraction as
constants: unpacking, alignment with a sticky bit, the single rounding, the
underflow shift, overflow and NaN selection.  **FpReference** states the result
without any of that, as the exact fraction rounded to the nearest pattern in the
direction of the mode.  **FpUnit** is the bank and everything that works on it:
the dispatcher's executor (`fp_execution.c`, `fp_instruction.c`,
`fp_control.c`, `simd_bitwise.c`) with its traps, and the services a host calls on
the same bank (`simd_transfer.c`, `simd_copy.c`, `simd_memory.c`).  A register is
a row of lanes as wide as a pattern and addresses count lanes, so that wrapping
at the end of the address space is reached.

**AnsStack** composes the NVMe stub and the PCIe function with mailbox, ASC
wrapper and autoboot.  A submission entry is the shape of its data (one page, two
pages, refused); a mailbox message its kind.  `undrained` and `masterLost` are
history variables.

**Nvram** (`nvram_v1.c`, bridge staging buffer).  An image is a sequence of
cells, a header and one cell per partition; the header's checksum stands for
the content it was computed over, so it matches nothing else.  `whole` and
`saved` are history variables.

**Mmu** (`mmu.rs`).  `mmu` is the `VfMmu` record with its TLB, `tables` the
descriptor memory the reader backs, and the history variable `seen` the contents
it had since the last invalidation.  `Walk` is the walk with the order of its
checks; `AfterTranslate` is what one call of `translate_detailed` leaves in the
TLB.  Address width, page and index bits, TLB size and the ranges of `TxSZ` are
constants, so that the shift arithmetic is that of the code on shorter numbers.
A descriptor is a record of the fields the walk distinguishes; `odd` stands for
the bits the strict profile never admits, `tcr.refused` for the TCR bits that no
profile does.

**CpuPair** over **NativeCpu** (`arch.c`, `vf_run`) and **ReferenceCpu**
(`arch.rs`, the bus of `m1.rs`), both in the vocabulary of **CpuWords**.  A core
is a record and an instruction a step of it; the guest's program is any sequence
of words of a family, and a word carries the values its registers hold, so that
general registers and flags are left out.  Register arithmetic is one word
(`addsp`, which the stack banks make visible).  In NativeCpu `left` and `lag` say
where in a compiled block the core is.  In CpuPair both cores take the same word
until one of them would not support it (`ReferenceOnly`); the reference core goes
on alone, through a caller that enters pending exceptions, moves the interrupt
lines and starts another bounded run.  `saved`, `ideal` and `asked` are history
variables: the interrupted context, the reserved bytes, the timer as programmed.
Translation is a regime (`Regimes`, what the walker accepts) and a fixed map that
has every byte of memory twice; the walk itself is in Mmu.  Instruction fetches
are assumed mapped.

Where the two cores differ by design or accident they are not compared: words
only one supports; FAR; an EL2 register accessed below EL2 and TLBI at EL0 (a
system-register trap in one, a privilege fault in the other); TCR.AS and the
upper TTBR bits, which `arch.c` accepts; a counter at its maximum (one wraps, one
saturates); a vector base at the end of the address space.  Two behaviours of the
reference core are in the model and left without a property: ERET to EL1t loads
SP_EL1 (`docs/NATIVE_MMU_PROVIDER_V2.md` lists "the separate EL1t stack-bank
correction" as still to come), and programming the timer by MMIO leaves ISTATUS
clear until the next instruction, which no delivery depends on.

## 3. Runs

| Run | Instance | Shows |
|---|---|---|
| `dynamic_service` | 4 slots, 2 registers, counters to 3, tokens to 6 | any client, including stale, malformed, cancelled and replayed requests, leaves TLB, window, one-way enable and counters right |
| `dynamic_run` | 7 slots, 64 program images, budget 6 | `KnownIsCommitted`, `UncertainByOneStep`, `RunInProfile`; `AtomicExchange`: DynamicRun implements AtomicControl; `RunEnds` |
| `provider_cache` | 2 pcs, 7 words, buffers of 1, 2 and 6 cells, 2 slots, budget 5 | `SealedAndCurrent`, `NeverOpened`; `CacheInvisible`: ProviderCache implements UncachedRun; `RunReturns` |
| `m1_bridge` | 8 lines, 2 CPUs, 15 groups of participants | interrupts: `ClaimedOnce`, `RouteExclusive`, `CompletionSignalled`, `MirrorLostOnlyByReset`; guarded execution: `BanksSeparate`, `ExitUndoesEntry`, `LocksHold`, `ChangeAnnounced`; `KeysReadBack`, `SartCacheable`, `GpioLineTrue` |
| `ans_stack` | doorbells of 4 values | `QueueAgrees`, `ActsOnlyWhenLive` |
| `nvram` | images of at most 4 cells, 3 names, table of 2 | `NoMixture`, `NoHalfBank`, `CoveredSaveReloads` |
| `mmu` | 8-bit addresses, granules of 2 and 4 bytes, TLB of 2, 10 configurations, 3 table contents between invalidations | `HotIsSomeCold`, `PathsSeparatePages` |
| `cpu_pair` | 6 families of words, budget 4, blocks of 2, 2 runs, 16 bytes of RAM | `NativeAgrees`, `RoundTrip`, `MmuFollowsRegisters`, `MonitorExact`, `GraphFollowsCpu` |
| `fp` | six-bit patterns (3 bits of exponent, 2 of fraction), 6 scenarios, up to 3 calls | `FpRoundsOnce`: every sum and quotient of every two patterns in every mode is FpReference's, flags included; `FpCallsWhole`: a call is done wholly or leaves no trace |

Three runs end in a counterexample, each a disagreement between the code and
what the repository says of it:

| Run | Property | Disagreement |
|---|---|---|
| `m1_bridge_storage` | `StorageLineHeld` | line 1 has two drivers; an ANS operation lowers the level that `storage_v1.c` says is held while a disk is attached |
| `ans_stack_lazy` | `StartedIsContinuous` | STARTED survives a loss of BusMaster that nobody looked at, against `ANS_MBOX.md` |
| `nvram_reload` | `SavedReloads` | a bank shorter than the attached image is saved over it with success and cannot be loaded again: the save sums `bank_len` bytes, the load the whole file |

Type invariants are checked where a counter's limit or an accepted mode word
makes them more than a declaration (`TypeOK` of DynamicService and `CpuTypeOK`,
both proved).

**Observed, and not held against the code** because no document says otherwise:

* the owner, driven directly, commits a non-zero ASID (`dynamic.rs:100` uses the
  wider of two validity tests), which the dispatcher refuses before it asks
  (`RunInProfile`);
* VMSA locks bind the guest at EL1; a caller that passes EL0 is not subject to
  them, and a permission store at EL1 or above flushes nothing;
* the SART's generation starts again at a reset, so a reader must also drop what
  it kept then (`SartCacheable` leaves resets out);
* the pin controller's init accepts more pins than a group has words for
  (`apple_gpio_v1.c:22`); `Io!PinsFit` assumes fewer;
* the UART acknowledge clears the latch with bytes still queued, which the
  device documents as edge-like;
* acknowledging a graph source leaves the bit already routed to the processor
  (`arch.rs:1122`), so one more interrupt may follow;
* after a load that failed on its layout the variables are gone while the image
  stays attached, and a save then writes an empty bank: the caller was told.

**Bounds.**  `dynamic_service`: counters of 3 allow a write, a synchronization
and the refusal at the maximum; four slots hold a RAM slot that maps to itself,
one that moves, one in the tables, one without backing, and the address that
wraps.  `dynamic_run`: a budget of 6 is a register write, ISB, enable, guarded
ISB and one further instruction of each kind with one to spare.
`provider_cache`: two slots and two pcs are the least with a neighbour and a
replacement; the buffers have no slot, one slot, and more room than the array
has entries (the limit of 64); a translation of 3 cells exceeds a slot of 2; a
budget of 5 lets a word be cached, overwritten by a store, missed and run
again.  `m1_bridge`: a counter that saturates at 3 passes a comparator and
saturates; a FIFO of 2 fills; two CPUs compete for a claim.  The fifteen groups
of devices in MCM1Bridge share no state but the controller and the reset; the GXF
group is split by register so that each bank, trap, vector and lock meets every
entry and exit.  Two values beside 0, one of them at the end of the address
space, tell registers apart and make a vector wrap; one free place serves two new
keys; two pins share a word and two groups.  `fp`: three bits of exponent hold
subnormal, normal and infinite values with both ends of the range in reach of one
operation; two bits of fraction with guard and sticky bits make every kind of tie;
all 64 x 64 operands in all four modes are tried.  Chains of three calls make a
result an operand and a flag cumulative.  `ans_stack`:
doorbells wrap within four submissions.  `nvram`: the table fills with 2
variables; three cells are a header, a common partition and one more; three
banks are the attached one, the one being written over it and the next.
`mmu`: walks of one to four levels, a first table that is shortened, both
halves, pages and blocks of both granules; two TLB entries are replaced; every
kind of fault of the walk occurs.  `cpu_pair`: with a budget of 4 a guest arms a
timer, runs on and is interrupted inside what would have been a block of 2;
moves, takes an interrupt and returns in the second run; reserves, turns
translation on and stores through the alias.  The families separate words that
do not act on the same state, each with the boots (level, masks, lines, profile,
bus) that make them matter.

**Fairness.**  `dynamic_run` assumes weak fairness of the dispatcher and of the
return of a call: the loop is one thread that does not block except in the
callback, and the callback is a synchronous function that returns; nothing is
assumed of its answer, it may fail every time.  `provider_cache` assumes weak
fairness of `Next`: one thread, synchronous firmware and memory calls.  No
other run states liveness.

## 4. Proofs

TLC checks small instances; the theorems below hold for every value of the
constants.  Each has the same shape: an inductive invariant, one lemma per
action that it is preserved, and a last step that combines them.  A theorem that
carries the name of an action property or of a refinement is proved from the
invariant, step by step.

**`DynamicRunProofs`**, first part (the memory owner): `TypeCorrect`, `TlbIsCoherent`,
`WindowIsGuarded`, `EnableIsOneWay`, `CountersIdentify`.  None of the properties
is inductive, because COMMIT installs a proposal made earlier.  `SvcInv`
therefore also speaks of the transaction that is waiting (`PreparedSound`): its
walker is coherent for its own registers, its window is sound in the *present*
memory, and it is one control step away from the *present* committed state.  An
access is refused while a transaction is prepared, so no store can touch what
the proposal looked at; while the window is open only the guarded slot may be
fetched; a fill adds only what the effective registers give.

**`DynamicRunProofs`**, second part (dispatcher, transport and owner): `KnownResultIsTrue`,
`DoubtIsOneStep`, `RunKeepsProfile`, and the refinement `ExchangeIsAtomic`.
`RunInv` follows one exchange through its modes: between exchanges both sides
agree; while PREPARE is out they still do, and a live transaction is the one the
dispatcher predicted; while COMMIT is out the owner is at the acknowledged state
with that transaction live or past it with none, and an OK on its way back means
it is past it.  The prediction is itself a step of AtomicControl, which is what
makes the one owner step that commits it the abstract step, and every other step
a stutter.

**`ProviderCacheProofs`** (native-code cache): `CodeIsSealedAndCurrent`,
`BufferNeverOpened`, and the refinement `CacheIsInvisible`.  `CacheInv` says what
the loop may rely on at each of its points.  A valid slot holds the code it
names and does not reach beyond itself, so a translation written into another
slot leaves it alone; from the miss to the publication the selected slot is
invalid; an iteration that uses the whole buffer has no valid slot.  The
abstract loop takes its step when the concrete one enters the code, so the proof
is that the code entered is a translation of the word the guest's memory holds
at that moment, made for its pc and level.

**`AnsStackProofs`**: `QueueViewsAgree`, `StaleFlagsLetNothingThrough`.  The
invariant places the completion tail at the head plus what is not drained, once
around at most.  The second theorem needs the types of the cached flags only,
and that is its point: no link of the chain is trusted before it is recomputed.

**`M1MachineProofs`**, the interrupts of the bridge: `NothingClaimedTwice`,
`OneRoute`, `CompletionReachesLine`, `LinesFollowRequests`.  Every entry point has one of five shapes (a device
changed and its line copied; changed with the line left alone; the controller
alone; ANS drives PCIe; PCIe alone), and `BridgeInv` says what each relies on:
what EVENT handed out is masked, a pending interrupt is on the selected route,
the host's doorbell shadow and each link of the ANS chain agree.

**`M1MachineProofs`**, the devices beside them: `ExitGoesBack`, `BanksNeverLeak`, `LocksAreKept`,
`ChangeReachesCpu`, `GenerationIsCacheKey`, `LevelsAreTrue`, `KeysAreKept`.  The
code keeps the guarded mode twice (`OneMode`), the hook's CPU twice (`HookBound`)
and the input levels twice (`old = in` between two calls); that the copies agree
is what the rest follows from.  For the SMC the key table answers for the
history of writes (`Answers`): names are unique, the count key is first and
never writable, so that its refresh on a read touches nothing the guest stored.

**`NvramProofs`**: `NothingMixed`, `NoBankHalved`, `CoveringSaveReloads`.  `NvInv`
keeps a sound bank (unique names, within the table), an image that can be traced
to one bank however far the last save got, and variables that belong to one
bank.  That the parser inverts the serializer is an induction over both loops,
which the library's induction theorems cannot give the provers (they take an
operator); it is done on sets instead (`Induction`: a set of numbers with 0 and
closed under successor holds them all, from the least element of its
complement), and `Recursion` gives the function a recursive definition stands
for.

**`CpuPairProofs`** (both cores and the machine graph):
`WalkerFollowsRegisters`, `ReservationIsExact`, `GraphFollowsProcessor`,
`ReturnResumes`, `NativeFollowsReference`, `CoresWellFormed`.  A core is a record
of many fields of which an operation changes a few, so every operation first has
a lemma that names them (`Keeps(e, d, F)`).  Three invariants stand on those: `CoreInv` (walker and
monitor; a refused write is undone because the state before it was in step),
`DeviceInv` (the graph is the processor's timer, `RoutedUp`), and `LevelsInv`.
The last is what a return needs: level, mode and stack banks are valid together;
a pending exception has stopped the run and its bank holds where (`Waits`), so
the entry the caller makes later saves the right address; and while the handler
runs, its bank and the interrupted program's stack pointer stay
(`SavedInv`).

`NativeFollowsReference` (`NativeAgrees`) is a simulation for every block length,
budget and program.  `NativeAgrees` alone is not inductive: it says nothing of
the counter inside an open block, nor of the bank slot of the selected stack
pointer, which is stale on either side.  `PairInv` adds, while the cores are
paired (`Paired`): the native counter plus the instructions the block has retired
(`lag`) is the reference counter; a timer's status bit is whether it is pending at
that count (`Shown`); in the middle of a block no line is up and no timer is
enabled (`Quiet`) and the block fits the budget, so the polls the native loop
leaves out would have found nothing (`QuietPolls`); and a pending exception is
already fully recorded on the native side, which writes the bank when it raises
what the reference core writes when it enters (`Recorded`, `TakeAgree`).  Raising,
entering, polling, opening and leaving a block each have a lemma, then each class
of words: compiled ones (`SimpleWords`, `StoreWords`) and slow steps (`SlowWords`).
`StepAgree` puts them together.  `CoresWellFormed` (`CpuTypeOK`) follows: what
`LevelsInv` says of the reference core holds of the native one through the
agreement, so no run is refused as a bad input.

**`MmuProofs`** (address translation): `HotAnswersAreCold`, `NoBitLost`, for every
address width, granule, TLB size, set of descriptors and accepted regime.
`HotIsSomeCold` is about a lookup and so not inductive; `MmuInv` says where an
entry comes from: each valid slot is what `Entry` makes of the leaf some walk ended
in, over one of the table contents since the last invalidation (`seen`), for an
address of its own tag and a requester of its own kind, in the regime, root and
ASID it is matched by.  From there: an address that matches the entry agrees with
the one that filled it in all bits above the leaf's shift (`SameAbove`), hence lies
in the same half (`SameHalf`), hence is led through the same tables down to that
leaf (`DescendSame`, `WalkSame`), so a walk for the warm address over those
contents ends in the leaf the entry was made of, and what `UseLeaf` makes of the
two is the same, permission faults included (`HitIsWalk`).  The walk is unfolded
level by level as equations (`WalkUnfolds`); the levels are at most `MaxLevel + 1`,
a constant of the code.
`NoBitLost` reads the path as digits: the index at each level is one digit of the
address (`Digits`), the start level's table is wide enough for what `TxSZ` leaves
(`StartFacts`), and equal digits from the top down to the page shift make equal
page numbers.  Powers of two are the recursive function `Pow2`, which can be
reasoned about where the solver knows nothing of `2^n`.

**`FpProofs`** (floating point and SIMD): `FpRoundsOnceAlways`,
`FpCallsWholeAlways`, `FpStaysTyped`, for every width of exponent and fraction
(binary32 is one of them), every pair of operands, rounding mode, register set,
memory view and scenario.  The arithmetic rests on one idea: a jammed significand is
not the exact number, but it compares with every multiple of four, of the eighths it
counts, as the exact number does (`Ranks`), and the patterns and the middles between
them, which are such multiples, are all that a rounding compares with.  Unpacking is exact
(`UnpackStands`); the alignment of the smaller operand, the sum or difference
(`AlignedRanks`, `SummedSums`), the carry, the shift back to the left and the long
division with its remainder (`QuotientMatches`) each keep the ranks; the shift of a
tiny result keeps them again.  `PackRounds` then says that from a significand with
these ranks `Pack` returns what FpReference picks among all patterns, flags
included: a pattern is its own rank among the magnitudes, so that the carry into the
exponent is plus one, overflow is reaching INF, and tiny is being below the least
normal number before rounding.  `AddCorrect` and `DivCorrect` add zeros, infinities
and NaNs.  For FPSR and the bitwise operations `NumberSpells` shows that every set of
bits of a lane is the bits of some pattern, the one `Number` chooses.  The calls are
proved through one predicate, `Keeps`: an executor fails without a trace, or writes
the registers its instruction names and leaves a represented bank; every executor is
shown to keep it, and the state's type (`FpInv`) is all the invariant the steps need.
Facts about all powers of two are proved by the least counterexample of a set
(`Induction`), with the sets written out, since no prover instantiates an operator.

The assumptions are the named ASSUMEs of the modules, each evaluated by TLC on
the runs: `ServiceAssumption` (RAM and tables are disjoint parts of the address
space, a walk gives an address or none, the seed is a valid bank with translation
off), `RunAssumption`, `StepAssumption` and `CacheAssumption` (maps between pcs,
a translation and a slot are not empty), `AnsStackAssumption`,
`M1BridgeAssumption`, `M1MachineAssumption` (`PinsFit`: a group has a word for
each of its pins), `NvramAssumption` (an attached image is a header and
partitions), `CpuPairAssumption` (words of the modelled operations, accesses of
at least one byte, boots a caller can set up), `MmuAssumption` (a table is one page
of entries, a `TxSZ` leaves more than a page, a block is smaller than the smallest
output range), `FpScalarAssumption` (two bits of exponent and one of fraction at
least), `FpUnitAssumption` (the flags fit into a lane; scenarios of the right types,
whose elements lie inside a register).

Only model-checked:

* liveness, `RunEnds` and `RunReturns`: out of the prover's reach.  Every other
  property of a passing run is a theorem.

## 5. Not modelled

* **x86 encodings and decoding tables** (`jit.c` emitters, the policy library):
  no state; the repository tests them byte by byte.
* **Pointer authentication**: a cipher.  Its calls are slow steps of the loops.
* **EFI entry, boot records, scanout** (`main.c`, `boot_jit.c`,
  `memory_boot*.c`, `gop_scanout.c`): straight-line set-up, validation of records
  and copying around the loops that are modelled.
* **The pre-OS execution call** (`vf_preos_jit_execute` and `vf_preos_run`):
  validation of one request and a table from status to termination reason.
* **The address-map tables** of `m1.rs` are data; its storage, DART and recovery
  repeat the C devices.
* **Register reads without effect** and registers that are only stored (ANS vendor
  table, identify payload, GPIO output levels, SART tags and masks, display
  geometry): nothing in the code depends on them.
* **Elements narrower than a lane** in SIMD copies, and the overlap checks on host
  pointers.
* `research/` holds older copies of the same sources.

## 6. Plan

1. Done: owner, dispatcher, cache loops, the whole device machine with guarded
   execution, SMC, SART and pins, ANS stack, NVRAM, address translation, both CPU
   cores, floating point and SIMD.  Proved: every safety and action property of
   every run that passes, and both refinements.
2. Extend if wanted: the result contract of the pre-OS call, the exchange
   records, the storage, DART and recovery devices of the machine graph.
