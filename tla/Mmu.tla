-------------------------------- MODULE Mmu --------------------------------
(***************************************************************************)
(* The stage-1 address translation of the reference core and of the memory *)
(* service (runtime/preos/src/mmu.rs): the configuration checks, the walk  *)
(* over descriptor tables that the guest may rewrite at any time, and a    *)
(* small TLB with round-robin replacement.                                 *)
(*                                                                         *)
(* The widths of the code (64-bit addresses, granules of 2^12 and 2^14     *)
(* bytes, 8-byte descriptors, 16 entries) are constants, so that the       *)
(* arithmetic of the walk can be checked on short addresses.               *)
(***************************************************************************)
EXTENDS Integers, FiniteSets, Powers

CONSTANTS
    AddrBits,     \* width of a virtual address
    PageShift,    \* granule -> page_shift
    IndexBits,    \* granule -> index_bits
    EntryBytes,   \* size of a descriptor
    InstrBytes,   \* alignment of an instruction
    ValidTsz,     \* granule -> the TxSZ values valid_tsz admits
    OutBits,      \* TCR.IPS code -> physical bits
    AsidMax,      \* the largest ASID the callers admit
    TlbEntries,   \* TLB_ENTRIES
    Settings,     \* <<TTBR0, TTBR1, TCR>> that somebody tries to configure
    Vas,          \* virtual addresses that are translated
    Images,       \* initial contents of the table memory
    Writes,       \* <<address, content>> pairs the guest may store to it
    MaxSeen       \* bound: contents of the tables between two invalidations

None == -1
Granule == {"4K", "16K"}
MaxLevel == 3
Access == {"Read", "Write", "Execute"}
El == 0..3

ASSUME MmuAssumption ==
    /\ AddrBits \in Nat \ {0} /\ TlbEntries \in Nat \ {0}
    /\ EntryBytes \in Nat \ {0} /\ InstrBytes \in Nat \ {0}
    /\ AsidMax \in Nat /\ MaxSeen \in Nat \ {0}
    /\ PageShift \in [Granule -> Nat \ {0}]
    /\ IndexBits \in [Granule -> Nat \ {0}]
    /\ \A g \in Granule : EntryBytes * Pow2[IndexBits[g]] = Pow2[PageShift[g]]
    /\ \A g \in Granule : \A t \in ValidTsz[g] :
           t \in 1..AddrBits /\ AddrBits - t > PageShift[g]
    \* A block is smaller than the smallest output range.
    /\ \A c \in DOMAIN OutBits : \A g \in Granule :
           OutBits[c] >= PageShift[g] + IndexBits[g] * (IF g = "4K" THEN 2 ELSE 1)
    /\ Vas \subseteq 0..(Pow2[AddrBits] - 1)

VARIABLES
    mmu,     \* VfMmu
    tables,  \* descriptor memory, as far as the reader backs it
    seen     \* history: contents of the tables since the last invalidation

vars == <<mmu, tables, seen>>

-----------------------------------------------------------------------------
\* Configuration.

\* Mutant: The number of levels is rounded down.
Levels_Floor(g, tsz) == (AddrBits - tsz - PageShift[g]) \div IndexBits[g]

Levels(g, tsz) ==
    (AddrBits - tsz - PageShift[g] + IndexBits[g] - 1) \div IndexBits[g]

StartLevel(g, tsz) ==
    IF tsz \in ValidTsz[g] /\ Levels(g, tsz) \in 1..(MaxLevel + 1)
    THEN MaxLevel + 1 - Levels(g, tsz) ELSE None

\* TG0 and TG1 do not share an encoding.
Tg0(code) == CASE code = 0 -> "4K" [] code = 2 -> "16K" [] OTHER -> "none"
Tg1(code) == CASE code = 2 -> "4K" [] code = 1 -> "16K" [] OTHER -> "none"

\* A slot holds no entry or one.
EmptyTlb == [i \in 0..(TlbEntries - 1) |-> {}]

\* While it is disabled nothing reads the sizes and the output width.
Disabled ==
    [enabled |-> FALSE, strict |-> FALSE, ttbr |-> <<0, 0>>, tsz |-> <<0, 0>>,
     asid |-> 0, granule |-> "4K", epd |-> <<FALSE, FALSE>>, outBits |-> 0,
     tlb |-> EmptyTlb, next |-> 0]

\* A half of the address space: its table base is aligned and its size valid.
HalfValid(g, tsz, ttbr) == StartLevel(g, tsz) # None /\ ttbr.base % Pow2[PageShift[g]] = 0

\* tcr.refused stands for the bits no profile admits: HA, HD, HPD, TBI, DS.
Accepts(t0, t1, tcr) ==
    /\ ~tcr.refused
    /\ tcr.ips \in DOMAIN OutBits
    /\ Tg0(tcr.tg0) # "none"
    /\ tcr.t1sz # 0 => Tg1(tcr.tg1) = Tg0(tcr.tg0)
    /\ HalfValid(Tg0(tcr.tg0), tcr.t0sz, t0)
    /\ tcr.t1sz # 0 => HalfValid(Tg0(tcr.tg0), tcr.t1sz, t1)

Configured(t0, t1, tcr, asid) ==
    [enabled |-> TRUE, strict |-> FALSE, ttbr |-> <<t0.base, t1.base>>,
     tsz |-> <<tcr.t0sz, tcr.t1sz>>, asid |-> asid, granule |-> Tg0(tcr.tg0),
     epd |-> tcr.epd, outBits |-> OutBits[tcr.ips], tlb |-> EmptyTlb, next |-> 0]

\* Both callers, sync_mmu and configure_strict_nc, admit 8-bit ASIDs only and
\* take the one TCR.A1 selects.
AsidsFit(t0, t1, tcr) == ~tcr.as /\ {t0.asid, t1.asid} \subseteq 0..AsidMax

SelectedAsid(t0, t1, tcr) == IF tcr.a1 THEN t1.asid ELSE t0.asid

StrictConfigured(t0, t1, tcr) ==
    [Configured(t0, t1, tcr, SelectedAsid(t0, t1, tcr)) EXCEPT !.strict = TRUE]

Invalidated(m) == [m EXCEPT !.tlb = EmptyTlb, !.next = 0]

-----------------------------------------------------------------------------
\* The outcome of a translation.

Fault(kind, level, context, descriptor, output) ==
    [ok |-> FALSE, kind |-> kind, level |-> level, context |-> context,
     descriptor |-> descriptor, output |-> output]

InputFault(kind, level) == Fault(kind, level, "Input", None, None)

Inside(m, pa) == pa < Pow2[m.outBits]
Offset(va, shift) == va % Pow2[shift]
Base(pa, shift) == pa - (pa % Pow2[shift])
El10(el) == el \in {0, 1}

\* The half of the address space that holds va, or None.
Half(m, va) ==
    IF va \div Pow2[AddrBits - m.tsz[1]] = 0 THEN 1
    ELSE IF m.tsz[2] # 0 /\ va \div Pow2[AddrBits - m.tsz[2]] = Pow2[m.tsz[2]] - 1 THEN 2
    ELSE None

\* What a privilege level may do with a leaf.  p holds the permissions of the
\* descriptor and of the tables above it, whoever asks.
Writable(p, el) == p.writable /\ (el # 0 \/ p.user)
Executable(p, el) ==
    IF el = 0 THEN p.exec0 ELSE p.execPriv /\ ~(el = 1 /\ p.writable /\ p.user)
Readable(p, el) == el # 0 \/ p.user

Allowed(p, access, el) ==
    CASE access = "Read" -> Readable(p, el)
      [] access = "Write" -> Writable(p, el)
      [] access = "Execute" -> Executable(p, el)

Translation(e, va, el) ==
    [ok |-> TRUE, pa |-> e.base + Offset(va, e.shift),
     writable |-> Writable(e.perms, el), executable |-> Executable(e.perms, el),
     shift |-> e.shift, normalNc |-> e.normalNc]

\* The use of a leaf, found by a walk or in the TLB.  A walk has tested the
\* access flag and the output's size before.
UseLeaf(m, e, va, access, el, context) ==
    LET pa == e.base + Offset(va, e.shift) IN
    IF ~Inside(m, pa) THEN Fault("AddressSize", e.level, context, e.descriptor, pa)
    ELSE IF ~Allowed(e.perms, access, el)
    THEN Fault("Permission", e.level, context, e.descriptor, pa)
    ELSE Translation(e, va, el)

-----------------------------------------------------------------------------
\* The TLB.

Matches(m, e, va, el) ==
    /\ e.asid = m.asid
    /\ e.el10 = El10(el)
    /\ va \div Pow2[e.shift] = e.tag

\* The first slot that matches, or None.
Slot(m, va, el) ==
    LET hits == {i \in DOMAIN m.tlb : \E e \in m.tlb[i] : Matches(m, e, va, el)}
    IN  IF hits = {} THEN None ELSE CHOOSE i \in hits : \A j \in hits : i <= j

TlbLookup(m, va, access, el) ==
    LET e == CHOOSE x \in m.tlb[Slot(m, va, el)] : TRUE
    IN  UseLeaf(m, e, va, access, el, "CachedLeaf")

\* Mutant: The privileges of the access that filled the entry are cached.
Entry_OfAccessor(m, leaf, va, el) ==
    [base |-> leaf.base, shift |-> leaf.shift,
     perms |-> [leaf.perms EXCEPT !.writable = Writable(leaf.perms, el)],
     level |-> leaf.level, descriptor |-> leaf.descriptor,
     normalNc |-> leaf.normalNc,
     asid |-> m.asid, el10 |-> El10(el), tag |-> va \div Pow2[leaf.shift]]

Entry(m, leaf, va, el) ==
    [base |-> leaf.base, shift |-> leaf.shift, perms |-> leaf.perms,
     level |-> leaf.level, descriptor |-> leaf.descriptor,
     normalNc |-> leaf.normalNc,
     asid |-> m.asid, el10 |-> El10(el), tag |-> va \div Pow2[leaf.shift]]

Cached(m, leaf, va, el) ==
    [m EXCEPT !.tlb[m.next] = {Entry(m, leaf, va, el)},
              !.next = (m.next + 1) % TlbEntries]

-----------------------------------------------------------------------------
\* The walk.

\* What the reader returns: a descriptor, or why there is none.
Read(t, pa) == IF pa \in DOMAIN t THEN t[pa] ELSE [type |-> "Unavailable"]

LevelShift(m, level) ==
    PageShift[m.granule] + IndexBits[m.granule] * (MaxLevel - level)

\* The first table is indexed with the bits that TxSZ leaves only.
EntryAddress(m, va, half, level, table) ==
    table + EntryBytes * ((Offset(va, AddrBits - m.tsz[half])
                             \div Pow2[LevelShift(m, level)]) % Pow2[IndexBits[m.granule]])

\* The bits the strict profile admits in a table and in a leaf descriptor.
\* d.above holds the hierarchical bits, d.odd a bit it never admits.
StrictAdmits(m, d, level, el) ==
    /\ ~d.odd
    /\ IF level < MaxLevel /\ d.type = "table"
       THEN /\ El10(el) \/ d.above = {}
            /\ ~(d.af \/ d.pxn \/ d.uxn) /\ d.ap = 0
            /\ d.out % Pow2[PageShift[m.granule]] = 0
       ELSE d.above = {} /\ d.out % Pow2[LevelShift(m, level)] = 0

Permissions(d, above) ==
    [writable |-> d.ap \in {0, 1} /\ "ReadOnly" \notin above,
     user |-> d.ap \in {1, 3} /\ "NoUser" \notin above,
     exec0 |-> ~d.uxn /\ "UXN" \notin above,
     execPriv |-> ~d.pxn /\ "PXN" \notin above]

Leaf(m, d, above, level, at) ==
    [base |-> Base(d.out, LevelShift(m, level)), shift |-> LevelShift(m, level),
     perms |-> Permissions(d, above), level |-> level, descriptor |-> at,
     normalNc |-> m.strict]

\* A walk in progress, finished with a fault, or finished at a leaf.
Going(table, above) == [at |-> "table", table |-> table, above |-> above]
Failed(f) == [at |-> "fault", fault |-> f]
Found(leaf) == [at |-> "leaf", leaf |-> leaf]

\* One level, with the order of its checks.
Descend(m, t, va, half, el, w, level) ==
    LET pa == EntryAddress(m, va, half, level, w.table)
        d == Read(t, pa)
        shift == LevelShift(m, level)
        output == Base(d.out, PageShift[m.granule])
        walk(kind, out) == Failed(Fault(kind, level, "Walk", pa, out))
        isTable == level < MaxLevel /\ d.type = "table"
        leafPa == Base(output, shift) + Offset(va, shift)
    IN  IF pa + EntryBytes > Pow2[m.outBits] THEN walk("AddressSize", None)
        ELSE IF d.type \in {"Unavailable", "ExternalAbort"} THEN walk(d.type, None)
        ELSE IF d.type = "invalid" THEN walk("Translation", None)
        ELSE IF d.type = "block" /\ (\/ level \in {0, MaxLevel}
                                     \/ level = 1 /\ m.granule = "16K")
        THEN walk("Translation", None)
        ELSE IF ~Inside(m, output) THEN walk("AddressSize", output)
        ELSE IF m.strict /\ ~StrictAdmits(m, d, level, el)
        THEN Failed(Fault("Unsupported", level, IF isTable THEN "Walk" ELSE "Leaf",
                          pa, None))
        ELSE IF isTable
        THEN Going(output, w.above \cup (IF El10(el) THEN d.above ELSE {}))
        ELSE IF ~d.af THEN Failed(Fault("AccessFlag", level, "Leaf", pa, leafPa))
        ELSE Found(Leaf(m, d, w.above, level, pa))

\* The walk below a root: walked[l] is what is known before level l is read.
WalkFrom(m, t, va, half, el, start) ==
    LET walked[l \in start..(MaxLevel + 1)] ==
            IF l = start
            THEN Going(Base(m.ttbr[half], PageShift[m.granule]), {})
            ELSE IF walked[l - 1].at # "table" THEN walked[l - 1]
            ELSE Descend(m, t, va, half, el, walked[l - 1], l - 1)
    IN  walked[MaxLevel + 1]

\* translate_detailed on a TLB miss.
Walk(m, t, va, el) ==
    LET half == Half(m, va)
        start == StartLevel(m.granule, m.tsz[half])
        root == Base(m.ttbr[half], PageShift[m.granule])
    IN  IF m.epd[half] THEN Failed(InputFault("Translation", 0))
        ELSE IF ~Inside(m, root)
        THEN Failed(Fault("AddressSize", 0, "Input", None, root))
        ELSE WalkFrom(m, t, va, half, el, start)

Cold(m, t, va, access, el) ==
    LET w == Walk(m, t, va, el) IN
    CASE w.at = "leaf" -> UseLeaf(m, w.leaf, va, access, el, "Leaf")
      [] w.at = "fault" -> w.fault
      [] w.at = "table" -> Fault("Translation", MaxLevel, "Walk", None, None)

\* The outcome without a TLB, for the contents t of the tables.
Uncached(m, t, va, access, el) ==
    IF access = "Execute" /\ va % InstrBytes # 0 THEN InputFault("Alignment", None)
    ELSE IF ~m.enabled
    THEN [ok |-> TRUE, pa |-> va, writable |-> TRUE, executable |-> TRUE,
          shift |-> PageShift[m.granule], normalNc |-> FALSE]
    ELSE IF Half(m, va) = None THEN InputFault("Translation", 0)
    ELSE Cold(m, t, va, access, el)

\* The requests that come as far as the TLB.
Looked(m, va, access) ==
    /\ ~(access = "Execute" /\ va % InstrBytes # 0)
    /\ m.enabled /\ Half(m, va) # None

Hit(m, va, access, el) == Looked(m, va, access) /\ Slot(m, va, el) # None

\* A translation that succeeds after a walk is cached.
AfterTranslate(m, t, va, access, el) ==
    IF /\ Looked(m, va, access) /\ Slot(m, va, el) = None
       /\ Cold(m, t, va, access, el).ok
    THEN Cached(m, Walk(m, t, va, el).leaf, va, el)
    ELSE m

-----------------------------------------------------------------------------

Init ==
    /\ mmu = Disabled
    /\ tables \in Images
    /\ seen = {tables}

Configure ==
    /\ \E s \in Settings :
         LET t0 == s[1]  t1 == s[2]  tcr == s[3] IN
         /\ AsidsFit(t0, t1, tcr) /\ Accepts(t0, t1, tcr)
         /\ mmu' = Configured(t0, t1, tcr, SelectedAsid(t0, t1, tcr))
    /\ seen' = {tables}
    /\ UNCHANGED tables

ConfigureStrict ==
    /\ \E s \in Settings :
         /\ AsidsFit(s[1], s[2], s[3]) /\ Accepts(s[1], s[2], s[3])
         /\ mmu' = StrictConfigured(s[1], s[2], s[3])
    /\ seen' = {tables}
    /\ UNCHANGED tables

\* A configuration that is refused keeps the old one and its warm TLB.
RefuseConfiguration ==
    /\ \E s \in Settings : ~(AsidsFit(s[1], s[2], s[3]) /\ Accepts(s[1], s[2], s[3]))
    /\ UNCHANGED vars

Disable ==
    /\ mmu' = [Invalidated(mmu) EXCEPT !.enabled = FALSE]
    /\ seen' = {tables}
    /\ UNCHANGED tables

Invalidate ==
    /\ mmu' = Invalidated(mmu)
    /\ seen' = {tables}
    /\ UNCHANGED tables

Translate ==
    /\ \E va \in Vas, access \in Access, el \in El :
         mmu' = AfterTranslate(mmu, tables, va, access, el)
    /\ UNCHANGED <<tables, seen>>

\* The guest stores to its tables; nobody tells the walker.
StoreDescriptor ==
    /\ \E w \in Writes : tables' = [tables EXCEPT ![w[1]] = w[2]]
    /\ seen' = seen \cup {tables'}
    /\ Cardinality(seen') <= MaxSeen
    /\ UNCHANGED mmu

Next == \/ Configure \/ ConfigureStrict \/ RefuseConfiguration \/ Disable
        \/ Invalidate \/ Translate \/ StoreDescriptor

Spec == Init /\ [][Next]_vars

-----------------------------------------------------------------------------

\* A translation, or a fault, as far as the context it was found in.
Blind(r) == IF r.ok THEN r ELSE [r EXCEPT !.context = "any"]

\* What the TLB answers is what a walk would have answered, for the same
\* request, over contents the tables had since the last invalidation: for
\* every privilege level and access, whoever filled the entry, faults and
\* their level, descriptor and output address included (mmu.rs:375-432,
\* 496-702).  When the tables have not changed, TLB and walk agree.
HotIsSomeCold ==
    \A va \in Vas, access \in Access, el \in El :
        Hit(mmu, va, access, el) =>
            \E t \in seen : Blind(TlbLookup(mmu, va, access, el))
                             = Blind(Uncached(mmu, t, va, access, el))

\* The indices a walk for va uses, from its first level on.
Path(m, va) ==
    LET half == Half(m, va) IN
    <<half, [l \in StartLevel(m.granule, m.tsz[half])..MaxLevel |->
               EntryAddress(m, va, half, l, 0)]>>

\* Under every configuration that is accepted, addresses of different pages
\* take different paths through the tables: no bit of an address is lost
\* between the start level and the page offset (mmu.rs:66-82, 539-557).
PathsSeparatePages ==
    mmu.enabled =>
        \A a, b \in {va \in Vas : Half(mmu, va) # None} :
            Path(mmu, a) = Path(mmu, b) =>
                a \div Pow2[PageShift[mmu.granule]] = b \div Pow2[PageShift[mmu.granule]]
=============================================================================
