-------------------------------- MODULE Nvram --------------------------------
(***************************************************************************)
(* The NVRAM environment bank (devices/nvram_v1.c) and its owner in the    *)
(* bridge (runtime/preos_bridge.c): variables in memory, a boot-args       *)
(* staging buffer the guest appends to, and a bank image in a file that is *)
(* loaded and saved whole.  A save writes the file front to back and may   *)
(* stop anywhere, because a write fails or because the host goes down.     *)
(*                                                                         *)
(* An image is a sequence of cells: the Apple header, then one cell for    *)
(* each partition.  The header's checksum stands for the bytes it was      *)
(* computed over, so it matches nothing else.                              *)
(***************************************************************************)
EXTENDS Naturals, Sequences, FiniteSets

CONSTANTS
    Names,       \* variable names, "boot-args" among them
    Images,      \* banks a host may hold: well formed, damaged, malformed
    MaxLen,      \* VF_NVRAM_BANK_MAX_LEN, in cells
    MaxEnv,      \* VF_NVRAM_MAX_ENV
    CommonCap,   \* variables the default common partition has room for
    StageMax,    \* characters the staging buffer holds
    MaxBanks     \* bound: different banks a behaviour writes or starts with

Char == {"c", "nul"}
Var == [name : Names, value : Seq(Char)]
Partition == [kind : {"common", "other", "panic", "free", "zero", "bad"},
              env : Seq(Var), cap : Nat]

ASSUME NvramAssumption ==
    /\ "boot-args" \in Names
    /\ \A image \in Images : /\ image \in Seq({image[i] : i \in DOMAIN image})
                            /\ image # <<>>
                            /\ Tail(image) \in Seq(Partition)
    /\ MaxLen \in Nat \ {0, 1}
    /\ MaxEnv \in Nat \ {0}
    /\ CommonCap \in Nat
    /\ StageMax \in Nat \ {0}
    /\ MaxBanks \in Nat \ {0}

VARIABLES
    nv,        \* g_m1_nvram
    staged,    \* g_m1_nvram_boot_args, as far as its length
    attached,  \* g_m1_nvram_blk_attached
    known,     \* g_m1_nvram_file.length
    disk,      \* the research image
    whole,     \* history: the first image and every bank a save set out to write
    saved      \* history: the variables of the last save that succeeded, {} if
               \* the disk was written since

nvVars == <<nv, staged, attached, known, disk, whole, saved>>

-----------------------------------------------------------------------------
\* Images.

Common(env, cap) == [kind |-> "common", env |-> env, cap |-> cap]
Part(kind) == [kind |-> kind, env |-> <<>>, cap |-> 0]
Header(gen, sum) == [kind |-> "header", gen |-> gen, sum |-> sum]

\* A header and the partitions it was computed over.
Bank(gen, cells) == <<Header(gen, <<gen, cells>>)>> \o cells

\* Mutant: the checksum is not compared.
SumOk_Ignored(bank) == TRUE

SumOk(bank) == bank[1].sum = <<bank[1].gen, Tail(bank)>>

-----------------------------------------------------------------------------
\* Variables.

\* vf_nvram_env_unset: the first variable of that name is taken out.
Unset(env, name) ==
    LET found == {i \in 1..Len(env) : env[i].name = name}
        first == CHOOSE i \in found : \A j \in found : i <= j
    IN  IF found = {} THEN env
        ELSE [i \in 1..(Len(env) - 1) |-> env[IF i < first THEN i ELSE i + 1]]

\* vf_nvram_env_set removes the old variable before it looks for room.
EnvSet(env, name, value) ==
    LET rest == Unset(env, name)
    IN  IF Len(rest) >= MaxEnv
        THEN [ok |-> FALSE, env |-> rest]
        ELSE [ok |-> TRUE,
              env |-> Append(rest, [name |-> name, value |-> value])]

\* nvram_load_env_from_common: one env_set for each entry, in order.
LoadEnv(entries) ==
    LET f[i \in 0..Len(entries)] ==
          IF i = 0 THEN [ok |-> TRUE, env |-> <<>>]
          ELSE LET r == EnvSet(f[i - 1].env, entries[i].name, entries[i].value)
               IN  [ok |-> f[i - 1].ok /\ r.ok, env |-> r.env]
    IN  f[Len(entries)]

Fresh == [env |-> <<>>, parts |-> <<Common(<<>>, CommonCap)>>,
          len |-> MaxLen, gen |-> 0]

Zeroed == [env |-> <<>>, parts |-> <<>>, len |-> 0, gen |-> 0]

-----------------------------------------------------------------------------
\* Parsing and serializing.

\* The partitions before the free one.
Used(cells) ==
    CHOOSE n \in 0..Len(cells) : /\ \A i \in 1..n : cells[i].kind # "free"
                                 /\ n < Len(cells) => cells[n + 1].kind = "free"

\* nvram_parse_partitions: a panic log is passed over.
Walked(cells) ==
    LET kept[i \in 0..Used(cells)] ==
          IF i = 0 THEN <<>>
          ELSE IF cells[i].kind = "panic" THEN kept[i - 1]
          ELSE Append(kept[i - 1], cells[i])
    IN  kept[Used(cells)]

Failed(n) == [ok |-> FALSE, nv |-> n]

\* Mutant: the variables read so far are kept.
Malformed_Keeps(env) == [Zeroed EXCEPT !.env = env]

\* A bank that cannot be read to its end leaves nothing behind.
Malformed(env) == Zeroed

\* vf_nvram_parse_bank over the n the caller owns.
Parse(n, bank) ==
    LET parts == Walked(Tail(bank))
        commons == {i \in 1..Len(parts) : parts[i].kind = "common"}
        common == parts[CHOOSE i \in commons : \A j \in commons : i <= j]
        env == LoadEnv(common.env)
    IN  IF ~SumOk(bank) THEN Failed(n)
        ELSE IF \E i \in 1..Len(parts) : parts[i].kind \in {"bad", "zero"}
             THEN Failed(Malformed(<<>>))
        ELSE IF commons = {} THEN [ok |-> TRUE, nv |-> Fresh]
        ELSE IF ~env.ok THEN Failed(Malformed(env.env))
        ELSE [ok |-> TRUE, nv |-> [env |-> env.env, parts |-> parts,
                                   len |-> Len(bank), gen |-> bank[1].gen]]

\* nvram_file_pread from the front, of no more than the backend knows of.
FileRead(image, length) == SubSeq(image, 1, length)

\* vf_nvram_load_from_blk: at most MaxLen of the backend's length is read.
Load(n, image, length) ==
    Parse(n, FileRead(image, IF length > MaxLen THEN MaxLen ELSE length))

\* The parts to be written: the common one is rebuilt from the variables.
Rebuilt(n) ==
    LET has == \E i \in 1..Len(n.parts) : n.parts[i].kind = "common"
        parts == IF has THEN n.parts
                 ELSE Append(n.parts, Common(<<>>, CommonCap))
        first == CHOOSE i \in 1..Len(parts) :
                    /\ parts[i].kind = "common"
                    /\ \A j \in 1..(i - 1) : parts[j].kind # "common"
    IN  [parts EXCEPT ![first].env = n.env]

BankLen(n) == IF n.len = 0 THEN MaxLen ELSE n.len

\* Everything fits: the variables their partition, the partitions the bank.
Fits(n) ==
    /\ \A i \in 1..Len(Rebuilt(n)) :
           Rebuilt(n)[i].kind = "common" =>
              Len(Rebuilt(n)[i].env) <= Rebuilt(n)[i].cap
    /\ Len(Rebuilt(n)) + 1 <= BankLen(n)

\* Mutant: the last partition is left for the free header.
Serialize_Short(n) ==
    Bank(n.gen, [i \in 1..(BankLen(n) - 1) |->
        IF i < Len(Rebuilt(n)) THEN Rebuilt(n)[i]
        ELSE IF i = Len(Rebuilt(n)) THEN Part("free") ELSE Part("zero")])

Serialize(n) ==
    Bank(n.gen, [i \in 1..(BankLen(n) - 1) |->
        IF i <= Len(Rebuilt(n)) THEN Rebuilt(n)[i]
        ELSE IF i = Len(Rebuilt(n)) + 1 THEN Part("free") ELSE Part("zero")])

\* The image after the first k cells of a write reached it.
Overwritten(image, bank, k) ==
    [i \in 1..(IF k > Len(image) THEN k ELSE Len(image)) |->
        IF i <= k THEN bank[i] ELSE image[i]]

-----------------------------------------------------------------------------
\* The bridge.

Init ==
    /\ nv = Fresh
    /\ staged = <<>>
    /\ attached = FALSE
    /\ known = 0
    /\ disk \in Images
    /\ whole = {disk}
    /\ saved = {}

Clear == staged' = <<>>

\* vf_nvram_blk_attach_path: the backend knows the file's length from now on.
Opened(image) == attached' = TRUE /\ known' = Len(image)

\* vf_nvram_blk_detach.
Closed == attached' = FALSE /\ known' = 0

MmioReset ==
    /\ nv' = Fresh
    /\ Clear
    /\ Closed
    /\ UNCHANGED <<disk, whole, saved>>

\* APPEND takes any byte, a NUL too.
GuestAppend(c) ==
    /\ Len(staged) < StageMax
    /\ staged' = Append(staged, c)
    /\ UNCHANGED <<nv, attached, known, disk, whole, saved>>

\* The staged text is a C string: it ends at the first NUL.
Text(chars) ==
    SubSeq(chars, 1, CHOOSE n \in 0..Len(chars) :
                        /\ \A i \in 1..n : chars[i] # "nul"
                        /\ n < Len(chars) => chars[n + 1] = "nul")

\* A commit that finds no room keeps the staged text.
GuestCommit ==
    LET r == EnvSet(nv.env, "boot-args", Text(staged))
    IN  /\ nv' = [nv EXCEPT !.env = r.env]
        /\ staged' = IF r.ok THEN <<>> ELSE staged
        /\ UNCHANGED <<attached, known, disk, whole, saved>>

\* vf_m1_guest_nvram_ingest_bank, and load_from_blk from a foreign backend.
Ingest(bank) ==
    LET r == Load(nv, bank, Len(bank))
    IN  /\ nv' = r.nv
        /\ staged' = IF r.ok THEN <<>> ELSE staged
        /\ UNCHANGED <<attached, known, disk, whole, saved>>

\* Attach opens the image and loads it; an image that does not load is
\* detached again.
Attach ==
    LET r == Load(nv, disk, Len(disk))
    IN  /\ nv' = r.nv
        /\ staged' = IF r.ok THEN <<>> ELSE staged
        /\ IF r.ok THEN Opened(disk) ELSE Closed
        /\ UNCHANGED <<disk, whole, saved>>

\* The file does not open or cannot be read.  What was attached before is
\* closed all the same, the variables stay.
AttachFails ==
    /\ Closed
    /\ UNCHANGED <<nv, staged, disk, whole, saved>>

Detach ==
    /\ Closed
    /\ UNCHANGED <<nv, staged, disk, whole, saved>>

\* vf_m1_guest_nvram_save_to_attached gets as far as the write.
Writes ==
    /\ attached
    /\ Fits(nv)
    /\ whole' = whole \cup {Serialize(nv)}
    /\ Cardinality(whole') <= MaxBanks

Save ==
    /\ Writes
    /\ disk' = Overwritten(disk, Serialize(nv), BankLen(nv))
    /\ known' = Len(disk')
    /\ saved' = {[env |-> nv.env, len |-> BankLen(nv)]}
    /\ UNCHANGED <<nv, staged, attached>>

\* A write or the fsync fails: the file keeps what was written, and the
\* length the backend knows is not refreshed.
SaveFails(k) ==
    /\ Writes
    /\ k <= BankLen(nv)
    /\ disk' = Overwritten(disk, Serialize(nv), k)
    /\ saved' = {}
    /\ UNCHANGED <<nv, staged, attached, known>>

\* The host goes down during a save and starts again.
Crash(k) ==
    /\ Writes
    /\ k < BankLen(nv)
    /\ disk' = Overwritten(disk, Serialize(nv), k)
    /\ saved' = {}
    /\ nv' = Fresh
    /\ Clear
    /\ Closed

Next ==
    \/ MmioReset \/ GuestCommit \/ Attach \/ AttachFails \/ Detach \/ Save
    \/ \E c \in Char : GuestAppend(c)
    \/ \E bank \in Images : Ingest(bank)
    \/ \E k \in 0..MaxLen : SaveFails(k) \/ Crash(k)

Spec == Init /\ [][Next]_nvVars

-----------------------------------------------------------------------------

Capped(image) == SubSeq(image, 1, IF Len(image) > MaxLen THEN MaxLen
                                                        ELSE Len(image))

\* An image that loads is the first one or a bank some save set out to
\* write: what a save that stopped half way leaves, over whatever was there,
\* is never read as a bank of its own
\* (nvram_v1.c:429-435, 493-508, 550-579).
NoMixture ==
    Parse(Fresh, Capped(disk)).ok =>
        \E image \in whole : Capped(image) = Capped(disk)

\* The variables the guest did not commit itself are those of one bank, all
\* of them, or none: no failed load leaves half a bank (nvram_v1.c:437-456).
NoHalfBank ==
    LET Others(env) == Unset(env, "boot-args")
        banks == {Parse(Fresh, Capped(image)) : image \in Images \cup whole}
    IN  Others(nv.env) \in {<<>>} \cup {Others(r.nv.env) : r \in {x \in banks : x.ok}}

\* After a save that covered the file, loading it again gives back the saved
\* variables, in their order (nvram_v1.c:493-508, 702-785).
CoveredSaveReloads ==
    \A s \in saved :
        s.len >= Len(Capped(disk)) =>
            LET r == Load(Fresh, disk, Len(disk)) IN r.ok /\ r.nv.env = s.env

\* After any save that succeeded, loading the image again gives back the
\* saved variables: "mutate, save, detach, re-attach, reload"
\* (devices/test_nvram.c:179-187).
SavedReloads ==
    \A s \in saved :
        LET r == Load(Fresh, disk, Len(disk)) IN r.ok /\ r.nv.env = s.env

=============================================================================
