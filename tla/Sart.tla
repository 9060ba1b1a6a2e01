-------------------------------- MODULE Sart --------------------------------
(***************************************************************************)
(* The SART region table (devices/sart_v1.c) as operators on its state.    *)
(* A generation counts the writes that can change what a page hits, so     *)
(* that a reader may keep its last answer; which registers count depends   *)
(* on the layout version.  A register of the size bank holds a size and    *)
(* flags in versions 1 and 2 (the masks differ, the shape does not) and    *)
(* flags alone in version 3, which has a third bank for the size.          *)
(***************************************************************************)
EXTENDS Integers, FiniteSets

CONSTANTS Regions,     \* 0..n, 16 in the code
          Pages,       \* page numbers, 0..n
          MaxSartGen   \* bounds the writes of a behaviour

Bank == {"size", "addr", "size3"}
SizeWord == [size : Pages, flags : BOOLEAN]
ZeroWord == [size |-> 0, flags |-> FALSE]
Miss == Cardinality(Regions)

SartInit(version) ==
  [version |-> version, generation |-> 0,
   size |-> [i \in Regions |-> ZeroWord], addr |-> [i \in Regions |-> 0],
   size3 |-> [i \in Regions |-> 0]]

\* Mutant: version 3's size bank is forgotten.
IsRegionBank_Twelve(s, bank) == bank \in {"size", "addr"}

\* sart_region_write(): does a write to this bank count?
IsRegionBank(s, bank) == bank \in {"size", "addr"} \/ (bank = "size3" /\ s.version = 3)

SartWrite(s, bank, i, value) ==
  [s EXCEPT ![bank][i] = value,
            !.generation = IF IsRegionBank(s, bank) THEN @ + 1 ELSE @]

\* vf_sart_region_decode().
Decode(s, i) ==
  IF s.version = 3
    THEN [addr |-> s.addr[i], size |-> s.size3[i], flagged |-> s.size[i] # ZeroWord]
    ELSE [addr |-> s.addr[i], size |-> s.size[i].size, flagged |-> s.size[i].flags]

Hits(s, i, page) ==
  LET r == Decode(s, i)
  IN r.flagged /\ r.size # 0 /\ page >= r.addr /\ page < r.addr + r.size

\* vf_sart_translate(): the first region that holds the page.
Translate(s, page) ==
  LET hit == {i \in Regions : Hits(s, i, page)}
  IN IF hit = {} THEN Miss ELSE CHOOSE i \in hit : \A j \in hit : i <= j
=============================================================================
