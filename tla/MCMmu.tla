------------------------------- MODULE MCMmu -------------------------------
(***************************************************************************)
(* Eight-bit virtual addresses.  Pages of the small granule have two bytes *)
(* and its tables two entries, those of the large granule four of each;    *)
(* a walk has up to four levels, as in the code.                           *)
(***************************************************************************)
EXTENDS Mmu, TLC

MCShift == "4K" :> 1 @@ "16K" :> 2
MCValidTsz == "4K" :> 3..5 @@ "16K" :> 1..5
MCOutBits == 0 :> 4 @@ 5 :> 6

Plain == [type |-> "table", out |-> 0, af |-> FALSE, ap |-> 0, pxn |-> FALSE,
          uxn |-> FALSE, above |-> {}, odd |-> FALSE]
Tab(pa, above) == [Plain EXCEPT !.out = pa, !.above = above]
Page(pa, ap) == [Plain EXCEPT !.out = pa, !.af = TRUE, !.ap = ap]
Block(pa, ap) == [Page(pa, ap) EXCEPT !.type = "block"]
Invalid == [Plain EXCEPT !.type = "invalid"]

\* The root at 16 serves every start level: entry 16 leads down through 20 and
\* 24 to the pages at 28, entries 17 and 21 to blocks.
MCImage ==
    16 :> Tab(20, {}) @@ 17 :> Block(8, 0) @@ 18 :> Block(0, 1) @@ 19 :> Invalid @@
    20 :> Tab(24, {"ReadOnly"}) @@ 21 :> Block(32, 1) @@
    22 :> [Page(4, 1) EXCEPT !.uxn = TRUE] @@ 23 :> [Page(8, 3) EXCEPT !.odd = TRUE] @@
    24 :> Tab(28, {}) @@ 25 :> [Block(8, 0) EXCEPT !.af = FALSE] @@
    28 :> Page(2, 1) @@ 29 :> [type |-> "ExternalAbort"]
MCImages == {MCImage}

MCWrites == {<<20, Tab(24, {"NoUser", "PXN"})>>, <<28, Page(48, 0)>>,
             <<24, Block(12, 1)>>}

Tcr(t0sz, t1sz, tg0, tg1) ==
    [t0sz |-> t0sz, t1sz |-> t1sz, tg0 |-> tg0, tg1 |-> tg1, ips |-> 5,
     epd |-> <<FALSE, FALSE>>, a1 |-> FALSE, as |-> FALSE, refused |-> FALSE]
Ttbr(pa, asid) == [base |-> pa, asid |-> asid]

MCSettings == {
    <<Ttbr(16, 1), Ttbr(16, 2), Tcr(3, 0, 0, 0)>>,
    <<Ttbr(16, 1), Ttbr(16, 2), [Tcr(3, 5, 0, 2) EXCEPT !.a1 = TRUE]>>,
    <<Ttbr(16, 3), Ttbr(16, 0), [Tcr(4, 4, 0, 2) EXCEPT !.ips = 0]>>,
    <<Ttbr(16, 0), Ttbr(20, 0), [Tcr(5, 3, 0, 2) EXCEPT !.epd = <<TRUE, FALSE>>]>>,
    <<Ttbr(16, 0), Ttbr(20, 0), Tcr(1, 0, 2, 0)>>,
    <<Ttbr(16, 0), Ttbr(20, 0), Tcr(3, 4, 2, 1)>>,
    <<Ttbr(16, 0), Ttbr(20, 0), [Tcr(3, 0, 0, 0) EXCEPT !.as = TRUE]>>,
    <<Ttbr(18, 0), Ttbr(20, 0), Tcr(5, 0, 2, 0)>>,
    <<Ttbr(16, 0), Ttbr(20, 0), Tcr(3, 6, 0, 2)>>,
    <<Ttbr(16, 0), Ttbr(20, 0), [Tcr(3, 0, 0, 0) EXCEPT !.refused = TRUE]>>}

\* Each half's first pages, its last and one that only its top bit tells from
\* the first, a misaligned address and one between the halves.
MCVas == {0, 1, 2, 4, 8, 16, 64, 128, 240, 255}
=============================================================================
