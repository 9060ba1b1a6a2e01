-------------------------------- MODULE MCFp --------------------------------
(* FpUnit with six-bit patterns (3 bits of exponent, 2 of fraction: 64      *)
(* values, of which 6 are NaNs and 6 subnormal).  Six scenarios: every      *)
(* pair of operands in every rounding mode; a chain of instructions with    *)
(* aliased destinations; the context of the CPU changing under them; the    *)
(* register services; Q transfers at the end of the address space, and      *)
(* chains of them through the writeback.                                    *)
EXTENDS FpUnit, TLC

V(a, b, c) == (0 :> a) @@ (1 :> b) @@ (31 :> c)
Banks(as, bs, cs, fpcrs, fpsrs) ==
  {[v |-> V(a, b, c), fpcr |-> cr, fpsr |-> sr] :
     a \in as, b \in bs, c \in cs, cr \in fpcrs, sr \in fpsrs}

Caller(el, fpen, higher, other) ==
  [el |-> el, fpen |-> fpen, higher |-> higher, cpacrOther |-> other]
Context(profile, el, fpen) ==
  [profile |-> profile, pending |-> FALSE, el |-> el, fpen |-> fpen, higher |-> FALSE,
   cpacrOther |-> FALSE, elr |-> [l \in 1..2 |-> 0]]

Open == Caller(1, 3, FALSE, FALSE)
Callers == {Open, Caller(0, 1, FALSE, FALSE), Caller(1, 1, TRUE, FALSE),
            Caller(2, 3, FALSE, FALSE), Caller(1, 3, FALSE, TRUE), Caller(1, 2, FALSE, FALSE)}

Op(op, d, n, m) == [op |-> op, d |-> d, n |-> n, m |-> m, q |-> TRUE]
Bitwise(op, d, n, m, q) == [op |-> op, d |-> d, n |-> n, m |-> m, q |-> q]
Copy(op, q, w, d, n, lane, from) ==
  [op |-> op, q |-> q, w |-> w, d |-> d, n |-> n, lane |-> lane, from |-> from]
Memory(load, mode, offset, n, t) ==
  [load |-> load, mode |-> mode, offset |-> offset, n |-> n, t |-> t]
View(r, w, sa, da, be) ==
  [readable |-> r, writable |-> w, spAlign |-> sa, dataAlign |-> da, bigEndian |-> be]

X(a, b) == (0 :> a) @@ (1 :> b)

Nothing ==
  [banks |-> {}, xs |-> {X(XZero, XZero)}, sps |-> {XZero}, mem |-> [k \in 1..MemLanes |-> 0],
   ctxs |-> {Context(TRUE, 1, 3)}, steps |-> {}, transfers |-> {}, copies |-> {},
   memories |-> {}, views |-> {}, callers |-> {Open}, contexts |-> FALSE, calls |-> 1]

Junk == <<63, 63, 63, 63>>
Lane(p) == <<p, 21, 42, 63>>

MCArithmetic ==
  [Nothing EXCEPT
     !.banks = Banks({Lane(p) : p \in Pattern}, {Lane(p) : p \in Pattern}, {Junk}, 0..3, {0}),
     !.steps = {Op("FADD", 31, 0, 1), Op("FDIV", 31, 0, 1)}]

MCChain ==
  [Nothing EXCEPT
     !.banks = Banks({Lane(1), Lane(27)}, {Lane(35)}, {Junk}, {0, 1}, {0, 32}),
     !.xs = {X(<<2, 9>>, <<8, 0>>), X(<<8, 0>>, <<33, 0>>)},
     !.steps = {Op("FADD", 0, 0, 1), Op("FDIV", 1, 0, 1), Op("FADD", 31, 31, 31),
                Op("FMOV_SW", 31, 0, 0), Op("FMOV_WS", 31, 1, 0), Op("FMOV_WS", 0, 0, 0),
                Op("MSR_FPCR", 0, 0, 0), Op("MSR_FPSR", 1, 0, 0), Op("MSR_FPSR", 31, 0, 0),
                Op("MRS_FPSR", 1, 0, 0), Op("MRS_FPCR", 31, 0, 0), Op("UNKNOWN", 0, 0, 0)},
     !.calls = 3]

MCContext ==
  [Nothing EXCEPT
     !.banks = Banks({Lane(1)}, {Lane(2)}, {Junk}, {0}, {0}),
     !.xs = {X(<<6, 0>>, <<6, 0>>), X(<<40, 0>>, <<40, 0>>)},
     !.ctxs = {Context(FALSE, 0, 0), Context(FALSE, 1, 0), Context(FALSE, 2, 0),
               Context(TRUE, 1, 0), Context(TRUE, 2, 1)},
     !.steps = {Op("FADD", 0, 0, 1), Op("MSR_FPCR", 0, 0, 0), Op("MSR_FPSR", 1, 0, 0),
                Op("UNKNOWN", 0, 0, 0), Bitwise("EOR", 1, 1, 0, FALSE)},
     !.contexts = TRUE, !.calls = 3]

MCServices ==
  [Nothing EXCEPT
     !.banks = Banks({Lane(37)}, {Lane(9)}, {Junk}, {0}, {0, 33}),
     !.xs = {X(<<5, 60>>, <<33, 2>>)},
     !.steps = {Bitwise(op, d, 0, 1, q) : op \in BitwiseOp, d \in {1, 31}, q \in BOOLEAN},
     !.transfers = {Op(op, d, n, 0) : op \in {"FMOV_DX", "FMOV_D1X", "FMOV_XD", "FMOV_XD1"},
                                      d \in {1, 31}, n \in {0, 31}} \cup {Op("UNKNOWN", 0, 0, 0)},
     !.copies = {Copy(op, q, w, d, n, lane, 1) :
                   op \in {"DUP_ELEMENT", "DUP_GENERAL", "INS_ELEMENT", "INS_GENERAL",
                           "UMOV", "SMOV"},
                   q \in BOOLEAN, w \in 1..2, d \in {1, 31}, n \in {0, 31}, lane \in 0..1},
     !.callers = Callers]

Places == {Value(MemBase), Value(MemBase + 3), Value(MemBase + MemLanes - 4)}

MCTransfers ==
  [Nothing EXCEPT
     !.banks = Banks({Lane(37)}, {Lane(9)}, {Junk}, {0}, {0, 32}),
     !.xs = {X(p, p) : p \in Places}, !.sps = Places,
     !.mem = [k \in 1..MemLanes |-> k],
     !.memories = {Memory(load, mode, offset, n, t) :
                     load \in BOOLEAN, mode \in {"none", "pre", "post", "reserved"},
                     offset \in {-4, 0, 1, 5}, n \in {0, 31}, t \in {0, 31}},
     !.views = {View(TRUE, TRUE, FALSE, FALSE, FALSE), View(TRUE, TRUE, TRUE, FALSE, FALSE),
                View(TRUE, FALSE, FALSE, TRUE, FALSE), View(FALSE, TRUE, FALSE, FALSE, FALSE),
                View(TRUE, TRUE, FALSE, FALSE, TRUE)}]

MCWriteback ==
  [MCTransfers EXCEPT
     !.banks = Banks({Lane(37)}, {Lane(9)}, {Junk}, {0}, {0}),
     !.memories = {Memory(load, mode, offset, n, 31) : load \in BOOLEAN,
                     mode \in {"pre", "post"}, offset \in {-4, 3}, n \in {0, 31}},
     !.views = {View(TRUE, TRUE, TRUE, FALSE, FALSE)},
     !.calls = 3]

MCScenario == [arithmetic |-> MCArithmetic, chain |-> MCChain, context |-> MCContext,
               services |-> MCServices, transfers |-> MCTransfers,
               writeback |-> MCWriteback]
=============================================================================
