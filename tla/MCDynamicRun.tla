---------------------------- MODULE MCDynamicRun ----------------------------
(* DynamicRun on seven slots: five of RAM, one of the table image and one  *)
(* without backing.  The programs start with a register write or another   *)
(* instruction, synchronize, enable, synchronize (or fail to) and go on    *)
(* with one instruction of each kind.                                      *)
EXTENDS DynamicRun

MCReg == {"TTBR0", "TCR"}
MCValue == {"flat", "shift", "skew", "asid", "16k"}
MCBank == [MCReg -> MCValue]
MCAddr == 0..6

MCValidBanks == {b \in MCBank : /\ b["TTBR0"] # "16k"
                                /\ b["TCR"] \in {"flat", "16k"}}
MCZeroAsidBanks == {b \in MCBank : b["TTBR0"] # "asid"}
MCFixedField == [b \in MCBank |-> b["TCR"]]

\* "shift" differs from the flat mapping after the transition only; "skew"
\* also moves the transition ISB.
Shifted == [a \in MCAddr |-> CASE a = 4 -> 0 [] a = 5 -> -1 [] a = 6 -> 5
                               [] OTHER -> a]
Skewed == [Shifted EXCEPT ![3] = 1]
MCWalk == [b \in MCBank |-> CASE b["TTBR0"] = "shift" -> Shifted
                              [] b["TTBR0"] = "skew" -> Skewed
                              [] OTHER -> [a \in MCAddr |-> a]]
MCSeed == [sctlr |-> [m |-> FALSE, attr |-> "A"],
           regs |-> [r \in MCReg |-> "flat"]]

W(op) == [op |-> op, sel |-> "NONE"]
Msr(r) == [op |-> "WRITE", sel |-> r]
MCImages ==
  {[a \in 0..5 |-> CASE a = 0 -> first [] a = 1 -> W("ISB")
                     [] a = 2 -> Msr("SCTLR") [] a = 3 -> guard
                     [] a = 4 -> last [] a = 5 -> W("ALU")] :
     first \in {Msr("TTBR0"), Msr("TCR"), W("STORE"), W("TLBI")},
     guard \in {W("ISB"), W("ALU")},
     last \in {W("LOAD"), W("STORE"), W("BRANCH"), W("TLBI"), W("ISB"),
               W("DSB"), W("OTHER"), Msr("SCTLR")}}
MCStorable == {W("ISB"), W("STORE")}
=============================================================================
