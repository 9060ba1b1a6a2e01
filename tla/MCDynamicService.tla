-------------------------- MODULE MCDynamicService --------------------------
(* DynamicService on four slots: two of RAM, one of the table image, one   *)
(* without backing.  Two registers stand for the four: TTBR0 selects a     *)
(* mapping (flat, shifted, or flat with a non-zero ASID) and TCR a granule.*)
EXTENDS DynamicService

MCReg == {"TTBR0", "TCR"}
MCValue == {"flat", "shift", "asid", "16k"}
MCBank == [MCReg -> MCValue]
MCAddr == 0..3

MCValidBanks == {b \in MCBank : /\ b["TTBR0"] \in {"flat", "shift", "asid"}
                                /\ b["TCR"] \in {"flat", "16k"}}
MCZeroAsidBanks == {b \in MCBank : b["TTBR0"] # "asid"}
MCFixedField == [b \in MCBank |-> b["TCR"]]

\* The shifted mapping agrees with the flat one on slot 1 only.
Shifted == [a \in MCAddr |-> CASE a = 2 -> -1 [] a = 3 -> 0 [] OTHER -> 1]
MCWalk == [b \in MCBank |-> IF b["TTBR0"] = "shift" THEN Shifted
                            ELSE [a \in MCAddr |-> a]]
MCSeed == [sctlr |-> [m |-> FALSE, attr |-> "A"],
           regs |-> [r \in MCReg |-> "flat"]]

W(op) == [op |-> op, sel |-> "NONE"]
MCImages == {[a \in {0, 1, 2} |-> IF a = 1 THEN w ELSE W("ALU")] :
               w \in {W("ISB"), W("ALU")}}
MCStorable == {W("ISB"), W("ALU")}
=============================================================================
