----------------------------- MODULE MCM1Bridge -----------------------------
(* M1Machine with eight lines (seven wired, one free), two CPUs, doorbells  *)
(* of four values, a two-byte FIFO and a counter that saturates at 3; two   *)
(* register values beside 0, of which one puts a vector table at the end of *)
(* the address space; one free place in the key table for two new keys; two *)
(* SART regions of three pages; two pins that share a word.  The devices    *)
(* are explored in groups that share no state but the controller.           *)
EXTENDS M1Machine

MCFocus == {{"timer", "aicReset"},
            {"uart", "dart", "aicReset"},
            {"sep", "adp", "recovery", "aicReset"},
            {"storage", "aic", "aicReset"},
            {"ans"},
            {"ans", "pci", "storage"},
            {"gxf", "gxfFrame", "gxfBank"}, {"gxf", "gxfVector"}, {"gxf", "gxfTrap"},
            {"gxf", "gxfLock"}, {"sprr"},
            {"smc"}, {"sart"}, {"sart3"}, {"gpio"}}

MCStorageFocus == {{"storage", "ans"}}

MCPermWords == {<<{0, 1, 2}, {3}>>, <<{}, {0, 1, 3}>>, <<{1, 2}, {1}>>}
MCMaskWords == {<<{0}, {0, 1}>>, <<{1}, {}>>}

MCGpioModes == [p \in {1, 2} |-> IF p = 1 THEN {"LVL_HI", "LVL_LO", "EDG_ANY"}
                                 ELSE {"GP", "EDG_RIS", "EDG_FAL"}]
=============================================================================
