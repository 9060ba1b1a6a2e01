-------------------------- MODULE MCProviderCache --------------------------
(***************************************************************************)
(* A two-instruction guest that can overwrite itself, over a buffer with   *)
(* no slot, with one slot, and with more room than its two slots.  The     *)
(* translation of "bfm" is longer than a slot.                             *)
(***************************************************************************)
EXTENDS ProviderCache, TLC

MCPcs == {0, 1}
MCSucc == [p \in MCPcs |-> 1 - p]
MCTarget == [p \in MCPcs |-> p]

MCKind ==
    "add" :> "step" @@ "bfm" :> "step" @@ "cbz" :> "branch" @@
    "str" :> "memory" @@ "msr" :> "system" @@ "hlt" :> "halt" @@
    "udf" :> "undefined"

MCWords == DOMAIN MCKind

MCSize == [w \in MCWords |-> IF w = "bfm" THEN 3 ELSE IF w = "cbz" THEN 2 ELSE 1]
=============================================================================
