-------------------------------- MODULE Gpio --------------------------------
(***************************************************************************)
(* The pin controller (devices/apple_gpio_v1.c) as operators on its state. *)
(* Each pin is routed to one interrupt group or masked; a group's pending  *)
(* bits are words of WordBits bits, and a pin's word is found with an      *)
(* offset that leaves pin 0 alone in word 0.  The callback that reports a  *)
(* group's level is the variable lines of the machine.  Output levels, the *)
(* function select and the NPL register drive no interrupt and are left    *)
(* out.                                                                    *)
(***************************************************************************)
EXTENDS Integers

CONSTANTS NPins, NGroups,   \* npins and nirqgrps of the instance
          WordBits,         \* bits in a word, 32 in the code
          IntWords          \* VF_GPIO_INT_WORDS

Pin == 0..(NPins - 1)
Group == 0..(NGroups - 1)
Masked == NGroups           \* the group field's masked value
Mode == {"GP", "LVL_HI", "LVL_LO", "EDG_RIS", "EDG_FAL", "EDG_ANY"}

\* gpio_int_word() and the bit in it.
IntWord(pin) == (pin + WordBits - 1) \div WordBits
IntBit(pin) == <<IntWord(pin), pin % WordBits>>

\* Beyond this the word of the highest pin is not one of the group's words.
PinsFit == IntWord(NPins - 1) < IntWords

GpioInit == [cfg |-> [p \in Pin |-> [mode |-> "GP", group |-> Masked]],
             int |-> [g \in Group |-> {}],
             in |-> {}, old |-> {}]

GroupActive(s, g) == s.int[g] # {}

Set(s, g, pin) == [s EXCEPT !.int[g] = @ \cup {IntBit(pin)}]
Clear(s, g, pin) == [s EXCEPT !.int[g] = @ \ {IntBit(pin)}]

\* A pin that arrives in a group starts from its level there; the group it
\* leaves keeps the bit.
UpdateLevelPending(s, pin, cfg) ==
  LET clear == Clear(s, cfg.group, pin)
      level == pin \in s.in
  IN CASE cfg.group = Masked -> s
       [] cfg.group # Masked /\ ((cfg.mode = "LVL_HI" /\ level)
                                   \/ (cfg.mode = "LVL_LO" /\ ~level)) ->
            Set(clear, cfg.group, pin)
       [] OTHER -> clear

\* gpio_update_pincfg(): the pending bits first, then the configuration.
WriteCfg(s, pin, cfg) == [UpdateLevelPending(s, pin, cfg) EXCEPT !.cfg[pin] = cfg]

\* Does an input of this level set the pin's bit?
Triggers(s, pin, level) ==
  LET was == pin \in s.old
  IN CASE s.cfg[pin].mode = "LVL_HI" -> level
       [] s.cfg[pin].mode = "LVL_LO" -> ~level
       [] s.cfg[pin].mode = "EDG_RIS" -> ~was /\ level
       [] s.cfg[pin].mode = "EDG_FAL" -> was /\ ~level
       [] s.cfg[pin].mode = "EDG_ANY" -> was # level
       [] OTHER -> FALSE

\* gpio_apply_input_irq(): old follows in, a whole word at a time.
SetIn(s, pin, level) ==
  LET in == IF level THEN s.in \cup {pin} ELSE s.in \ {pin}
      word == {p \in Pin : p \div WordBits = pin \div WordBits}
      moved == [s EXCEPT !.in = in, !.old = (@ \ word) \cup (in \cap word)]
      grp == s.cfg[pin].group
  IN IF grp # Masked /\ Triggers(s, pin, level) THEN Set(moved, grp, pin) ELSE moved

\* Mutant: writing a word clears every bit of the group.
WriteInt_WholeGroup(s, g, bits) == [s EXCEPT !.int[g] = {}]

\* A word of a group is cleared bit by bit, by writing ones.
WriteInt(s, g, bits) == [s EXCEPT !.int[g] = @ \ bits]
=============================================================================
