-------------------------------- MODULE Smc --------------------------------
(***************************************************************************)
(* The SMC's key table and mailbox (devices/apple_smc_v1.c) as operators   *)
(* on its state.  Values longer than a response travel through the shared  *)
(* SRAM, which is also where a write takes its value from.                 *)
(*                                                                         *)
(* Bytes are kept in groups of four, the size of a response: a key's eight *)
(* data bytes and the first eight of the SRAM are two groups.  A group is  *)
(* a token that says what was put there.  The echoed tag is left out.      *)
(***************************************************************************)
EXTENDS Integers, Sequences

CONSTANTS MaxKeys,    \* VF_SMC_MAX_KEYS
          NewKey      \* keys that are not in the table at boot

BootKey == {"NKEY", "CLKH", "RGEN", "ADC", "MBSE", "NESN"}
Key == BootKey \cup NewKey

Zero == <<"zero">>
Groups == 2                       \* a key's data, in groups
Length == 0..(Groups + 1)         \* a request's length; the last is too long
Blank == <<Zero, Zero>>

Entry(key, size, readable, writable, data) ==
  [key |-> key, size |-> size, readable |-> readable, writable |-> writable,
   data |-> data]

SmcInit ==
  [sram |-> Blank,
   keys |-> <<Entry("NKEY", 1, TRUE, FALSE, Blank),
              Entry("CLKH", 2, TRUE, FALSE, <<<<"clkh">>, <<"clkh2">>>>),
              Entry("RGEN", 1, TRUE, FALSE, <<<<"rgen">>, Zero>>),
              Entry("ADC", 1, TRUE, FALSE, Blank),
              Entry("MBSE", 1, FALSE, TRUE, Blank),
              Entry("NESN", 1, FALSE, TRUE, Blank)>>]

\* What a response carries: a status, a length and at most one group.
Response(status, length, group) == [status |-> status, length |-> length, group |-> group]
NoResponse == Response("SUCCESS", 0, Zero)

\* smc_find_key(): the first match, if there is one.
Find(s, key) == {i \in DOMAIN s.keys : /\ s.keys[i].key = key
                                       /\ \A j \in 1..(i - 1) : s.keys[j].key # key}
At(s, key) == CHOOSE i \in Find(s, key) : TRUE

\* The first n groups of new over old.
Copied(old, new, n) == [i \in 1..Groups |-> IF i <= n THEN new[i] ELSE old[i]]

-----------------------------------------------------------------------------
(* The commands: the state after, and the response. *)

Refused(s, status, length) == [smc |-> s, resp |-> Response(status, length, Zero)]

\* smc_read_key_data(): NKEY is refreshed from the table when it is read;
\* a value longer than a response is left in the SRAM.
ReadEntry(s, i) ==
  LET k == s.keys[i]
      data == IF k.key = "NKEY" THEN <<<<"count", Len(s.keys)>>, k.data[2]>> ELSE k.data
      refreshed == [s EXCEPT !.keys[i].data = data]
  IN IF ~k.readable
       THEN Refused(s, "NOT_READABLE", 0)
       ELSE [smc |-> IF k.size <= 1
                       THEN refreshed
                       ELSE [refreshed EXCEPT !.sram = Copied(@, data, k.size)],
             resp |-> Response("SUCCESS", k.size, IF k.size = 1 THEN data[1] ELSE Zero)]

ReadKey(s, key) ==
  IF Find(s, key) = {} THEN Refused(s, "NOT_FOUND", 0) ELSE ReadEntry(s, At(s, key))

\* The six bytes of a key's description cover the first group and a half.
GetKeyInfo(s, key) ==
  IF Find(s, key) = {}
    THEN Refused(s, "NOT_FOUND", 0)
    ELSE [smc |-> [s EXCEPT !.sram = <<<<"info">>, <<"info">>>>],
          resp |-> NoResponse]

\* The index is the request's key field, counted from 0.
GetKeyByIndex(s, index) ==
  IF index >= Len(s.keys)
    THEN Refused(s, "INDEX_RANGE", 0)
    ELSE [smc |-> s, resp |-> Response("SUCCESS", 0, <<"key", s.keys[index + 1].key>>)]

\* Mutant: the size of an existing key is not changed.
Store_KeepsSize(s, i, length) ==
  [s EXCEPT !.keys[i].data = Copied(@, s.sram, length)]

\* The value comes from the SRAM, whatever was left there last.
Store(s, i, length) ==
  [s EXCEPT !.keys[i].size = length, !.keys[i].data = Copied(@, s.sram, length)]

\* An unknown key is added while there is room, readable and writable.
WriteKey(s, key, length) ==
  LET found == Find(s, key) # {}
      added == [s EXCEPT !.keys = Append(@, Entry(key, 0, TRUE, TRUE, Blank))]
      fits == length <= Groups
  IN CASE ~found /\ (~fits \/ Len(s.keys) >= MaxKeys) -> Refused(s, "NOT_FOUND", length)
       [] ~found /\ fits /\ Len(s.keys) < MaxKeys ->
            [smc |-> Store(added, Len(added.keys), length),
             resp |-> Response("SUCCESS", length, Zero)]
       [] found /\ s.keys[At(s, key)].writable /\ fits ->
            [smc |-> Store(s, At(s, key), length),
             resp |-> Response("SUCCESS", length, Zero)]
       [] OTHER -> Refused(s, "NOT_WRITABLE", length)

\* The address itself is the whole response.
GetSramAddr(s) == [smc |-> s, resp |-> Response("SRAM_ADDR", 0, Zero)]
BadCommand(s) == Refused(s, "BAD_COMMAND", 0)
=============================================================================
