------------------------------- MODULE VarInt -------------------------------
(***************************************************************************)
(* write_varint and read_varint of src/src/minecraft/common.rs.            *)
(*                                                                         *)
(* An i32 is the word of its bits, a natural number below 2^WordBits.  The *)
(* code's words have 32 bits and its groups 7; the sizes are parameters,   *)
(* for TLC's own integers have 32 bits.                                    *)
(***************************************************************************)
EXTENDS Integers, Sequences

CONSTANTS
    WordBits,       \* 32: i32
    GroupBits       \* 7: what a byte carries besides its continuation bit

ASSUME VarIntAssumption ==
    /\ WordBits \in Nat \ {0}
    /\ GroupBits \in Nat \ {0}

Group == 2 ^ GroupBits      \* 0x80, the continuation bit
Word  == 2 ^ WordBits

\* What a loop returns instead of a value.
Error(message) == [error |-> message]
Failed(result) == "error" \in DOMAIN result

-----------------------------------------------------------------------------
(* Plausible mistakes: wrong versions of the operators that their comments   *)
(* name.  The model uses none of them; put in the place of the right one,    *)
(* each breaks the properties that PROJECT.json pairs it with.               *)

\* IsLast: the loop of write_varint ends one value too late.
IsLastTooLate(v) == v <= Group

\* Shifted: the shift is taken to the width of the word less one.
ShiftedSigned(byte, position) == ((byte % Group) * 2 ^ position) % (Word \div 2)

-----------------------------------------------------------------------------

\* (val & !0x7F) == 0
IsLast(v) == v < Group

Written[v \in 0 .. Word - 1] ==
    IF IsLast(v) THEN <<v>> ELSE <<(v % Group) + Group>> \o Written[v \div Group]

\* The bits that a shift moves beyond the word are lost.
Shifted(byte, position) == ((byte % Group) * 2 ^ position) % Word

\* read_varint: the number in data after offset bytes, and the offset after it.
ReadVarint(data, offset) ==
    LET Turn[i \in 0 .. WordBits] ==
            LET position == GroupBits * i
                o    == offset + i
                byte == data[o + 1]
                rest == Turn[i + 1]
            IN  CASE o >= Len(data) -> Error("exceeds data length")
                  [] o < Len(data) /\ byte < Group ->
                        [value |-> Shifted(byte, position), offset |-> o + 1]
                  [] o < Len(data) /\ byte >= Group ->
                        IF position + GroupBits >= WordBits THEN Error("too big")
                        ELSE IF Failed(rest) THEN rest
                        ELSE [rest EXCEPT !.value = @ + Shifted(byte, position)]
    IN  Turn[0]

=============================================================================
