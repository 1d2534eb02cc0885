--------------------------- MODULE LegacyResponse ---------------------------
(***************************************************************************)
(* How legacy_slp::ping of src/src/minecraft/legacy_slp.rs reads a         *)
(* server's answer: the bytes arrive in pieces, the units of UTF-16 are    *)
(* made of them, and the text is cut into fields.                          *)
(*                                                                         *)
(* A text is a sequence of units.  A field of the answers that servers of  *)
(* the two formats send starts with a unit named after it, so that one can *)
(* see where it ends up.                                                   *)
(***************************************************************************)
EXTENDS Integers, SequencesExt

CONSTANTS
    MaxResponse,    \* 4096: the bytes of an answer that is not too large
    BufferSize,     \* 1024: the bytes of one read
    MotdLength,     \* the lengths of the descriptions that servers send
    MaxText         \* bound of the texts that other programs send

ASSUME LegacyAssumption ==
    /\ {MaxResponse, MaxText} \subseteq Nat
    /\ BufferSize \in Nat \ {0}
    /\ MotdLength \subseteq Nat \ {0}

VARIABLES
    sent,       \* the answer: its first byte and its text
    arrived,    \* how many bytes of the answer have been received
    parsed,     \* the answer has been parsed
    info        \* what came of it: the fields or an error

vars == <<sent, arrived, parsed, info>>

-----------------------------------------------------------------------------
(* The server *)

Motd(n) == [i \in 1 .. n |-> IF i = 1 THEN "motd" ELSE "letter"]

Field(name) == <<name, "digit">>

Modern(n) ==
    <<"section", "1", "null">> \o Field("protocol") \o <<"null">> \o Field("version")
        \o <<"null">> \o Motd(n) \o <<"null">> \o Field("online")
        \o <<"null">> \o Field("max")

Beta(n) ==
    Motd(n) \o <<"section">> \o Field("online") \o <<"section">> \o Field("max")

Answer(texts) == [id : {"0xFF"}, text : texts]

ModernAnswer == Answer({Modern(n) : n \in MotdLength})
BetaAnswer   == Answer({Beta(n) : n \in MotdLength})

\* What may come from a port where no such server listens.  A character beyond
\* the basic plane is two units, a high one and a low one.
OtherAnswer ==
    Answer(BoundedSeq({"section", "1", "null", "high", "low"}, MaxText))
        \cup [id : {"0x48"}, text : {<<"letter">>}]

\* The packet ID and the length come before the text.
StringStart == 3

Size == StringStart + 2 * Len(sent.text)

-----------------------------------------------------------------------------
(* The client *)

(* Plausible mistakes: wrong versions of the operators that their comments   *)
(* name.  The model uses none of them; put in the place of the right one,    *)
(* each breaks the properties that PROJECT.json pairs it with.               *)

\* TooLarge: nothing bounds the answer.
TooLargeNever(n) == FALSE

\* Units: the loop ends one unit early, at i + 2 < len.
UnitsButLast(n) == (n - StringStart - 1) \div 2

\* BetaPart: the numbers are taken from the end, for a description with a
\* section sign in it.
BetaPartFromEnd(parts, i) == IF i = 1 THEN parts[1] ELSE parts[Len(parts) - 3 + i]

TooLarge(n) == n > MaxResponse

\* Two of n bytes make a unit; a last odd one is dropped.
Units(n) == (n - StringStart) \div 2

Text == SubSeq(sent.text, 1, Units(arrived))

\* String::from_utf16
ValidUtf16(text) ==
    \A i \in 1 .. Len(text) :
        /\ text[i] = "high" => i < Len(text) /\ text[i + 1] = "low"
        /\ text[i] = "low" => i > 1 /\ text[i - 1] = "high"

Places(text, units) == {i \in 1 .. Len(text) : text[i] \in units}

\* The bytes in UTF-8, where strings are sliced: a pair has four.
Bytes(text) == Len(text) + Cardinality(Places(text, {"section", "high", "low"}))

\* &text[n ..], with n at the boundary of a character.
ByteSlice(text, n) ==
    LET cut == CHOOSE i \in 0 .. Len(text) : Bytes(SubSeq(text, 1, i)) = n
    IN  SubSeq(text, cut + 1, Len(text))

\* The separator that ends the n-th part, or the end of the text.
Separator(text, c, n) ==
    IF n = 0 THEN 0
    ELSE CHOOSE i \in Places(text, {c}) \cup {Len(text) + 1} :
            Cardinality({j \in Places(text, {c}) : j < i}) = n - 1

\* text.split(c)
Split(text, c) ==
    [n \in 1 .. Cardinality(Places(text, {c})) + 1 |->
        SubSeq(text, Separator(text, c, n - 1) + 1, Separator(text, c, n) - 1)]

Digit == {"1", "digit", "protocol", "online", "max"}

\* part.parse().unwrap_or(0)
Number(part) == IF part # <<>> /\ Range(part) \subseteq Digit THEN part ELSE <<"0">>

Err(message) == [error |-> message]

Refused == "error" \in DOMAIN info

ModernInfo(text) ==
    LET parts == Split(ByteSlice(text, 3), "null") IN
    IF Len(parts) < 5 THEN Err("Invalid legacy response format")
    ELSE [protocol    |-> Number(parts[1]),
          name        |-> parts[2],
          description |-> parts[3],
          online      |-> Number(parts[4]),
          max         |-> Number(parts[5])]

BetaPart(parts, i) == parts[i]

BetaInfo(text) ==
    LET parts == Split(text, "section") IN
    IF Len(parts) < 3 THEN Err("Invalid legacy beta response format")
    ELSE [description |-> BetaPart(parts, 1),
          online      |-> Number(BetaPart(parts, 2)),
          max         |-> Number(BetaPart(parts, 3))]

Info(text) ==
    IF ~ ValidUtf16(text) THEN Err("Invalid UTF-16")
    ELSE IF IsPrefix(<<"section", "1", "null">>, text) THEN ModernInfo(text)
    ELSE BetaInfo(text)

-----------------------------------------------------------------------------

Fails(message) ==
    /\ parsed' = TRUE
    /\ info' = Err(message)

\* A turn of the loop in which bytes arrive.
Read ==
    /\ ~ parsed
    /\ \E n \in 1 .. BufferSize :
          /\ arrived + n <= Size
          /\ arrived' = arrived + n
    /\ IF TooLarge(arrived') THEN Fails("Response too large")
       ELSE UNCHANGED <<parsed, info>>
    /\ UNCHANGED sent

ReadFails ==
    /\ ~ parsed
    /\ Fails("Read error")
    /\ UNCHANGED <<sent, arrived>>

Response ==
    IF arrived = 0 THEN Err("No response received")
    ELSE IF sent.id # "0xFF" THEN Err("Invalid response packet ID")
    ELSE IF arrived < StringStart THEN Err("Response too short")
    ELSE Info(Text)

\* The connection ends, or nothing has come for a second: parse what is there.
Parse ==
    /\ ~ parsed
    /\ parsed' = TRUE
    /\ info' = Response
    /\ UNCHANGED <<sent, arrived>>

Init ==
    /\ sent \in ModernAnswer \cup BetaAnswer \cup OtherAnswer
    /\ arrived = 0
    /\ parsed = FALSE
    /\ info = Err("none yet")

Next == Read \/ ReadFails \/ Parse

Spec == Init /\ [][Next]_vars

-----------------------------------------------------------------------------
(* Properties *)

\* The answer that is kept has a bound: the largest one that is not too large,
\* and the one read that goes beyond it (legacy_slp.rs:27-41).
TypeOK ==
    /\ parsed \in BOOLEAN
    /\ arrived <= Size
    /\ arrived <= MaxResponse + BufferSize
    /\ ~ parsed => Refused

\* An answer of the Beta 1.8 to 1.3 format (legacy_slp.rs:103) that has arrived
\* as a whole is read, if nothing fails before it ends: the three values are
\* the server's.
BetaFieldsRead ==
    sent \in BetaAnswer /\ arrived = Size /\ parsed =>
        IF Refused THEN info.error \in {"Read error", "Response too large"}
        ELSE /\ sent.text = Beta(Len(info.description))
             /\ info.description = Motd(Len(info.description))
             /\ info.online = Field("online")
             /\ info.max = Field("max")

\* What arrives before the second without data is parsed as if it were whole,
\* for the length in the packet is not looked at (legacy_slp.rs:36, 57-59).
\* Whatever text is sent, and wherever it is cut, the part is refused or every
\* value but the last is the one that the whole text has.
OnlyLastValueCut ==
    parsed /\ ~ Refused =>
        LET whole == Info(sent.text) IN
        \/ whole = Err("Invalid UTF-16")
        \/ /\ DOMAIN info = DOMAIN whole
           /\ \A name \in DOMAIN info \ {"max"} : info[name] = whole[name]

\* The fields of an answer of the 1.4+ format (legacy_slp.rs:72) that has
\* arrived as a whole are the ones the server has sent: README.md:76-85 lists
\* them.
LegacyFieldsRead ==
    sent \in ModernAnswer /\ arrived = Size /\ parsed /\ ~ Refused =>
        /\ info.protocol = Field("protocol")
        /\ info.name = Field("version")
        /\ info.description \in {Motd(n) : n \in MotdLength}
        /\ info.online = Field("online")
        /\ info.max = Field("max")

=============================================================================
