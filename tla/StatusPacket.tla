---------------------------- MODULE StatusPacket ----------------------------
(***************************************************************************)
(* The status of a server as modern_slp::ping receives it: read_packet of  *)
(* src/src/minecraft/modern_slp.rs cuts the packet's length and the packet *)
(* out of a stream that may end anywhere, ping looks at its first byte,    *)
(* and read_string of src/src/minecraft/common.rs takes the text out of    *)
(* it.  What the text says is left to serde.                               *)
(***************************************************************************)
EXTENDS VarInt, SequencesExt

CONSTANTS
    SizeBits,       \* the width of usize
    MaxLength,      \* 5: "Max VarInt size"
    MaxPacket,      \* 65535
    MaxText,        \* bound of the texts that servers send
    Noise,          \* the bytes of an answer that is no packet
    MaxNoise        \* bound of its length

\* Five groups of seven bits hold a word; what the servers send is no larger
\* than a packet may be, and a packet's length is far from the widest word.
ASSUME StatusAssumption ==
    /\ SizeBits \in Nat /\ SizeBits >= WordBits
    /\ {MaxLength, MaxPacket, MaxText, MaxNoise} \subseteq Nat
    /\ WordBits <= GroupBits * MaxLength
    /\ 1 + MaxLength + MaxText <= MaxPacket
    /\ MaxPacket < Word \div 2
    /\ Noise \subseteq 0 .. 2 * Group - 1

VARIABLES
    packet,     \* what the server means to send
    stream,     \* the bytes that arrive and have not been read
    pc,         \* where reading stands, or how it has ended
    cut,        \* length_bytes[.. length_size]
    length,     \* the length read last
    data,       \* response_data
    offset,     \* the bytes of data that have been consumed
    text        \* json_str

vars == <<packet, stream, pc, cut, length, data, offset, text>>

-----------------------------------------------------------------------------
(* The server *)

\* A text of n bytes, all different but for those that lie a group apart.
Letters(n) == [i \in 1 .. n |-> i % Group]

Body(p) == <<p.id>> \o Written[p.textLength] \o Letters(p.letters)

Sent(p) == Written[p.length] \o Body(p)

\* p with the length of its body.
Measured(p) == [p EXCEPT !.length = Len(Body(p))]

\* A packet with the right lengths.
Right(id, n) == Measured([id |-> id, letters |-> n, textLength |-> n, length |-> 0])

RightPacket == {Right(id, n) : id \in {0, 1}, n \in 0 .. MaxText}

\* Packets with any word in the place of one of the two lengths.
WithLength(p, l)     == [p EXCEPT !.length = l]
WithTextLength(p, l) == Measured([p EXCEPT !.textLength = l])

OddPacket ==
    {WithLength(p, l) : p \in RightPacket, l \in 0 .. Word - 1}
    \cup {WithTextLength(p, l) : p \in RightPacket, l \in 0 .. Word - 1}

NoPacket == [noise |-> TRUE]

\* What arrives of an answer before the connection ends.
Arriving(p) ==
    IF p = NoPacket THEN BoundedSeq(Noise, MaxNoise)
    ELSE {SubSeq(Sent(p), 1, n) : n \in 0 .. Len(Sent(p))}

-----------------------------------------------------------------------------
(* The client *)

\* The i32 that a word stands for, and what "as usize" makes of it.
Signed(word) == IF word < Word \div 2 THEN word ELSE word - Word
AsSize(word) == Signed(word) % 2 ^ SizeBits

\* *offset + length, as a release build adds them.
End(o, n) == (o + n) % 2 ^ SizeBits

(* Plausible mistakes, as in VarInt. *)

\* Exceeds: the check forgets what has been consumed.
ExceedsAlone(o, n) == n > Len(data)

\* Slice: the text is taken from the start of the packet.
SliceOfAll(o, n) == SubSeq(data, 1, n)

\* Complete: the loop does not break, or it is not bounded.
CompleteAtFive(byte, n) == n = MaxLength
CompleteAtLast(byte, n) == byte < Group

Complete(byte, n) == byte < Group \/ n = MaxLength

Exceeds(o, n) == End(o, n) > Len(data)

Slice(o, n) == SubSeq(data, o + 1, o + n)

\* The texts that servers send are ASCII, and no byte beyond is a character.
Utf8(bytes) == \A i \in DOMAIN bytes : bytes[i] < Group

Ends(how) ==
    /\ pc' = how
    /\ UNCHANGED <<packet, stream, cut, length, data, offset, text>>

Init ==
    /\ packet \in RightPacket \cup OddPacket \cup {NoPacket}
    /\ stream \in Arriving(packet)
    /\ pc = "length"
    /\ cut = <<>>
    /\ length = 0
    /\ data = <<>>
    /\ offset = 0
    /\ text = <<>>

\* One turn of the loop over the bytes of the length.
ReadLengthByte ==
    /\ pc = "length"
    /\ stream # <<>>
    /\ cut' = Append(cut, Head(stream))
    /\ stream' = Tail(stream)
    /\ pc' = IF Complete(Head(stream), Len(cut')) THEN "cut" ELSE pc
    /\ UNCHANGED <<packet, length, data, offset, text>>

\* read_exact fails where the stream ends.
StreamEnds ==
    /\ \/ pc = "length" /\ stream = <<>>
       \/ pc = "data" /\ Len(stream) < length
    /\ Ends("failed")

ParseLength ==
    /\ pc = "cut"
    /\ LET number == ReadVarint(cut, 0) IN
       IF Failed(number) \/ AsSize(number.value) > MaxPacket THEN Ends("failed")
       ELSE /\ length' = AsSize(number.value)
            /\ pc' = "data"
            /\ UNCHANGED <<packet, stream, cut, data, offset, text>>

ReadData ==
    /\ pc = "data"
    /\ Len(stream) >= length
    /\ data' = SubSeq(stream, 1, length)
    /\ stream' = SubSeq(stream, length + 1, Len(stream))
    /\ pc' = "id"
    /\ UNCHANGED <<packet, cut, length, offset, text>>

\* response_data[0], of a packet that may be empty.
ReadId ==
    /\ pc = "id"
    /\ IF data = <<>> THEN Ends("panicked")
       ELSE IF data[1] # 0 THEN Ends("failed")
       ELSE /\ offset' = 1
            /\ pc' = "text length"
            /\ UNCHANGED <<packet, stream, cut, length, data, text>>

ReadTextLength ==
    /\ pc = "text length"
    /\ LET number == ReadVarint(data, offset) IN
       IF Failed(number) THEN Ends("failed")
       ELSE /\ length' = AsSize(number.value)
            /\ offset' = number.offset
            /\ pc' = "text"
            /\ UNCHANGED <<packet, stream, cut, data, text>>

\* Where the sum wraps, a debug build panics at the sum and a release build at
\* the slice, which then ends before it starts.
ReadText ==
    /\ pc = "text"
    /\ IF Exceeds(offset, length) THEN Ends("failed")
       ELSE IF End(offset, length) \notin offset .. Len(data) THEN Ends("panicked")
       ELSE IF ~ Utf8(Slice(offset, length)) THEN Ends("failed")
       ELSE /\ text' = Slice(offset, length)
            /\ offset' = End(offset, length)
            /\ pc' = "done"
            /\ UNCHANGED <<packet, stream, cut, length, data>>

Next ==
    \/ ReadLengthByte
    \/ StreamEnds
    \/ ParseLength
    \/ ReadData
    \/ ReadId
    \/ ReadTextLength
    \/ ReadText

Spec == Init /\ [][Next]_vars

=============================================================================
