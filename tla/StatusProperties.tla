-------------------------- MODULE StatusProperties --------------------------
(***************************************************************************)
(* What reading a server's status promises.                                *)
(***************************************************************************)
EXTENDS StatusPacket

\* A status with the right lengths, of which every byte arrives.
Expected == packet \in {p \in RightPacket : p.id = 0}
Whole    == cut \o data \o stream = Sent(packet)

TypeOK ==
    /\ pc \in {"length", "cut", "data", "id", "text length", "text", "done",
               "failed", "panicked"}
    /\ Len(cut) <= MaxLength
    /\ length \in 0 .. 2 ^ SizeBits - 1
    /\ offset \in 0 .. Len(data)
    /\ Len(data) <= MaxPacket

\* The two lengths are read as the server has written them, whatever word it
\* wrote, and reading consumes their bytes and no more: the loop that cuts the
\* first one out of the stream, read_varint and write_varint agree
\* (common.rs:47-84, modern_slp.rs:146-154).
LengthsAreTheServers ==
    packet # NoPacket =>
        /\ pc = "data" =>
              cut = Written[packet.length] /\ length = AsSize(packet.length)
        /\ pc = "text" =>
              /\ length = AsSize(packet.textLength)
              /\ offset = 1 + Len(Written[packet.textLength])

\* A text that is accepted is the one that the server has sent, from its first
\* byte to the length it names, never a part of the packet's head or of what
\* follows the packet (common.rs:96-108).
TextIsTheServers ==
    packet # NoPacket /\ pc = "done" =>
        text = SubSeq(Letters(packet.letters), 1, Signed(packet.textLength))

\* A packet with the right lengths that has arrived as a whole is read to its
\* end.
RightPacketIsRead ==
    Expected /\ Whole => pc \notin {"failed", "panicked"}

\* The ping panics only on an empty packet, or on a text of a negative length
\* that reaches back no further than the start of the packet: every other
\* wrong length is refused with an error (modern_slp.rs:83, common.rs:97-103).
PanicsAreKnown ==
    pc = "panicked" =>
        \/ data = <<>>
        \/ length \in 2 ^ SizeBits - offset .. 2 ^ SizeBits - 1

=============================================================================
