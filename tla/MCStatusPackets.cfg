\* Every word of 8 bits in the place of each of a packet's two lengths, cut at
\* every byte, and answers that are no packet.
SPECIFICATION Spec
CONSTANTS
    WordBits = 8
    GroupBits = 3
    SizeBits = 10
    MaxLength = 3
    MaxPacket = 20
    MaxText = 9
    Noise <- SomeBytes
    MaxNoise = 5
INVARIANTS
    TypeOK
    LengthsAreTheServers
    TextIsTheServers
    RightPacketIsRead
    PanicsAreKnown
CHECK_DEADLOCK FALSE
