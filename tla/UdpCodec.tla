------------------------------ MODULE UdpCodec ------------------------------
(***************************************************************************)
(* Datagrams of the game server as sequences of bytes (UdpProtocol.cpp).   *)
(* A datagram is a word whose low three bits are the transport kind and    *)
(* whose rest is a sequence base, a check byte over the whole datagram,    *)
(* and inner packets.  An inner packet is its length and its opcode, both  *)
(* scrambled by permutations of their bits, a check byte of its own, and   *)
(* the payload under a repeating key.                                      *)
(***************************************************************************)
EXTENDS Integers, Sequences, FiniteSetsExt, Bitwise

ByteSpan == 256

DecodePermutation == [i \in 0..7 |-> <<3, 4, 1, 5, 7, 6, 0, 2>>[i + 1]]
EncodePermutation == [i \in 0..7 |-> <<6, 2, 7, 0, 1, 3, 5, 4>>[i + 1]]
Key == <<63, 38, 66, 253, 138, 114, 52, 116, 200, 191, 205, 164, 148>>

\* A byte under the i-th byte of the key.
Keyed == [i \in 0..12 |-> [v \in 0..ByteSpan - 1 |-> v ^^ Key[i + 1]]]
UnderKey(i, v) == Keyed[i % 13][v]

U16(n) == <<n % ByteSpan, (n \div ByteSpan) % ByteSpan>>
U32(n) == U16(n % 65536) \o U16(n \div 65536)
ReadU16(s, at) == s[at] + ByteSpan * s[at + 1]

-----------------------------------------------------------------------------
\* Inner packets.

DecodeHeaderLength(v) ==
    (DecodePermutation[(v \div 4) % 8] * 4 + (v % 4)) * 8
        + DecodePermutation[v \div 32]

EncodeHeaderLength(n) ==
    (EncodePermutation[n % 8] * 8 + EncodePermutation[n \div 32]) * 4
        + ((n \div 8) % 4)

\* Of the permuted bits above the opcode's fifth only one is kept.
DecodeOpcode(code, n) ==
    LET v == UnderKey(n, code)
    IN  (DecodePermutation[(v \div 4) % 8] % 2) * 32 + (v % 4) * 8
            + DecodePermutation[v \div 32]

\* FindEncodedOpcode: the first of the codes that decode to the opcode.
EncodedOpcodes ==
    [n \in 0..12 |-> [opcode \in 0..63 |->
        Min({c \in 0..ByteSpan - 1 : DecodeOpcode(c, n) = opcode})]]

EncodeOpcode(opcode, n) == EncodedOpcodes[n % 13][opcode]

PayloadCheck(payload) ==
    LET sum[i \in 0..Len(payload)] ==
            CASE i = 0 -> 0
              [] i % 2 = 1 -> sum[i - 1] - payload[i]
              [] OTHER -> sum[i - 1] + payload[i]
    IN  sum[Len(payload)] % ByteSpan

\* The payload under the key, from the place the encoded opcode tells.
Cipher(code, payload) ==
    [i \in DOMAIN payload |-> UnderKey(code + 6 + i, payload[i])]

\* EncodeInnerPacket throws for anything else.
Encodable(packet) == Len(packet.payload) < ByteSpan /\ packet.opcode < 64

EncodeInnerPacket(packet) ==
    LET n == Len(packet.payload)
        code == EncodeOpcode(packet.opcode, n)
    IN  <<EncodeHeaderLength(n), code,
          (PayloadCheck(packet.payload) ^^ UnderKey(n, code)) ^^ n>>
            \o Cipher(code, packet.payload)

\* Only a whole packet is decoded.
Fits(bytes) == Len(bytes) >= 3 /\ Len(bytes) = DecodeHeaderLength(bytes[1]) + 3

DecodeInnerPacket(bytes) ==
    LET n == DecodeHeaderLength(bytes[1])
        payload == Cipher(bytes[2], SubSeq(bytes, 4, n + 3))
    IN  [opcode |-> DecodeOpcode(bytes[2], n), payload |-> payload]

\* checksum_ok
InnerChecksumOk(bytes) ==
    LET n == DecodeHeaderLength(bytes[1])
        payload == Cipher(bytes[2], SubSeq(bytes, 4, n + 3))
    IN  (bytes[3] ^^ PayloadCheck(payload)) ^^ UnderKey(n, bytes[2]) = n

\* DecodeInnerStream: one packet after the other, up to the first that is cut.
DecodeInnerStream(bytes) ==
    LET Packet(o) == SubSeq(bytes, o + 1, o + 3 + DecodeHeaderLength(bytes[o + 1]))
        from[o \in 0..Len(bytes)] ==
            IF o + 3 <= Len(bytes)
                    /\ o + 3 + DecodeHeaderLength(bytes[o + 1]) <= Len(bytes)
               THEN <<DecodeInnerPacket(Packet(o))>> \o from[o + Len(Packet(o))]
               ELSE <<>>
    IN  from[0]

-----------------------------------------------------------------------------
\* Datagrams.

TransportCheckByte(bytes) ==
    LET sum[i \in 0..Len(bytes)] ==
            IF i = 0 THEN 0 ELSE sum[i - 1] + (IF i = 3 THEN 0 ELSE bytes[i])
    IN  (Len(bytes) + 120 - sum[Len(bytes)]) % ByteSpan

\* Mutant of TransportChecksumOk: the check byte is not looked at.
TransportSizeOk(bytes) == Len(bytes) >= 3

TransportChecksumOk(bytes) ==
    Len(bytes) >= 3 /\ bytes[3] = TransportCheckByte(bytes)

Checked(bytes) == [bytes EXCEPT ![3] = TransportCheckByte(bytes)]

\* BuildReliableFrame (kind 2), BuildSequencedFrame (1) and, with base 0,
\* BuildUnsequencedFrame (0): inner packets behind a word and a check byte.
Frame(kind, base, inner) == Checked(U16(base + kind) \o <<0>> \o inner)

Kind(bytes) == ReadU16(bytes, 1) % 8
Base(bytes) == ReadU16(bytes, 1) - Kind(bytes)
Inner(bytes) == SubSeq(bytes, 4, Len(bytes))

\* BuildAckList: a list of one base.
AckList(base, kind) == Checked(U16(8 + kind) \o <<0>> \o U16(base))
AckBase(bytes) == ReadU16(bytes, 4)

\* BuildProbeReply: the word of the probe with kind 6.
ProbeReply(bytes) == Checked(U16(Base(bytes) + 6) \o <<0>>)
=============================================================================
