---------------------------- MODULE PacketStream ----------------------------
(***************************************************************************)
(* One direction of a connection: PacketCodec puts packets on a stream of  *)
(* bytes and takes them off again.                                         *)
(*                                                                         *)
(* The stream keeps no packet boundaries.  write takes as many bytes as    *)
(* the socket has room for, read returns what has arrived, and both codecs *)
(* loop until they have moved what they wanted.  Either end can go away    *)
(* between any two of these calls.                                         *)
(*                                                                         *)
(* A byte says which packet it belongs to and where; every byte of a       *)
(* header also shows the payload size that the header gives.               *)
(***************************************************************************)
EXTENDS Naturals, Sequences, SequencesExt

CONSTANTS
    HeaderSize,      \* 64 in the code
    MaxPayload,      \* 8 MiB in the code
    SocketCapacity,  \* bytes the sockets hold
    MaxPackets,      \* bound on the packets
    Sizes            \* payload sizes of the packets that are sent

ASSUME StreamAssumption ==
    /\ HeaderSize \in Nat \ {0}
    /\ MaxPayload \in Nat
    /\ SocketCapacity \in Nat \ {0}
    /\ MaxPackets \in Nat
    /\ Sizes \subseteq Nat

VARIABLES
    written,     \* the packets that writePacket was called with
    out,         \* what writeAll has not written yet
    wire,        \* the bytes on their way
    writer,      \* open, or closed: the writing end of the connection
    reader,      \* what readPacket reads: the header, the payload; failed: it
                 \* has thrown; gone: the reading process has ended
    frame,       \* the bytes of the packet that readPacket has
    delivered    \* the packets it has returned

streamVars == <<written, out, wire, writer, reader, frame, delivered>>

Packets == [id : 1 .. MaxPackets, size : Sizes \cap 0 .. MaxPayload]
Bytes == [id : 1 .. MaxPackets, size : Sizes, at : Nat]

StreamTypeOK ==
    /\ written \in Seq(Packets)
    /\ out \in Seq(Bytes)
    /\ wire \in Seq(Bytes) /\ Len(wire) <= SocketCapacity
    /\ writer \in {"open", "closed"}
    /\ reader \in {"header", "payload", "failed", "gone"}
    /\ frame \in Seq(Bytes) /\ Len(frame) <= HeaderSize + MaxPayload
    /\ delivered \in Seq([id : 1 .. MaxPackets, size : Sizes, payload : Seq(Bytes)])

StreamInit ==
    /\ written = <<>>
    /\ out = <<>>
    /\ wire = <<>>
    /\ writer = "open"
    /\ reader = "header"
    /\ frame = <<>>
    /\ delivered = <<>>

-----------------------------------------------------------------------------
(***************************************************************************)
(* PacketCodec::encode and decode.                                         *)
(***************************************************************************)
encode(p) == [i \in 1 .. HeaderSize + p.size |-> [id |-> p.id, size |-> p.size, at |-> i]]

\* payload_size, at offset 24 of the header.
payloadSize(f) == f[HeaderSize].size

\* Magic, version, type and CRC are those of one header; the CRC does not cover
\* the payload.
HeaderOK(f) ==
    \A i \in 1 .. HeaderSize :
        f[i] = [id |-> f[1].id, size |-> payloadSize(f), at |-> i]

\* The packet a frame stands for, with its payload as it came.
decode(f) ==
    [id |-> f[1].id, size |-> payloadSize(f), payload |-> SubSeq(f, HeaderSize + 1, Len(f))]

-----------------------------------------------------------------------------
(***************************************************************************)
(* The writer: PacketCodec::writePacket.                                   *)
(***************************************************************************)
WritePacket ==
    /\ writer = "open" /\ out = <<>>
    /\ Len(written) < MaxPackets
    /\ \E n \in Sizes :
          /\ n <= MaxPayload
          /\ written' = Append(written, [id |-> Len(written) + 1, size |-> n])
          /\ out' = encode([id |-> Len(written) + 1, size |-> n])
    /\ UNCHANGED <<wire, writer, reader, frame, delivered>>

\* Mutant: one write, whatever it takes.
WriteOnce ==
    /\ writer = "open" /\ reader # "gone"
    /\ \E n \in 1 .. Len(out) :
          /\ Len(wire) + n <= SocketCapacity
          /\ wire' = wire \o SubSeq(out, 1, n)
          /\ out' = <<>>
    /\ UNCHANGED <<written, writer, reader, frame, delivered>>

\* One write of writeAll's loop.
WriteSome ==
    /\ writer = "open" /\ reader # "gone"
    /\ \E n \in 1 .. Len(out) :
          /\ Len(wire) + n <= SocketCapacity
          /\ wire' = wire \o SubSeq(out, 1, n)
          /\ out' = SubSeq(out, n + 1, Len(out))
    /\ UNCHANGED <<written, writer, reader, frame, delivered>>

\* The writer closes the connection or ends, within a packet or after one: for
\* a payload above the limit, for a write to a reader that is gone, or killed.
WriterEnds ==
    /\ writer = "open"
    /\ writer' = "closed"
    /\ out' = <<>>
    /\ UNCHANGED <<written, wire, reader, frame, delivered>>

-----------------------------------------------------------------------------
(***************************************************************************)
(* The reader: PacketCodec::readPacket.                                    *)
(***************************************************************************)
Wanted ==
    CASE reader = "header"  -> HeaderSize - Len(frame)
      [] reader = "payload" -> HeaderSize + payloadSize(frame) - Len(frame)
      [] OTHER              -> 0

\* Mutant: whatever has arrived.
ReadAny ==
    /\ Wanted > 0
    /\ \E n \in 1 .. Len(wire) :
          /\ frame' = frame \o SubSeq(wire, 1, n)
          /\ wire' = SubSeq(wire, n + 1, Len(wire))
    /\ UNCHANGED <<written, out, writer, reader, delivered>>

\* One read of readExact's loop.
ReadSome ==
    /\ \E n \in 1 .. Wanted :
          /\ n <= Len(wire)
          /\ frame' = frame \o SubSeq(wire, 1, n)
          /\ wire' = SubSeq(wire, n + 1, Len(wire))
    /\ UNCHANGED <<written, out, writer, reader, delivered>>

fail ==
    /\ reader' = "failed"
    /\ frame' = <<>>
    /\ UNCHANGED <<written, out, wire, writer, delivered>>

\* read returns 0.
SocketClosed ==
    /\ Wanted > 0
    /\ wire = <<>> /\ writer = "closed"
    /\ fail

\* Mutant: the largest payload is refused.
HeaderReadBelow ==
    /\ reader = "header" /\ Wanted = 0
    /\ IF payloadSize(frame) < MaxPayload
         THEN reader' = "payload" /\ UNCHANGED <<written, out, wire, writer, frame, delivered>>
         ELSE fail

HeaderRead ==
    /\ reader = "header" /\ Wanted = 0
    /\ IF payloadSize(frame) <= MaxPayload
         THEN reader' = "payload" /\ UNCHANGED <<written, out, wire, writer, frame, delivered>>
         ELSE fail

PacketRead ==
    /\ reader = "payload" /\ Wanted = 0
    /\ IF HeaderOK(frame)
         THEN /\ delivered' = Append(delivered, decode(frame))
              /\ frame' = <<>>
              /\ reader' = "header"
              /\ UNCHANGED <<written, out, wire, writer>>
         ELSE fail

ReaderEnds ==
    /\ reader # "gone"
    /\ reader' = "gone"
    /\ frame' = <<>>
    /\ wire' = <<>>
    /\ UNCHANGED <<written, out, writer, delivered>>

-----------------------------------------------------------------------------
Reader == ReadSome \/ SocketClosed \/ HeaderRead \/ PacketRead

StreamNext == WritePacket \/ WriteSome \/ WriterEnds \/ Reader \/ ReaderEnds

StreamSpec == StreamInit /\ [][StreamNext]_streamVars

\* A writer in writeAll and a reader in readExact go on when they can.
StreamFairSpec == StreamSpec /\ WF_streamVars(WriteSome) /\ WF_streamVars(Reader)

-----------------------------------------------------------------------------
(***************************************************************************)
(* Properties.                                                             *)
(***************************************************************************)
whole(p) == [id |-> p.id, size |-> p.size, payload |-> SubSeq(encode(p), HeaderSize + 1, HeaderSize + p.size)]

\* However the bytes are split, the reader gets whole packets in order, and
\* nothing of a packet that the writer did not finish.
Connection == INSTANCE Channel WITH
    Packets  <- {whole(p) : p \in Packets},
    sent     <- [i \in DOMAIN written |-> whole(written[i])],
    received <- delivered

IsChannel == Connection!Spec

\* A packet that was written arrives, unless one end goes away: no size that
\* the writer accepts makes the reader throw or wait for more.
PacketsArrive ==
    \A k \in 1 .. MaxPackets :
        Len(written) >= k ~> Len(delivered) >= k \/ writer = "closed" \/ reader = "gone"

\* readPacket throws only when the writer has gone: it refuses no packet that
\* writePacket has accepted, also none as large as the limit.
ThrowsOnlyWhenCut == reader = "failed" => writer = "closed"

-----------------------------------------------------------------------------
(***************************************************************************)
(* The inductive invariant behind IsChannel.                               *)
(***************************************************************************)
Live == reader \in {"header", "payload"}

\* The bytes that have left writePacket's caller and not reached readPacket's.
stream == frame \o (wire \o out)

\* The byte d places after b in b's packet, and the last byte of a packet.
Later(b, d) == [id |-> b.id, size |-> b.size, at |-> b.at + d]
EndsPacket(b) == b.at = HeaderSize + b.size

\* The bytes s come from the packets w: each packet from some byte on, up to
\* its end, and then the next packet from its first byte.
BytesOK(s, w) ==
    /\ \A i \in 1 .. Len(s) :
          /\ s[i].id \in 1 .. Len(w)
          /\ s[i].size = w[s[i].id].size
          /\ s[i].at \in 1 .. HeaderSize + s[i].size
    /\ \A i, j \in 1 .. Len(s) :
          i <= j /\ s[i].at + (j - i) <= HeaderSize + s[i].size => s[j] = Later(s[i], j - i)
    /\ \A i \in 1 .. Len(s) - 1 :
          EndsPacket(s[i]) => s[i + 1].at = 1 /\ s[i + 1].id = s[i].id + 1

\* While the reader reads, the stream starts with the packet that is delivered
\* next and, while the writer writes, ends with the packet written last.
StreamOK ==
    Live =>
        /\ BytesOK(stream, written)
        /\ Len(stream) > 0 => stream[1].at = 1 /\ stream[1].id = Len(delivered) + 1
        /\ writer = "open" =>
              IF Len(stream) = 0
                THEN Len(delivered) = Len(written)
                ELSE EndsPacket(stream[Len(stream)]) /\ stream[Len(stream)].id = Len(written)

\* readPacket never reads past the packet it is in.
FrameOK ==
    /\ reader = "header" => Len(frame) <= HeaderSize
    /\ reader = "payload" =>
          Len(frame) >= HeaderSize /\ Len(frame) <= HeaderSize + payloadSize(frame)

Numbered == \A i \in 1 .. Len(written) : written[i].id = i

StreamInv == StreamTypeOK /\ Numbered /\ FrameOK /\ StreamOK
=============================================================================
