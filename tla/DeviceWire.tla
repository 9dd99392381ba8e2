----------------------------- MODULE DeviceWire -----------------------------
(***************************************************************************)
(* DeviceLink speaks of temperatures, keepalives and setpoints; on the     *)
(* wire they are the bytes of PacketCodec. Here is what the one has to do  *)
(* with the other, looked at wherever a packet is on its way.              *)
(***************************************************************************)
EXTENDS DeviceLinkSpec, PacketCodec

CONSTANTS
  Samples,      \* bound: words on the wire that are tried
  Garbage       \* bound: bytes a garbled byte may turn into

ASSUME WireAssumption == Samples \subseteq Word /\ Garbage \subseteq Byte

-----------------------------------------------------------------------------
\* Two of these bytes are delimiters.
SampleId == <<2, START_BYTE, 55, END_BYTE, 140>>

KeepalivePacket ==
  Sealed(<<TYPE_TEMP, SampleId[1], SampleId[2], SampleId[3], SampleId[4], SampleId[5],
           48, 48, 0, 0, 0>>)

\* A packet of that body, and the values it carries.
Packets(b) ==
  CASE b.kind = "temp"      -> {[bytes |-> TempPacket(SampleId, 0, s, t), values |-> <<s, t>>] :
                                s, t \in Samples}
    [] b.kind = "alarm"     -> {[bytes |-> AlarmPacket(SampleId, b.channel, s),
                                 values |-> <<b.channel, s>>] : s \in Samples}
    [] b.kind = "keepalive" -> {[bytes |-> KeepalivePacket, values |-> <<>>]}
    [] b.kind = "noise"     -> {[bytes |-> <<>>, values |-> <<>>],
                                [bytes |-> Tail(KeepalivePacket), values |-> <<>>]}

KindOf(b) == IF b.kind \in {"temp", "alarm"} THEN b.kind ELSE "unknown"

\* It is read as what it is, its echo too, and its echo's echo is itself.
Agrees(b, p) ==
  /\ try_parse(p.bytes) = [kind |-> KindOf(b), values |-> p.values]
  /\ Framed(b) <=> build_echo(p.bytes) # None
  /\ Framed(b) => LET e == build_echo(p.bytes) IN
       /\ try_parse(e) = try_parse(p.bytes)
       /\ parse_device_id_bytes(e) = SampleId
       /\ build_echo(e) = p.bytes /\ e # p.bytes

Garbled(p, k, x) == [p.bytes EXCEPT ![k] = x]

Rejected(p) ==
  \A k \in DOMAIN p.bytes, x \in Garbage :
    x # p.bytes[k] => try_parse(Garbled(p, k, x)).kind = "unknown"

AgreeTable  == [b \in Body |-> \A p \in Packets(b) : Agrees(b, p)]
RejectTable == [b \in Body |-> \A p \in Packets(b) : Rejected(p)]

InFlight == {up[i].body : i \in DOMAIN up} \cup {down[i].body : i \in DOMAIN down}

-----------------------------------------------------------------------------
\* What the loop and the thermometer tell apart, they tell apart by the bytes: a setpoint
\* or temperature of any size is read as the one that was written, an echo is read like
\* its original, only framed packets are echoed, and flipping the direction twice gives
\* back the packet (protocol.rs:144-173, 241-261, 286-335). Values below 256 came through
\* a wrong byte order unharmed (protocol.rs:131-132).
WireAgrees == \A b \in InFlight : AgreeTable[b]

\* A packet with one byte garbled is never taken for another reading or setpoint.
GarbledIsDropped == \A b \in InFlight : RejectTable[b]
=============================================================================
