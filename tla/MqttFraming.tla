---------------------------- MODULE MqttFraming ----------------------------
(***************************************************************************)
(* The reader task of both bridges: bytes of the TCP stream from the       *)
(* broker are collected in a buffer, packets are cut off it by the length  *)
(* in their header, and the alarm commands among them are handed over.     *)
(*                                                                         *)
(* A byte is a digit of base Radix with a continuation bit: a number below *)
(* 2 * Radix. The first byte of a packet is its type alone, the length of  *)
(* a topic is one byte instead of two, a topic is the byte that tells      *)
(* alarm_ch2 from the rest, and a payload is one number with zeros in      *)
(* front, or text that is no number.                                       *)
(***************************************************************************)
EXTENDS Integers, SequencesExt

CONSTANTS
  Radix,        \* of the remaining length (128)
  LengthBytes,  \* bytes a remaining length may have (4)
  Temps,        \* numbers Home Assistant may send
  MaxPadding,   \* bound: zeros in front of the number in a payload
  ReadMax,      \* the reader's buf (1024)
  CmdCap,       \* capacity of the command channel (16)
  MaxPackets    \* bound: packets on the way at once

\* The multiplier of each byte of a remaining length: the numbers below
\* Multiplier[LengthBytes] can be told in LengthBytes.
Multiplier[i \in Nat] == IF i = 0 THEN 1 ELSE Radix * Multiplier[i - 1]

\* A broker sends no packet whose length it cannot tell.
ASSUME FramingAssumption ==
  /\ Radix \in Nat \ {0, 1}
  /\ LengthBytes \in Nat \ {0}
  /\ Temps \subseteq 0 .. Radix - 1
  /\ MaxPadding \in Nat /\ MaxPadding + 3 < Multiplier[LengthBytes]
  /\ ReadMax \in Nat \ {0}
  /\ CmdCap \in Nat \ {0}
  /\ MaxPackets \in Nat \ {0}

VARIABLES
  wire,         \* bytes of the stream the reader has not read
  partial,      \* bytes read and not yet cut into packets
  reader,       \* is the reader task alive?
  cmds,         \* the command channel
  pending       \* history: packets sent of which not every byte was cut off

vars == <<wire, partial, reader, cmds, pending>>

-----------------------------------------------------------------------------
(* The remaining length *)

\* mqtt_encode_remaining_length: digits from the lowest up, a continuation bit on
\* all but the last.
Encode[n \in Nat] ==
  IF n < Radix THEN <<n>> ELSE <<Radix + (n % Radix)>> \o Encode[n \div Radix]

NoLength == [value |-> 0, used |-> 0]

\* mqtt_decode_remaining_length: up to the first byte without a continuation bit,
\* which must be among the first LengthBytes.
Ends(data) == {i \in 1 .. Len(data) : i <= LengthBytes /\ data[i] < Radix}
DecodeFlat(data) ==   \* mutant: the multiplier does not grow
  LET k == Min(Ends(data))
      v[i \in 1 .. k + 1] == IF i > k THEN 0 ELSE (data[i] % Radix) + v[i + 1]
  IN  IF Ends(data) = {} THEN NoLength ELSE [value |-> v[1], used |-> k]
Decode(data) ==
  LET k == Min(Ends(data))
      v[i \in 1 .. k + 1] == IF i > k THEN 0 ELSE (data[i] % Radix) + Radix * v[i + 1]
  IN  IF Ends(data) = {} THEN NoLength ELSE [value |-> v[1], used |-> k]

-----------------------------------------------------------------------------
(* Packets *)

PUBLISH == 3
SUBACK  == 9   \* or another type that is no PUBLISH

Padding == 0 .. MaxPadding
NaN     == Radix   \* stands for text that is no number

Publish(c, pad, v) == [type |-> PUBLISH, body |-> <<1, c>> \o [i \in 1 .. pad |-> 0] \o <<v>>]
NotPublish(n)      == [type |-> SUBACK, body |-> [i \in 1 .. n |-> 0]]
Packets == {Publish(c, pad, v) : c \in 1 .. 2, pad \in Padding, v \in Temps \cup {NaN}}
             \cup {NotPublish(n) : n \in 0 .. 1}

Bytes(p) == <<p.type>> \o Encode[Len(p.body)] \o p.body

\* mqtt_packet_len; 0 stands for None.
PacketLen(data) ==
  IF data = <<>> \/ Decode(Tail(data)) = NoLength THEN 0
  ELSE 1 + Decode(Tail(data)).used + Decode(Tail(data)).value

NoCommand == <<0, 0>>

AlwaysOne(topic) == 1   \* mutant: the topic is not looked at
ChannelOf(topic) == IF topic = 2 THEN 2 ELSE 1

\* parse_incoming_publish and what the reader makes of the topic and the payload.
Parsed(data) ==
  LET body    == SubSeq(data, 2 + Decode(Tail(data)).used, Len(data))
      payload == SubSeq(body, 2 + body[1], Len(body))
  IN  IF \/ data[1] # PUBLISH
         \/ body = <<>>
         \/ Len(body) < 1 + body[1]
         \/ payload = <<>>
         \/ payload[Len(payload)] = NaN
      THEN NoCommand
      ELSE <<ChannelOf(body[2]), payload[Len(payload)]>>

TypeOK ==
  /\ wire \in Seq(Nat)
  /\ partial \in Seq(Nat)
  /\ reader \in BOOLEAN
  /\ cmds \in Seq((1 .. 2) \X Temps)
  /\ Len(cmds) <= CmdCap
  /\ pending \in Seq(Packets)

-----------------------------------------------------------------------------
(* Broker and connection *)

Send(p) ==
  /\ Len(pending) < MaxPackets
  /\ wire' = wire \o Bytes(p)
  /\ pending' = Append(pending, p)
  /\ UNCHANGED <<partial, reader, cmds>>

\* End of stream or an error, with bytes in between or not: the task returns.
Eof ==
  /\ reader
  /\ reader' = FALSE
  /\ UNCHANGED <<wire, partial, cmds, pending>>

\* The main loop takes a command, or leaves for a new connection: a new reader.
Consume ==
  /\ cmds # <<>>
  /\ cmds' = Tail(cmds)
  /\ UNCHANGED <<wire, partial, reader, pending>>

Reconnect ==
  /\ wire' = <<>>
  /\ partial' = <<>>
  /\ reader' = TRUE
  /\ cmds' = <<>>
  /\ pending' = <<>>

-----------------------------------------------------------------------------
(* The reader task *)

NeedsMore == PacketLen(partial) > 0 /\ Len(partial) > PacketLen(partial)  \* mutant: off by one
Complete  == PacketLen(partial) > 0 /\ Len(partial) >= PacketLen(partial)

\* read returns some of the bytes; it is called when no packet is complete.
FreshBuffer(chunk) == chunk   \* mutant: the rest of the last read is dropped
Collected(chunk) == partial \o chunk
Read(n) ==
  /\ reader
  /\ ~Complete
  /\ n \in 1 .. Min({ReadMax, Len(wire)})
  /\ partial' = Collected(SubSeq(wire, 1, n))
  /\ wire' = SubSeq(wire, n + 1, Len(wire))
  /\ UNCHANGED <<reader, cmds, pending>>

QueuedUnbounded(cmd) == IF cmd = NoCommand THEN cmds ELSE Append(cmds, cmd)   \* mutant
Queued(cmd) == IF cmd # NoCommand /\ Len(cmds) < CmdCap THEN Append(cmds, cmd) ELSE cmds

\* One round of the inner loop.
TakePacket ==
  /\ reader
  /\ Complete
  /\ \E pkt \in {SubSeq(partial, 1, PacketLen(partial))} : \E cmd \in {Parsed(pkt)} :
       /\ partial' = SubSeq(partial, Len(pkt) + 1, Len(partial))
       /\ cmds' = Queued(cmd)
  /\ pending' = SubSeq(pending, 2, Len(pending))
  /\ UNCHANGED <<wire, reader>>

-----------------------------------------------------------------------------
Init ==
  /\ wire = <<>>
  /\ partial = <<>>
  /\ reader = TRUE
  /\ cmds = <<>>
  /\ pending = <<>>

ReadSome == \E n \in 1 .. ReadMax : Read(n)
Next == \/ \E p \in Packets : Send(p)
        \/ Eof \/ Consume \/ Reconnect \/ ReadSome \/ TakePacket
Spec == Init /\ [][Next]_vars

\* The task is scheduled and TCP delivers what was sent.
FairSpec == Spec /\ WF_vars(ReadSome \/ TakePacket)

-----------------------------------------------------------------------------
(* Properties *)

\* What was read and not cut off yet and what is still to come is, byte for byte,
\* the packets sent and not taken yet: however the stream is cut into reads
\* (mqtt.rs:276-281), no byte is lost, taken twice or left over from the packet,
\* or the connection, before.
AllBytes(ps) == FlattenSeq([i \in DOMAIN ps |-> Bytes(ps[i])])
InStep == partial \o wire = AllBytes(pending)

\* Each number the encoder can be given comes back, with the bytes it took, and
\* whatever follows it in the stream makes no difference (mqtt.rs:465 against 533).
RoundTrip == \A n \in 0 .. Multiplier[LengthBytes] - 1 :
               Decode(Encode[n] \o wire) = [value |-> n, used |-> Len(Encode[n])]

\* Once the broker sends no more, all it sent is taken, the last packet included,
\* unless the reader ends.
AllTaken == <>[][Len(pending') <= Len(pending)]_vars => []<>(pending = <<>> \/ ~reader)

\* The reader does with bytes what CommandFeed says of packets.
CommandIn(p) == IF p.type = PUBLISH /\ p.body[Len(p.body)] # NaN
                THEN <<p.body[2], p.body[Len(p.body)]>>
                ELSE NoCommand
Feed == INSTANCE CommandFeed WITH Command <- CommandIn
ImplementsFeed == Feed!Spec
=============================================================================
