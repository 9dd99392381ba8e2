----------------------------- MODULE PacketCodec -----------------------------
(***************************************************************************)
(* The packets of the thermometer's UDP protocol as bytes (protocol.rs,    *)
(* mod udp): what is built, what is parsed, what is echoed. Byte k of the  *)
(* source is packet[k + 1]; a temperature is the u16 on the wire.          *)
(***************************************************************************)
EXTENDS Integers, Sequences

Byte == 0 .. 255
Word == 0 .. 65535

START_BYTE == 60
END_BYTE   == 62
TYPE_TEMP  == 84
ALARM_CH1  == <<65, 49>>
ALARM_CH2  == <<65, 50>>

None == <<>>   \* no packet

\* u16::to_le_bytes, from_le_bytes
Low(w)         == w % 256
High(w)        == w \div 256
LeWord(lo, hi) == lo + 256 * hi

compute_checksum(content) ==
  LET sum[i \in 0 .. Len(content)] == IF i = 0 THEN 0 ELSE sum[i - 1] + content[i]
  IN  (sum[Len(content)] + START_BYTE) % 256

Sealed(content) == <<START_BYTE>> \o content \o <<compute_checksum(content), END_BYTE>>

-----------------------------------------------------------------------------
(* Temperature packets: 18 bytes *)

TempPacket(id, direction, t1, t2) ==
  Sealed(<<TYPE_TEMP, id[1], id[2], id[3], id[4], id[5], 48, 48, direction, 4, 0,
           Low(t1), High(t1), Low(t2), High(t2)>>)

Unsummed(p) ==   \* mutant: the checksum is not verified
  Len(p) = 18 /\ p[1] = START_BYTE /\ p[18] = END_BYTE /\ p[2] = TYPE_TEMP
IsTempPacket(p) ==
  /\ Len(p) = 18
  /\ p[1] = START_BYTE /\ p[18] = END_BYTE /\ p[2] = TYPE_TEMP
  /\ p[17] = compute_checksum(SubSeq(p, 2, 16))

(* Alarm packets: 16 bytes, the command and its acknowledgement *)

AlarmPacket(id, channel, t) ==
  LET config == IF channel = 2 THEN ALARM_CH2 ELSE ALARM_CH1 IN
  Sealed(<<TYPE_TEMP, id[1], id[2], id[3], id[4], id[5], config[1], config[2], 0, 2, 0,
           Low(t), High(t)>>)

IsAlarmPacket(p) ==
  /\ Len(p) = 16
  /\ p[1] = START_BYTE /\ p[16] = END_BYTE /\ p[2] = TYPE_TEMP
  /\ <<p[8], p[9]>> \in {ALARM_CH1, ALARM_CH2}
  /\ p[15] = compute_checksum(SubSeq(p, 2, 14))

Misread(p) ==   \* mutant: the word is taken to be big-endian, one byte earlier
  IF IsTempPacket(p)
  THEN [kind |-> "temp", values |-> <<LeWord(p[13], p[12]), LeWord(p[15], p[14])>>]
  ELSE IF IsAlarmPacket(p)
  THEN [kind |-> "alarm", values |-> <<IF p[9] = 49 THEN 1 ELSE 2, LeWord(p[13], p[12])>>]
  ELSE [kind |-> "unknown", values |-> <<>>]
\* TempPacket::parse first, parse_alarm_packet second.
try_parse(p) ==
  IF IsTempPacket(p)
  THEN [kind |-> "temp", values |-> <<LeWord(p[13], p[14]), LeWord(p[15], p[16])>>]
  ELSE IF IsAlarmPacket(p)
  THEN [kind |-> "alarm", values |-> <<IF p[9] = 49 THEN 1 ELSE 2, LeWord(p[13], p[14])>>]
  ELSE [kind |-> "unknown", values |-> <<>>]

parse_device_id_bytes(p) == IF Len(p) < 7 THEN None ELSE SubSeq(p, 3, 7)

-----------------------------------------------------------------------------
\* Any framed packet of 14 bytes or more, whatever its checksum, comes back with the
\* direction flipped and a checksum that fits.
Echoable(p) ==
  /\ Len(p) >= 14
  /\ p[1] = START_BYTE /\ p[Len(p)] = END_BYTE /\ p[2] = TYPE_TEMP

Flipped(p) == [p EXCEPT ![10] = IF @ = 0 THEN 1 ELSE 0]

build_echo(p) ==
  IF Echoable(p)
  THEN Sealed(SubSeq(Flipped(p), 2, Len(p) - 2))
  ELSE None
=============================================================================
