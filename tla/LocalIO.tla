------------------------------ MODULE LocalIO ------------------------------
(***************************************************************************)
(* What the UDP loop and the MQTT publisher of `local monitor` and         *)
(* `local proxy` share: the bounded channel of parsed packets that the UDP *)
(* loop fills and the publisher drains (rx), and the datagrams both of     *)
(* them send to the thermometer and that are still in flight (down).       *)
(*                                                                         *)
(* Temperatures are integers in tenths of a degree, the grid of the wire   *)
(* format; 0 is "no alarm".                                                *)
(***************************************************************************)
EXTENDS Integers, Sequences

CONSTANTS
  Addrs,        \* addresses datagrams can come from on the listening port
  NoAddr,       \* no address yet (None)
  CloudAddr,    \* the address of the vendor cloud
  CmdTemps,     \* setpoints Home Assistant may send: any f64, not only what fits the wire
  WireMax,      \* largest value of the u16 temperature field (65535)
  QueueCap,     \* capacity of the packet channel (64)
  FlightCap     \* bound: datagrams in flight in one direction, more are lost

ASSUME IOAssumption ==
  /\ NoAddr \notin Addrs
  /\ CloudAddr \notin Addrs \cup {NoAddr}
  /\ CmdTemps \subseteq Int
  /\ WireMax \in Nat
  /\ QueueCap \in Nat \ {0}
  /\ FlightCap \in Nat \ {0}

VARIABLES
  rx,           \* the packet channel, oldest first
  down,         \* datagrams from this host to the thermometer, oldest first
  alarmLost     \* history: has an alarm packet been dropped anywhere?

ioVars == <<rx, down, alarmLost>>

-----------------------------------------------------------------------------
Channel   == 1 .. 2
WireTemps == 0 .. WireMax
Temps     == CmdTemps \cup WireTemps

\* `(temp_celsius * 10.0) as u16` saturates at both ends of the u16 range.
Wire(t) == IF t < 0 THEN 0 ELSE IF t > WireMax THEN WireMax ELSE t

\* One thermometer per address, so an address also stands for the five id bytes
\* of the thermometer behind it.
Ids == Addrs

\* What a datagram is, once parsed: a temperature report, an alarm setpoint
\* (the command and its acknowledgement look the same), a keepalive, or noise.
Temperature == [kind |-> "temp",      channel |-> 0, temp |-> 0]
Keepalive   == [kind |-> "keepalive", channel |-> 0, temp |-> 0]
Noise       == [kind |-> "noise",     channel |-> 0, temp |-> 0]
Alarm(c, t) == [kind |-> "alarm",     channel |-> c, temp |-> t]

Alarms == {Alarm(c, t) : c \in Channel, t \in WireTemps}
Body   == {Temperature, Keepalive, Noise} \cup Alarms

DevicePacket == [direction : {"DeviceToCloud"}, source : Addrs, parsed : Body]
                  \cup [direction : {"CloudToDevice"}, source : {CloudAddr}, parsed : Body]
Datagram     == [to : Addrs, id : Ids, body : Body]

FromDevice(a, b) == [direction |-> "DeviceToCloud", source |-> a, parsed |-> b]
FromCloud(b)     == [direction |-> "CloudToDevice", source |-> CloudAddr, parsed |-> b]

-----------------------------------------------------------------------------
\* A bounded queue that drops what does not fit: the channel's try_send, and a
\* datagram socket whose buffer is full.
Fits(q, cap)    == Len(q) < cap
PushUnbounded(q, e, cap) == Append(q, e)   \* mutant: an unbounded channel
Push(q, e, cap) == IF Fits(q, cap) THEN Append(q, e) ELSE q

TrySend(pkt) == Push(rx, pkt, QueueCap)
SendTo(q, d) == Push(q, d, FlightCap)

IOTypeOK ==
  /\ rx \in Seq(DevicePacket)
  /\ Len(rx) <= QueueCap
  /\ down \in Seq(Datagram)
  /\ Len(down) <= FlightCap
  /\ alarmLost \in BOOLEAN

IOInit ==
  /\ rx = <<>>
  /\ down = <<>>
  /\ alarmLost = FALSE
=============================================================================
