--------------------------- MODULE PublisherTypes ---------------------------
(***************************************************************************)
(* The types of the publisher's variables, step by step: what the proofs   *)
(* about the publisher in any surroundings and about the whole bridge have *)
(* in common.                                                              *)
(***************************************************************************)
EXTENDS Publisher, TLAPS, SequenceTheorems

-----------------------------------------------------------------------------
(* Queues and packets *)

\* A bounded queue stays a queue of its elements, within its capacity.
LEMMA PushType ==
  ASSUME NEW S, NEW q \in Seq(S), NEW e \in S, NEW cap \in Nat, Len(q) <= cap
  PROVE  /\ Push(q, e, cap) \in Seq(S)
         /\ Len(Push(q, e, cap)) <= cap
<1>1. CASE Fits(q, cap)
  <2>1. Append(q, e) \in Seq(S) /\ Len(Append(q, e)) = Len(q) + 1
    BY AppendProperties
  <2> QED BY <1>1, <2>1 DEF Push, Fits
<1>2. CASE ~Fits(q, cap)
  BY <1>2 DEF Push
<1> QED BY <1>1, <1>2

\* Taking the head of a bounded queue leaves a bounded queue.
LEMMA TailType ==
  ASSUME NEW S, NEW q \in Seq(S), q # <<>>, NEW cap \in Nat, Len(q) <= cap
  PROVE  /\ Head(q) \in S
         /\ Tail(q) \in Seq(S)
         /\ Len(Tail(q)) <= cap
BY HeadTailProperties

\* What is written on the wire fits the wire.
LEMMA WireType == ASSUME NEW t \in Int PROVE Wire(t) \in WireTemps
BY IOAssumption DEF Wire, WireTemps

LEMMA TempsAreInts == Temps \subseteq Int /\ WireTemps \subseteq Temps /\ 0 \in WireTemps
BY IOAssumption DEF Temps, WireTemps

LEMMA AlarmType == ASSUME NEW c \in Channel, NEW t \in WireTemps PROVE Alarm(c, t) \in Body
BY DEF Body, Alarms

LEMMA AlarmToType ==
  ASSUME NEW a \in Addrs, NEW id \in Ids, NEW c \in Channel, NEW t \in Temps
  PROVE  AlarmTo(a, id, c, t) \in Datagram
<1>1. Wire(t) \in WireTemps
  BY WireType, TempsAreInts
<1>2. Alarm(c, Wire(t)) \in Body
  BY <1>1, AlarmType
<1> QED BY <1>2 DEF AlarmTo, Datagram

LEMMA SendType ==
  ASSUME NEW q \in Seq(Datagram), Len(q) <= FlightCap, NEW d \in Datagram
  PROVE  SendTo(q, d) \in Seq(Datagram) /\ Len(SendTo(q, d)) <= FlightCap
BY PushType, IOAssumption DEF SendTo

\* Pushing setpoints adds datagrams and nothing else.
LEMMA RepushType ==
  ASSUME down \in Seq(Datagram), Len(down) <= FlightCap,
         NEW a \in Addrs, NEW id \in Ids, NEW s \in Setpoints
  PROVE  Repush(a, id, s) \in Seq(Datagram) /\ Len(Repush(a, id, s)) <= FlightCap
<1>0. 1 \in Channel /\ 2 \in Channel
  BY DEF Channel
<1>1. ASSUME NEW q \in Seq(Datagram), Len(q) <= FlightCap, NEW c \in Channel
      PROVE  /\ PushSetpoint(q, a, id, c, s) \in Seq(Datagram)
             /\ Len(PushSetpoint(q, a, id, c, s)) <= FlightCap
  <2>1. s[c] \in Temps
    BY DEF Setpoints
  <2> QED BY <1>1, <2>1, AlarmToType, SendType DEF PushSetpoint
<1>2. DEFINE q1 == PushSetpoint(down, a, id, 1, s)
<1>3. q1 \in Seq(Datagram) /\ Len(q1) <= FlightCap
  BY <1>0, <1>1
<1>4. /\ PushSetpoint(q1, a, id, 2, s) \in Seq(Datagram)
      /\ Len(PushSetpoint(q1, a, id, 2, s)) <= FlightCap
  BY <1>0, <1>1, <1>3
<1> QED BY <1>4 DEF Repush

LEMMA NoAlarmsType == NoAlarms \in Setpoints /\ (PublisherTypeOK => LoadAlarmState \in Setpoints)
<1>1. NoAlarms \in Setpoints
  BY TempsAreInts DEF NoAlarms, Setpoints
<1> QED BY <1>1 DEF PublisherTypeOK, LoadAlarmState

-----------------------------------------------------------------------------
(* Type correctness *)

LEMMA TimersType == PingPeriod \in 0 .. PingPeriod /\ 0 \in 0 .. LongAgo
                    /\ LongAgo \in Nat /\ MaxAge \in Nat
BY PublisherAssumption DEF LongAgo, MaxAge

\* The locals of a new call have their types.
LEMMA FreshType ==
  ASSUME NEW s \in Setpoints, FreshLocals(s)
  PROVE  /\ cmds' \in Seq(Commands) /\ Len(cmds') <= CmdCap
         /\ device_addr' \in Addrs \cup {NoAddr}
         /\ device_id' \in Ids \cup {NoAddr}
         /\ alarm' \in Setpoints
         /\ device_online' \in BOOLEAN
         /\ last_packet' \in 0 .. LongAgo
         /\ ping_in' \in 0 .. PingPeriod
<1>1. cmds' \in Seq(Commands) /\ Len(cmds') = 0
  BY EmptySeq DEF FreshLocals
<1>2. Len(cmds') <= CmdCap
  BY <1>1, PublisherAssumption
<1> QED BY <1>1, <1>2, TimersType DEF FreshLocals

\* So has all that Dropped sets.
LEMMA DroppedType ==
  ASSUME PublisherTypeOK, NEW next \in {"unspawned", "backoff"}, Dropped(next),
         avail' \in {"unset", "online", "offline"}, file' \in Setpoints \cup {Unreadable}
  PROVE  PublisherTypeOK'
<1>1. FreshLocals(NoAlarms)
  BY DEF Dropped
<1>2. /\ phase' \in {"unspawned", "backoff"}
      /\ reader' \in BOOLEAN
      /\ session' \in {"none", "live", "orphan"}
  BY DEF Dropped, PublisherTypeOK
<1> QED BY <1>1, <1>2, FreshType, NoAlarmsType DEF PublisherTypeOK

\* A packet of the channel tells an address, and its alarm a setpoint.
LEMMA PacketType ==
  ASSUME NEW p \in DevicePacket, alarm \in Setpoints
  PROVE  /\ Noted(p) \in Setpoints
         /\ p.direction = "DeviceToCloud" => p.source \in Addrs
         /\ IsReport(p) => p.direction = "DeviceToCloud"
<1>1. p.parsed \in Body
  BY DEF DevicePacket
<1>2. ASSUME p.parsed.kind = "alarm"
      PROVE  p.parsed.channel \in Channel /\ p.parsed.temp \in WireTemps
  BY <1>1, <1>2 DEF Body, Temperature, Keepalive, Noise, Alarms, Alarm
<1>3. Noted(p) \in Setpoints
  BY <1>2, TempsAreInts DEF Noted, Setpoints
<1> QED BY <1>3 DEF IsReport, DevicePacket

\* What the publisher does, and what broker, clock and process do to it.
PublisherStep == Task \/ Failures \/ Commanded \/ Tick \/ SaveFails \/ Crash

\* Every step of the publisher keeps the types.
LEMMA PublisherTypeStep ==
  IOTypeOK /\ PublisherTypeOK /\ PublisherStep => IOTypeOK' /\ PublisherTypeOK'
<1> SUFFICES ASSUME IOTypeOK, PublisherTypeOK, PublisherStep
             PROVE  IOTypeOK' /\ PublisherTypeOK'
  OBVIOUS
<1>1. CASE Spawn
  BY <1>1 DEF Spawn, PublisherTypeOK, IOTypeOK, brokerVars, ioVars
<1>2. CASE Connect
  BY <1>2 DEF Connect, Will, PublisherTypeOK, IOTypeOK, brokerVars, ioVars
<1>3. CASE Announce
  <2>1. FreshLocals(LoadAlarmState) /\ LoadAlarmState \in Setpoints
    BY <1>3, NoAlarmsType DEF Announce
  <2>2. PublisherTypeOK'
    BY <1>3, <2>1, FreshType DEF Announce, Publish, PublisherTypeOK
  <2> QED BY <1>3, <2>2 DEF Announce, IOTypeOK, ioVars
<1>4. CASE Wake
  BY <1>4 DEF Wake, PublisherTypeOK, IOTypeOK, brokerVars, ioVars
<1>5. CASE HandlePacket
  <2> DEFINE p == Head(rx)
  <2>1. /\ p \in DevicePacket
        /\ rx' \in Seq(DevicePacket) /\ Len(rx') <= QueueCap
    BY <1>5, TailType, IOAssumption DEF HandlePacket, IOTypeOK
  <2>2. /\ Noted(p) \in Setpoints
        /\ p.direction = "DeviceToCloud" => p.source \in Addrs
        /\ IsReport(p) => p.direction = "DeviceToCloud"
    BY <2>1, PacketType DEF PublisherTypeOK
  <2>3. /\ device_addr' \in Addrs \cup {NoAddr}
        /\ device_id' \in Ids \cup {NoAddr}
        /\ IsReport(p) => device_addr' \in Addrs /\ device_id' \in Ids
        /\ alarm' \in Setpoints
        /\ last_packet' \in 0 .. LongAgo
    BY <1>5, <2>2, TimersType DEF HandlePacket, PublisherTypeOK, Ids
  <2>4. /\ avail' \in {"unset", "online", "offline"}
        /\ device_online' \in BOOLEAN
    BY <1>5 DEF HandlePacket, PublisherTypeOK, Publish
  <2>5. down' \in Seq(Datagram) /\ Len(down') <= FlightCap
    <3>1. CASE IsReport(p) /\ ~device_online
      <4>1. down' = Repush(device_addr', device_id', alarm')
        BY <1>5, <3>1 DEF HandlePacket
      <4> QED BY <2>3, <3>1, <4>1, RepushType DEF IOTypeOK
    <3>2. CASE ~(IsReport(p) /\ ~device_online)
      BY <1>5, <3>2 DEF HandlePacket, IOTypeOK
    <3> QED BY <3>1, <3>2
  <2>6. alarmLost' \in BOOLEAN
    BY <1>5 DEF HandlePacket, IOTypeOK
  <2> QED
    BY <1>5, <2>1, <2>3, <2>4, <2>5, <2>6 DEF HandlePacket, PublisherTypeOK, IOTypeOK
<1>6. CASE Ping
  BY <1>6, TimersType DEF Ping, GoesOffline, Publish, PublisherTypeOK, IOTypeOK, ioVars
<1>7. CASE ReaderExits
  BY <1>7 DEF ReaderExits, PublisherTypeOK, IOTypeOK, brokerVars, ioVars
<1>8. CASE CmdIgnored
  <2>1. cmds' \in Seq(Commands) /\ Len(cmds') <= CmdCap
    BY <1>8, TailType, PublisherAssumption DEF CmdIgnored, PublisherTypeOK
  <2> QED BY <1>8, <2>1 DEF CmdIgnored, PublisherTypeOK, IOTypeOK, brokerVars, ioVars
<1>9. CASE TakeCmd
  <2> DEFINE c == Head(cmds)[1]
             t == Head(cmds)[2]
  <2>1. /\ cmds' \in Seq(Commands) /\ Len(cmds') <= CmdCap
        /\ Head(cmds) \in Commands
    BY <1>9, TailType, PublisherAssumption DEF TakeCmd, PublisherTypeOK
  <2>2. c \in Channel /\ t \in Temps
    BY <2>1 DEF Commands, Temps
  <2>3. alarm' \in Setpoints
    BY <1>9, <2>2 DEF TakeCmd, PublisherTypeOK, Setpoints
  <2>4. AlarmTo(device_addr, device_id, c, t) \in Datagram
    BY <1>9, <2>2, AlarmToType DEF TakeCmd, PublisherTypeOK
  <2>5. down' \in Seq(Datagram) /\ Len(down') <= FlightCap
    BY <1>9, <2>4, SendType DEF TakeCmd, IOTypeOK
  <2> QED
    BY <1>9, <2>1, <2>3, <2>5 DEF TakeCmd, PublisherTypeOK, IOTypeOK, brokerVars
<1>10. CASE SaveAlarmState
  BY <1>10 DEF SaveAlarmState, PublisherTypeOK, IOTypeOK, brokerVars, ioVars
<1>11. CASE ReaderGone
  BY <1>11, DroppedType DEF ReaderGone, IOTypeOK, ioVars, PublisherTypeOK
<1>12. CASE ConnectFails
  BY <1>12, DroppedType DEF ConnectFails, IOTypeOK, ioVars, PublisherTypeOK
<1>13. CASE AnnounceFails
  BY <1>13, DroppedType DEF AnnounceFails, Publish, IOTypeOK, ioVars, PublisherTypeOK
<1>14. CASE HandlePacketFails
  <2>1. rx' \in Seq(DevicePacket) /\ Len(rx') <= QueueCap
    BY <1>14, TailType, IOAssumption DEF HandlePacketFails, IOTypeOK
  <2>2. PublisherTypeOK'
    BY <1>14, DroppedType DEF HandlePacketFails, Publish, PublisherTypeOK
  <2> QED BY <1>14, <2>1, <2>2 DEF HandlePacketFails, IOTypeOK
<1>15. CASE PingFails
  BY <1>15, DroppedType DEF PingFails, Publish, IOTypeOK, ioVars, PublisherTypeOK
<1>16. CASE LinkBreaks
  BY <1>16 DEF LinkBreaks, PublisherTypeOK, IOTypeOK, taskVars, ioVars
<1>17. CASE SessionEnds
  BY <1>17 DEF SessionEnds, Will, PublisherTypeOK, IOTypeOK, taskVars, ioVars
<1>18. ASSUME NEW c \in CmdChannels, NEW t \in CmdTemps, HaCommand(c, t)
       PROVE  IOTypeOK' /\ PublisherTypeOK'
  <2>1. cmds' \in Seq(Commands) /\ Len(cmds') <= CmdCap
    BY <1>18, PushType, PublisherAssumption DEF HaCommand, PublisherTypeOK, Commands
  <2> QED BY <1>18, <2>1 DEF HaCommand, PublisherTypeOK, IOTypeOK, brokerVars, ioVars
<1>19. CASE Tick
  <2>1. last_packet' \in 0 .. LongAgo /\ ping_in' \in 0 .. PingPeriod
    BY <1>19, TimersType, PublisherAssumption DEF Tick, PublisherTypeOK
  <2> QED BY <1>19, <2>1 DEF Tick, PublisherTypeOK, IOTypeOK, brokerVars, ioVars
<1>20. CASE SaveFails
  BY <1>20 DEF SaveFails, PublisherTypeOK, IOTypeOK, brokerVars, ioVars
<1>21. CASE Crash
  <2>1. PublisherTypeOK'
    BY <1>21, DroppedType DEF Crash, PublisherTypeOK
  <2>2. rx' \in Seq(DevicePacket) /\ Len(rx') <= QueueCap
    BY <1>21, EmptySeq, IOAssumption DEF Crash
  <2> QED BY <1>21, <2>1, <2>2 DEF Crash, IOTypeOK
<1> QED
  BY <1>1, <1>2, <1>3, <1>4, <1>5, <1>6, <1>7, <1>8, <1>9, <1>10, <1>11, <1>12, <1>13,
     <1>14, <1>15, <1>16, <1>17, <1>18, <1>19, <1>20, <1>21
     DEF PublisherStep, Task, Failures, Commanded

LEMMA PublisherInitType == PublisherInit /\ IOInit => IOTypeOK /\ PublisherTypeOK
<1> SUFFICES ASSUME PublisherInit, IOInit PROVE IOTypeOK /\ PublisherTypeOK
  OBVIOUS
<1>1. cmds \in Seq(Commands) /\ Len(cmds) <= CmdCap
  BY EmptySeq, PublisherAssumption DEF PublisherInit
<1>2. IOTypeOK
  <2>1. rx = <<>> /\ down = <<>> /\ alarmLost = FALSE
    BY DEF IOInit
  <2>2. rx \in Seq(DevicePacket) /\ Len(rx) = 0
    BY <2>1, EmptySeq
  <2>3. down \in Seq(Datagram) /\ Len(down) = 0
    BY <2>1, EmptySeq
  <2>4. Len(rx) <= QueueCap /\ Len(down) <= FlightCap
    BY <2>2, <2>3, IOAssumption
  <2>5. alarmLost \in BOOLEAN
    BY <2>1
  <2> QED BY <2>2, <2>3, <2>4, <2>5 DEF IOTypeOK
<1>3. PublisherTypeOK
  BY <1>1, NoAlarmsType, TimersType DEF PublisherInit, PublisherTypeOK
<1> QED BY <1>2, <1>3
=============================================================================
