-------------------------- MODULE PublisherProofs --------------------------
(***************************************************************************)
(* What holds of the publisher for every set of addresses, temperatures,   *)
(* timers and capacities.                                                  *)
(***************************************************************************)
EXTENDS PublisherSpec, PublisherTypes

-----------------------------------------------------------------------------
(* Type correctness *)

\* Every step keeps the types.
LEMMA TypeStep == TypeOK /\ [Next]_vars => TypeOK'
<1> SUFFICES ASSUME TypeOK, [Next]_vars
             PROVE  TypeOK'
  OBVIOUS
<1> USE DEF TypeOK
<1>1. CASE PublisherStep
  BY <1>1, PublisherTypeStep
<1>2. CASE Environment
  <2>1. rx' \in Seq(DevicePacket) /\ Len(rx') <= QueueCap
    <3>1. ASSUME NEW q \in Arrivals PROVE q \in DevicePacket
      BY DEF Arrivals, FromDevice, FromCloud, DevicePacket
    <3>2. CASE UNCHANGED rx
      BY <3>2 DEF IOTypeOK
    <3>3. CASE Ingress
      BY <3>1, <3>3, PushType, IOAssumption DEF Ingress, TrySend, IOTypeOK
    <3> QED BY <1>2, <3>2, <3>3 DEF Environment
  <2>2. down' \in Seq(Datagram) /\ Len(down') <= FlightCap
    <3>1. CASE UNCHANGED down
      BY <3>1 DEF IOTypeOK
    <3>2. CASE Departure
      BY <3>2, TailType, IOAssumption DEF Departure, IOTypeOK
    <3>3. CASE Dispatch
      BY <3>3, SendType, OthersAssumption DEF Dispatch, Datagram, IOTypeOK
    <3> QED BY <1>2, <3>1, <3>2, <3>3 DEF Environment
  <2>3. PublisherTypeOK'
    BY <1>2 DEF Environment, pubVars, taskVars, brokerVars, PublisherTypeOK
  <2> QED BY <1>2, <2>1, <2>2, <2>3 DEF Environment, IOTypeOK
<1>3. CASE UNCHANGED vars
  BY <1>3 DEF vars, pubVars, taskVars, brokerVars, ioVars, PublisherTypeOK, IOTypeOK
<1> QED BY <1>1, <1>2, <1>3 DEF Next, PublisherStep

LEMMA InitType == Init => TypeOK
BY PublisherInitType DEF Init, TypeOK

\* Every variable of the publisher, the channel and the datagrams under way stay
\* within their types, queues within their capacities, timers within their periods.
THEOREM TypeCorrect == Spec => []TypeOK
<1>1. Init => TypeOK
  BY InitType
<1>2. TypeOK /\ [Next]_vars => TypeOK'
  BY TypeStep
<1> QED BY <1>1, <1>2, PTL DEF Spec

-----------------------------------------------------------------------------
(* Availability *)

\* Time spent silent and time left to the next check never exceed what a silence
\* may last undetected: OnlineNeedsTraffic alone forgets how far the next ping is.
SilenceBudget == device_online => last_packet + ping_in <= MaxAge

\* Only a thermometer that has been identified is taken for online: without it the
\* report that identifies one could meet device_online already set.
OnlineIsKnown == device_online => device_id # NoAddr

IInv == TypeOK /\ WillCovers /\ AvailMatchesDevice /\ SilenceBudget /\ OnlineIsKnown

\* What ends a call leaves nothing online behind but an orphan's topic.
LEMMA DroppedInv ==
  ASSUME TypeOK, NEW next \in {"unspawned", "backoff"}, Dropped(next),
         avail' \in {avail, Publish("online"), Publish("offline")}, WillCovers
  PROVE  WillCovers' /\ AvailMatchesDevice' /\ SilenceBudget' /\ OnlineIsKnown'
<1>1. device_online' = FALSE /\ ~Connected'
  BY DEF Dropped, FreshLocals, Connected
<1>2. session' = "none" => session = "none"
  BY DEF Dropped
<1>3. session = "none" => avail' = avail
  BY DEF Publish
<1>4. WillCovers'
  BY <1>2, <1>3 DEF WillCovers
<1> QED BY <1>1, <1>4 DEF AvailMatchesDevice, SilenceBudget, OnlineIsKnown

\* A step that leaves the broker, the timers and the thermometer's flags alone.
LEMMA CalmInv ==
  ASSUME IInv, UNCHANGED <<session, avail, device_online, device_id, last_packet, ping_in>>,
         Connected' => Connected
  PROVE  WillCovers' /\ AvailMatchesDevice' /\ SilenceBudget' /\ OnlineIsKnown'
BY DEF IInv, WillCovers, AvailMatchesDevice, SilenceBudget, OnlineIsKnown

LEMMA InvStep == IInv /\ [Next]_vars => IInv'
<1> SUFFICES ASSUME IInv, [Next]_vars
             PROVE  WillCovers' /\ AvailMatchesDevice' /\ SilenceBudget' /\ OnlineIsKnown'
  BY TypeStep DEF IInv
<1>0. TypeOK /\ PublisherTypeOK /\ WillCovers
  BY DEF IInv, TypeOK
<1>1. CASE Spawn
  BY <1>1, CalmInv DEF Spawn, Connected, brokerVars
<1>2. CASE Connect
  <2>1. session' = "live" /\ ~Connected' /\ UNCHANGED <<device_online, device_id, last_packet, ping_in>>
    BY <1>2 DEF Connect, Connected
  <2> QED
    BY <2>1 DEF IInv, WillCovers, AvailMatchesDevice, SilenceBudget, OnlineIsKnown
<1>3. CASE Announce
  <2>1. device_online' = FALSE /\ device_id' = NoAddr /\ session' = session
    BY <1>3 DEF Announce, FreshLocals
  <2>2. WillCovers'
    BY <1>0, <1>3, <2>1 DEF Announce, Publish, WillCovers
  <2> QED BY <2>1, <2>2 DEF AvailMatchesDevice, SilenceBudget, OnlineIsKnown
<1>4. CASE Wake
  BY <1>4, CalmInv DEF Wake, Connected, brokerVars
<1>5. CASE HandlePacket
  <2>1. /\ UNCHANGED <<phase, session, ping_in>>
        /\ last_packet' = 0
        /\ device_id # NoAddr => device_id' = device_id
    BY <1>5 DEF HandlePacket
  <2>2. SilenceBudget'
    BY <1>0, <2>1, PublisherAssumption DEF SilenceBudget, MaxAge, PublisherTypeOK
  <2>3. CASE IsReport(Head(rx)) /\ ~device_online
    <3>1. device_online' = TRUE /\ avail' = Publish("online")
      BY <1>5, <2>3 DEF HandlePacket
    <3>2. Head(rx) \in DevicePacket
      BY <1>0, <1>5, TailType, IOAssumption DEF HandlePacket, TypeOK, IOTypeOK
    <3>3. device_id' # NoAddr
      BY <1>5, <2>3, <3>2, PacketType, <1>0, IOAssumption DEF HandlePacket, PublisherTypeOK
    <3>4. WillCovers' /\ AvailMatchesDevice'
      BY <1>0, <2>1, <3>1 DEF Publish, WillCovers, AvailMatchesDevice
    <3> QED BY <2>2, <3>1, <3>3, <3>4 DEF OnlineIsKnown
  <2>4. CASE ~(IsReport(Head(rx)) /\ ~device_online)
    <3>1. UNCHANGED <<avail, device_online>>
      BY <1>5, <2>4 DEF HandlePacket
    <3>2. device_id' # device_id => device_online
      BY <1>5, <2>4 DEF HandlePacket
    <3>3. device_id' = device_id
      BY <2>1, <3>2 DEF IInv, OnlineIsKnown
    <3> QED
      BY <2>1, <2>2, <3>1, <3>3
         DEF IInv, Connected, WillCovers, AvailMatchesDevice, OnlineIsKnown
  <2> QED BY <2>3, <2>4
<1>6. CASE Ping
  <2>1. UNCHANGED <<phase, session, device_id, last_packet>> /\ ping_in' = PingPeriod
    BY <1>6 DEF Ping
  <2>2. CASE Stale
    <3>1. device_online' = FALSE /\ avail' = Publish("offline")
      BY <1>6, <2>2 DEF Ping, GoesOffline
    <3> QED
      BY <1>0, <2>1, <3>1
         DEF Publish, WillCovers, AvailMatchesDevice, SilenceBudget, OnlineIsKnown
  <2>3. CASE ~Stale
    <3>1. UNCHANGED <<avail, device_online>>
      BY <1>6, <2>3 DEF Ping
    <3>2. SilenceBudget'
      BY <1>0, <2>1, <2>3, <3>1, PublisherAssumption
         DEF Stale, SilenceBudget, MaxAge, LongAgo, PublisherTypeOK
    <3> QED
      BY <2>1, <3>1, <3>2 DEF IInv, Connected, WillCovers, AvailMatchesDevice, OnlineIsKnown
  <2> QED BY <2>2, <2>3
<1>7. CASE ReaderExits
  BY <1>7, CalmInv DEF ReaderExits, Connected, brokerVars
<1>8. CASE CmdIgnored
  BY <1>8, CalmInv DEF CmdIgnored, Connected, brokerVars
<1>9. CASE TakeCmd
  BY <1>9, CalmInv DEF TakeCmd, Connected, brokerVars
<1>10. CASE SaveAlarmState
  BY <1>10, CalmInv DEF SaveAlarmState, Connected, brokerVars
<1>11. CASE ReaderGone
  BY <1>0, <1>11, DroppedInv DEF ReaderGone
<1>12. CASE ConnectFails
  BY <1>0, <1>12, DroppedInv DEF ConnectFails
<1>13. CASE AnnounceFails
  BY <1>0, <1>13, DroppedInv DEF AnnounceFails
<1>14. CASE HandlePacketFails
  BY <1>0, <1>14, DroppedInv DEF HandlePacketFails
<1>15. CASE PingFails
  BY <1>0, <1>15, DroppedInv DEF PingFails
<1>16. CASE LinkBreaks
  BY <1>16 DEF LinkBreaks, taskVars, IInv, Connected,
               WillCovers, AvailMatchesDevice, SilenceBudget, OnlineIsKnown
<1>17. CASE SessionEnds
  BY <1>17 DEF SessionEnds, Will, taskVars, IInv, Connected,
               WillCovers, AvailMatchesDevice, SilenceBudget, OnlineIsKnown
<1>18. ASSUME NEW c \in CmdChannels, NEW t \in CmdTemps, HaCommand(c, t)
       PROVE  WillCovers' /\ AvailMatchesDevice' /\ SilenceBudget' /\ OnlineIsKnown'
  BY <1>18, CalmInv DEF HaCommand, Connected, brokerVars
<1>19. CASE Tick
  <2>1. UNCHANGED <<phase, session, avail, device_online, device_id>>
    BY <1>19 DEF Tick, brokerVars
  <2>2. SilenceBudget'
    BY <1>0, <1>19, <2>1, PublisherAssumption
       DEF Tick, IInv, SilenceBudget, MaxAge, LongAgo, PublisherTypeOK
  <2> QED
    BY <2>1, <2>2 DEF IInv, Connected, WillCovers, AvailMatchesDevice, OnlineIsKnown
<1>20. CASE SaveFails
  BY <1>20, CalmInv DEF SaveFails, Connected, brokerVars
<1>21. CASE Crash
  BY <1>0, <1>21, DroppedInv DEF Crash
<1>22. CASE Environment
  BY <1>22, CalmInv DEF Environment, pubVars, taskVars, brokerVars, Connected
<1>23. CASE UNCHANGED vars
  BY <1>23, CalmInv DEF vars, pubVars, taskVars, brokerVars, Connected
<1> QED
  BY <1>1, <1>2, <1>3, <1>4, <1>5, <1>6, <1>7, <1>8, <1>9, <1>10, <1>11, <1>12, <1>13,
     <1>14, <1>15, <1>16, <1>17, <1>18, <1>19, <1>20, <1>21, <1>22, <1>23
     DEF Next, Task, Failures, Commanded

LEMMA InvInductive == Spec => []IInv
<1>1. Init => IInv
  <2> SUFFICES ASSUME Init PROVE IInv
    OBVIOUS
  <2>1. TypeOK
    BY InitType
  <2>2. device_online = FALSE /\ avail = "unset" /\ device_id = NoAddr
    BY DEF Init, PublisherInit
  <2> QED
    BY <2>1, <2>2 DEF IInv, WillCovers, AvailMatchesDevice, SilenceBudget, OnlineIsKnown
<1>2. IInv /\ [Next]_vars => IInv'
  BY InvStep
<1> QED BY <1>1, <1>2, PTL DEF Spec

\* On a connection the broker serves, and once a thermometer was heard on it, "online" is
\* shown only when a packet of somebody (thermometer, cloud or stranger) was taken within
\* the stale timeout and one ping interval, for every choice of the two periods.
THEOREM OnlineByTraffic == Spec => []OnlineNeedsTraffic
<1>1. IInv => OnlineNeedsTraffic
  <2> SUFFICES ASSUME IInv, Connected, session = "live", device_id # NoAddr, avail = "online"
               PROVE  last_packet <= MaxAge
    BY DEF OnlineNeedsTraffic
  <2>1. device_online
    BY DEF IInv, AvailMatchesDevice
  <2>2. last_packet + ping_in <= MaxAge
    BY <2>1 DEF IInv, SilenceBudget
  <2> QED
    BY <2>2, PublisherAssumption DEF IInv, TypeOK, PublisherTypeOK, MaxAge, LongAgo
<1> QED BY <1>1, InvInductive, PTL

\* What Home Assistant is shown is what the task decides by.
THEOREM ShownAsHeld == Spec => []AvailMatchesDevice
<1>1. IInv => AvailMatchesDevice
  BY DEF IInv
<1> QED BY <1>1, InvInductive, PTL

\* No way of losing a connection leaves "online" behind at the broker.
THEOREM WillAlwaysCovers == Spec => []WillCovers
<1>1. IInv => WillCovers
  BY DEF IInv
<1> QED BY <1>1, InvInductive, PTL

-----------------------------------------------------------------------------
(* Re-pushing *)

\* What a queue that had room was given is in it, and what was in it stays.
LEMMA PushKeeps ==
  ASSUME NEW S, NEW q \in Seq(S), NEW e \in S, NEW cap \in Nat, Len(q) < cap
  PROVE  /\ Push(q, e, cap)[Len(q) + 1] = e
         /\ Len(Push(q, e, cap)) = Len(q) + 1
         /\ \A i \in 1 .. Len(q) : Push(q, e, cap)[i] = q[i]
BY AppendProperties DEF Push, Fits

\* Pushed setpoints are on their way, each of the positive ones, if both fit.
LEMMA RepushCarries ==
  ASSUME down \in Seq(Datagram), Len(down) <= FlightCap,
         NEW a \in Addrs, NEW id \in Ids, NEW s \in Setpoints, RepushFits(s),
         NEW c \in Channel, s[c] > 0
  PROVE  \E i \in 1 .. Len(Repush(a, id, s)) :
           Repush(a, id, s)[i] = AlarmTo(a, id, c, s[c])
<1> DEFINE q1 == PushSetpoint(down, a, id, 1, s)
           q2 == PushSetpoint(q1, a, id, 2, s)
<1>0. /\ 1 \in Channel /\ 2 \in Channel /\ (c = 1 \/ c = 2)
      /\ s[1] \in Temps /\ s[2] \in Temps
  BY DEF Channel, Setpoints
<1>1. /\ AlarmTo(a, id, 1, s[1]) \in Datagram
      /\ AlarmTo(a, id, 2, s[2]) \in Datagram
  BY <1>0, AlarmToType
<1>2. s[1] \in Int /\ s[2] \in Int /\ Len(down) \in Nat /\ FlightCap \in Nat
  BY <1>0, TempsAreInts, IOAssumption, LenProperties
<1>3. Repush(a, id, s) = q2
  BY DEF Repush
<1> DEFINE n1 == IF s[1] > 0 THEN 1 ELSE 0
           n2 == IF s[2] > 0 THEN 1 ELSE 0
<1>4. /\ Len(down) + n1 + n2 <= FlightCap
      /\ n1 \in {0, 1} /\ (s[1] > 0 => n1 = 1)
      /\ n2 \in {0, 1} /\ (s[2] > 0 => n2 = 1)
  BY DEF RepushFits
<1> HIDE DEF n1, n2
<1>5. CASE c = 1
  <2>1. n1 = 1 /\ Len(down) < FlightCap
    <3>1. s[1] > 0
      BY <1>5
    <3> QED BY <1>2, <1>4, <3>1
  <2>2. /\ q1 = Push(down, AlarmTo(a, id, 1, s[1]), FlightCap)
        /\ q1[Len(down) + 1] = AlarmTo(a, id, 1, s[1])
        /\ q1 \in Seq(Datagram) /\ Len(q1) = Len(down) + 1
    BY <1>1, <1>2, <1>5, <2>1, PushKeeps, PushType DEF PushSetpoint, SendTo
  <2>3. CASE s[2] > 0
    <3>1. Len(q1) < FlightCap
      BY <1>2, <1>4, <2>1, <2>2, <2>3
    <3>2. /\ q2 = Push(q1, AlarmTo(a, id, 2, s[2]), FlightCap)
          /\ Len(q2) = Len(q1) + 1
          /\ q2[Len(down) + 1] = q1[Len(down) + 1]
      BY <1>1, <1>2, <2>2, <2>3, <3>1, PushKeeps DEF PushSetpoint, SendTo
    <3> QED BY <1>2, <1>3, <1>5, <2>2, <3>2
  <2>4. CASE ~(s[2] > 0)
    <3>1. q2 = q1
      BY <2>4 DEF PushSetpoint
    <3> QED BY <1>2, <1>3, <1>5, <2>2, <3>1
  <2> QED BY <2>3, <2>4
<1>6. CASE c = 2
  <2>0. s[2] > 0
    BY <1>6
  <2>1. q1 \in Seq(Datagram) /\ Len(q1) \in Nat /\ Len(q1) < FlightCap
    <3>1. CASE s[1] > 0
      <4>1. Len(down) < FlightCap /\ Len(down) + 1 < FlightCap
        BY <1>2, <1>4, <2>0, <3>1
      <4>2. q1 = Push(down, AlarmTo(a, id, 1, s[1]), FlightCap)
        BY <3>1 DEF PushSetpoint, SendTo
      <4> QED BY <1>1, <1>2, <4>1, <4>2, PushKeeps, PushType
    <3>2. CASE ~(s[1] > 0)
      <4>1. q1 = down
        BY <3>2 DEF PushSetpoint
      <4> QED BY <1>2, <1>4, <2>0, <3>2, <4>1
    <3> QED BY <3>1, <3>2
  <2>2. q2 = Push(q1, AlarmTo(a, id, 2, s[2]), FlightCap)
    BY <1>6 DEF PushSetpoint, SendTo
  <2>3. q2[Len(q1) + 1] = AlarmTo(a, id, 2, s[2]) /\ Len(q2) = Len(q1) + 1
    BY <1>1, <1>2, <2>1, <2>2, PushKeeps
  <2> QED BY <1>3, <1>6, <2>1, <2>3
<1> QED BY <1>0, <1>5, <1>6

\* Only a temperature report turns the thermometer from offline to online.
LEMMA OnlineByReport ==
  ASSUME Next, ~device_online, device_online'
  PROVE  HandlePacket /\ IsReport(Head(rx))
BY DEF Next, Task, Failures, Commanded, Spawn, Connect, Announce, Wake, HandlePacket, Ping, GoesOffline,
       ReaderExits, CmdIgnored, TakeCmd, SaveAlarmState, ReaderGone, ConnectFails,
       AnnounceFails, HandlePacketFails, PingFails, LinkBreaks, SessionEnds, HaCommand,
       Tick, SaveFails, Crash, Environment, Dropped, FreshLocals, pubVars, taskVars

\* A thermometer that is back gets the positive setpoints at the address it reports
\* from, whatever addresses, ids, temperatures and capacities there are.
THEOREM BackGetsSetpoints == Spec => RepushOnReturn
<1>1. TypeOK /\ TypeOK' /\ [Next]_vars => [Repushed]_vars
  <2> SUFFICES ASSUME TypeOK, TypeOK', Next, ~device_online, device_online',
                      RepushFits(alarm'), NEW c \in Channel, alarm'[c] > 0
               PROVE  \E i \in 1 .. Len(down') :
                        down'[i] = AlarmTo(Head(rx).source, device_id', c, alarm'[c])
    BY DEF Repushed
  <2> DEFINE p == Head(rx)
  <2>1. HandlePacket /\ IsReport(p)
    BY OnlineByReport
  <2>2. p \in DevicePacket
    BY <2>1, TailType, IOAssumption DEF HandlePacket, TypeOK, IOTypeOK
  <2>3. p.source \in Addrs
    BY <2>1, <2>2, PacketType DEF TypeOK, PublisherTypeOK
  <2>4. device_addr' = p.source /\ device_id' \in Ids
    BY <2>1, <2>3 DEF HandlePacket, IsReport, TypeOK, PublisherTypeOK, Ids
  <2>5. down' = Repush(device_addr', device_id', alarm')
    BY <2>1 DEF HandlePacket
  <2>6. alarm' \in Setpoints
    BY DEF TypeOK, PublisherTypeOK
  <2> QED BY <2>3, <2>4, <2>5, <2>6, RepushCarries DEF TypeOK, IOTypeOK
<1> QED BY <1>1, TypeCorrect, PTL DEF Spec, RepushOnReturn
=============================================================================
