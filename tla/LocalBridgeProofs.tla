------------------------- MODULE LocalBridgeProofs -------------------------
(***************************************************************************)
(* What holds of the whole bridge in both modes and under every fault, for *)
(* all sets of addresses and temperatures and all capacities: its types,   *)
(* and that it is a publisher in the surroundings PublisherSpec allows.    *)
(***************************************************************************)
EXTENDS LocalBridge, PublisherTypes, LinkLemmas

-----------------------------------------------------------------------------
(* The types of the whole *)

\* The two parts of a step, by name.
LEMMA PartIsPublisherStep == PublisherPart => PublisherStep
BY DEF PublisherPart, PublisherStep, Task, Failures, Commanded

LEMMA PartIsLinkStep ==
  LinkPart => \/ Serve \/ Firmware \/ FromTheCloud \/ Losses
              \/ \E a \in Addrs : SwitchOn(a) \/ SwitchOff(a)
BY DEF LinkPart, LostOnIt, Losses

\* Every step keeps the types of both parts.
LEMMA BridgeTypeStep == BridgeTypeOK /\ [Next]_bridgeVars => BridgeTypeOK'
<1> SUFFICES ASSUME BridgeTypeOK, [Next]_bridgeVars
             PROVE  BridgeTypeOK'
  OBVIOUS
<1> USE DEF BridgeTypeOK
<1>1. Next => unnoticed' \in BOOLEAN /\ dark' \in 0 .. LongAgo
  <2>1. Next => unnoticed' \in BOOLEAN
    BY DEF Next, Observed, Noticed
  <2>2. LongAgo \in Nat
    BY PublisherAssumption DEF LongAgo, MaxAge
  <2>3. dark' \in {0, dark} \/ (dark < LongAgo /\ dark' = dark + 1) \/ ~Next
    BY DEF Next, Observed
  <2>4. Next => dark' \in 0 .. LongAgo
    BY <2>2, <2>3
  <2> QED BY <2>1, <2>4
<1>2. CASE PublisherPart /\ Next
  <2>1. IOTypeOK' /\ PublisherTypeOK'
    BY <1>2, PartIsPublisherStep, PublisherTypeStep
  <2>2. LinkTypeOK'
    BY <1>2 DEF PublisherPart, linkVars, deviceVars, LinkTypeOK
  <2> QED BY <1>1, <1>2, <2>1, <2>2
<1>3. CASE LinkPart /\ Next
  <2>1. IOTypeOK' /\ LinkTypeOK'
    BY <1>3, PartIsLinkStep, LinkTypeStep
  <2>2. PublisherTypeOK'
    BY <1>3 DEF LinkPart, pubVars, taskVars, brokerVars, PublisherTypeOK
  <2> QED BY <1>1, <1>3, <2>1, <2>2
<1>4. CASE ProcessStops /\ Next
  <2>1. IOTypeOK' /\ PublisherTypeOK'
    BY <1>4, PublisherTypeStep DEF ProcessStops, PublisherStep
  <2>2. LinkTypeOK'
    BY <1>4 DEF ProcessStops, StopLoop, deviceVars, LinkTypeOK
  <2> QED BY <1>1, <1>4, <2>1, <2>2
<1>5. CASE UNCHANGED bridgeVars
  BY <1>5 DEF bridgeVars, pubVars, taskVars, brokerVars, linkVars, deviceVars, ioVars,
              PublisherTypeOK, LinkTypeOK, IOTypeOK
<1> QED BY <1>2, <1>3, <1>4, <1>5 DEF Next

\* The initial states have them.
LEMMA BridgeInitType == Init => BridgeTypeOK
<1> SUFFICES ASSUME Init PROVE BridgeTypeOK
  OBVIOUS
<1>1. PublisherTypeOK
  BY PublisherInitType DEF Init
<1>2. IOTypeOK /\ LinkTypeOK
  BY LinkInitTypes DEF Init
<1>3. dark \in 0 .. LongAgo
  BY PublisherAssumption DEF Init, LongAgo, MaxAge
<1> QED BY <1>1, <1>2, <1>3 DEF Init, BridgeTypeOK

\* In monitor and proxy, whatever fails: every variable of the bridge stays within its
\* type, the packet channel, the command channel and the sockets within their
\* capacities, and what a thermometer is sent addresses a thermometer.
THEOREM BridgeTypeCorrect == Spec => []BridgeTypeOK
<1>1. Init => BridgeTypeOK
  BY BridgeInitType
<1>2. BridgeTypeOK /\ [Next]_bridgeVars => BridgeTypeOK'
  BY BridgeTypeStep
<1> QED BY <1>1, <1>2, PTL DEF Spec

-----------------------------------------------------------------------------
(* Agreement, with one thermometer and without the cloud.                  *)
(*                                                                         *)
(* An alarm packet on its way will overwrite what it meets: a datagram to  *)
(* the thermometer the setpoint in force, the acknowledgement it causes    *)
(* what the publisher holds. So the two need not agree before the last of  *)
(* them has arrived; what agrees at any time is the last acknowledgement   *)
(* of the queue nearest to the thermometer with what is in force there,    *)
(* once no datagram to the thermometer can change that any more.           *)

\* The alarm packets for channel c, in each of the queues.
SetsChannel(b, c) == IsAlarm(b) /\ b.channel = c
InRx(c)   == {p \in DevicePacket : SetsChannel(p.parsed, c)}
InUp(c)   == {d \in UpDatagram : SetsChannel(d.body, c)}
InDown(c) == {d \in Datagram : SetsChannel(d.body, c)}

InForceNow(c) == devAlarm[Thermometer][c]

UpAgrees(c) == LastIn(up, InUp(c), {d \in UpDatagram : d.body.temp = InForceNow(c)})
RxAgrees(c) == LastIn(rx, InRx(c), {p \in DevicePacket : p.parsed.temp = InForceNow(c)})
HeldAgrees(c) == device_online /\ alarm[c] > 0 => InForce(Thermometer, c)

\* The nearest queue that holds an alarm packet of the channel decides what agrees.
Converges(c) ==
  NoneIn(down, InDown(c)) =>
    /\ UpAgrees(c)
    /\ NoneIn(up, InUp(c)) =>
         /\ RxAgrees(c)
         /\ NoneIn(rx, InRx(c)) => HeldAgrees(c)

AgreementInv == ~alarmLost /\ ~unnoticed => \A c \in Channel : Converges(c)

-----------------------------------------------------------------------------
(* What sending a datagram or a setpoint does to the alarm packets on their way *)

LEMMA SentAlarm ==
  ASSUME NEW q \in Seq(Datagram), Len(q) <= FlightCap, NEW d \in Datagram, NEW c \in Channel
  PROVE  /\ NoneIn(SendTo(q, d), InDown(c)) => NoneIn(q, InDown(c))
         /\ d \notin InDown(c) => (NoneIn(SendTo(q, d), InDown(c)) <=> NoneIn(q, InDown(c)))
         /\ d \in InDown(c) /\ Fits(q, FlightCap) => ~NoneIn(SendTo(q, d), InDown(c))
         /\ Len(SendTo(q, d)) = Len(q) + IF Fits(q, FlightCap) THEN 1 ELSE 0
<1>1. CASE Fits(q, FlightCap)
  <2>1. SendTo(q, d) = Append(q, d)
    BY <1>1 DEF SendTo, Push
  <2> QED BY <1>1, <2>1, NoneAppend, AppendProperties
<1>2. CASE ~Fits(q, FlightCap)
  <2>1. SendTo(q, d) = q
    BY <1>2 DEF SendTo, Push
  <2> QED BY <1>2, <2>1, LenProperties
<1> QED BY <1>1, <1>2

\* An alarm packet for channel k is one of InDown(k) and of no other channel.
LEMMA AlarmToSets ==
  ASSUME NEW a \in Addrs, NEW id \in Ids, NEW k \in Channel, NEW t \in Temps, NEW c \in Channel
  PROVE  AlarmTo(a, id, k, t) \in InDown(c) <=> c = k
<1>1. AlarmTo(a, id, k, t) \in Datagram
  BY AlarmToType
<1>2. AlarmTo(a, id, k, t).body = Alarm(k, Wire(t))
  BY DEF AlarmTo
<1> QED BY <1>1, <1>2 DEF InDown, SetsChannel, IsAlarm, Alarm

LEMMA PushedSetpoint ==
  ASSUME NEW q \in Seq(Datagram), Len(q) <= FlightCap, NEW a \in Addrs, NEW id \in Ids,
         NEW k \in Channel, NEW s \in Setpoints, NEW c \in Channel
  PROVE  LET r == PushSetpoint(q, a, id, k, s) IN
         /\ r \in Seq(Datagram) /\ Len(r) <= FlightCap
         /\ NoneIn(r, InDown(c)) => NoneIn(q, InDown(c))
         /\ s[k] > 0 /\ Len(q) < FlightCap => ~NoneIn(r, InDown(k))
         /\ Len(r) <= Len(q) + IF s[k] > 0 THEN 1 ELSE 0
<1>1. s[k] \in Temps
  BY DEF Setpoints
<1>2. AlarmTo(a, id, k, s[k]) \in Datagram
  BY <1>1, AlarmToType
<1>3. CASE s[k] > 0
  <2>1. PushSetpoint(q, a, id, k, s) = SendTo(q, AlarmTo(a, id, k, s[k]))
    BY <1>3 DEF PushSetpoint
  <2>2. AlarmTo(a, id, k, s[k]) \in InDown(k)
    BY <1>1, AlarmToSets
  <2> QED BY <1>2, <1>3, <2>1, <2>2, SentAlarm, SendType, LenProperties DEF Fits
<1>4. CASE ~(s[k] > 0)
  <2>1. PushSetpoint(q, a, id, k, s) = q
    BY <1>4 DEF PushSetpoint
  <2> QED BY <1>4, <2>1, LenProperties
<1> QED BY <1>3, <1>4

\* When both setpoints fit, each positive one is on its way.
LEMMA Repushed ==
  ASSUME IOTypeOK, NEW a \in Addrs, NEW id \in Ids, NEW s \in Setpoints, NEW c \in Channel
  PROVE  /\ NoneIn(Repush(a, id, s), InDown(c)) => NoneIn(down, InDown(c))
         /\ RepushFits(s) /\ s[c] > 0 => ~NoneIn(Repush(a, id, s), InDown(c))
<1> DEFINE q == PushSetpoint(down, a, id, 1, s)
           r == PushSetpoint(q, a, id, 2, s)
<1>0. 1 \in Channel /\ 2 \in Channel /\ (c = 1 \/ c = 2)
  BY DEF Channel
<1>1. /\ q \in Seq(Datagram) /\ Len(q) <= FlightCap
      /\ NoneIn(q, InDown(c)) => NoneIn(down, InDown(c))
      /\ s[1] > 0 /\ Len(down) < FlightCap => ~NoneIn(q, InDown(1))
      /\ Len(q) <= Len(down) + IF s[1] > 0 THEN 1 ELSE 0
  BY <1>0, PushedSetpoint DEF IOTypeOK
<1>2. /\ NoneIn(r, InDown(c)) => NoneIn(q, InDown(c))
      /\ s[2] > 0 /\ Len(q) < FlightCap => ~NoneIn(r, InDown(2))
  <2> HIDE DEF q
  <2> QED BY <1>0, <1>1, PushedSetpoint
<1>3. Repush(a, id, s) = r
  BY DEF Repush
<1>4. Len(down) \in Nat /\ Len(q) \in Nat /\ FlightCap \in Nat
  BY <1>1, LenProperties, IOAssumption DEF IOTypeOK
<1> HIDE DEF q, r
<1>5. ASSUME RepushFits(s), s[c] > 0 PROVE ~NoneIn(r, InDown(c))
  <2> DEFINE n(k) == IF s[k] > 0 THEN 1 ELSE 0
  <2>1. /\ Len(down) + n(1) + n(2) <= FlightCap
        /\ Len(q) <= Len(down) + n(1)
    BY <1>1, <1>5 DEF RepushFits
  <2>2. n(1) \in {0, 1} /\ n(2) \in {0, 1} /\ n(c) = 1
    BY <1>5
  <2> HIDE DEF n
  <2>3. CASE c = 1
    <3>1. Len(down) < FlightCap
      BY <1>4, <2>1, <2>2, <2>3
    <3> QED BY <1>1, <1>2, <1>5, <2>3, <3>1
  <2>4. CASE c = 2
    <3>1. Len(q) < FlightCap
      BY <1>4, <2>1, <2>2, <2>4
    <3> QED BY <1>2, <1>5, <2>4, <3>1
  <2> QED BY <1>0, <2>3, <2>4
<1> QED BY <1>1, <1>2, <1>3, <1>5

-----------------------------------------------------------------------------
(* One step after the other: a channel still converges, unless an alarm packet was lost *)

OneThermometer == Mode = "monitor" /\ Addrs = {Thermometer}

LEMMA QuietConverges ==
  ASSUME NEW c \in Channel, Converges(c), UNCHANGED <<rx, up, down, devAlarm>>,
         device_online' => device_online /\ alarm' = alarm
  PROVE  Converges(c)'
BY DEF Converges, UpAgrees, RxAgrees, HeldAgrees, InForce, InForceNow

\* Nothing is on its way and the thermometer counts as offline.
LEMMA NoticedConverges ==
  ASSUME NEW c \in Channel, Noticed'
  PROVE  Converges(c)'
<1>1. rx' = <<>> /\ up' = <<>> /\ ~device_online'
  BY DEF Noticed, QueuesEmpty
<1>2. NoneIn(rx', InRx(c)) /\ NoneIn(up', InUp(c))
  BY <1>1 DEF NoneIn
<1>3. UpAgrees(c)' /\ RxAgrees(c)'
  BY <1>2, LastOfNone DEF UpAgrees, RxAgrees
<1> QED BY <1>1, <1>3 DEF Converges, HeldAgrees

LEMMA CrashConverges ==
  ASSUME NEW c \in Channel, Converges(c), Crash, StopLoop
  PROVE  Converges(c)'
<1>1. rx' = <<>> /\ ~device_online' /\ UNCHANGED <<down, up, devAlarm>>
  BY DEF Crash, Dropped, FreshLocals, StopLoop, deviceVars
<1>2. NoneIn(rx', InRx(c))
  BY <1>1 DEF NoneIn
<1>3. RxAgrees(c)'
  BY <1>2, LastOfNone DEF RxAgrees
<1> QED BY <1>1, <1>3 DEF Converges, UpAgrees, HeldAgrees, InForceNow

LEMMA HandlePacketFailsConverges ==
  ASSUME NEW c \in Channel, BridgeTypeOK, Converges(c), HandlePacketFails, UNCHANGED linkVars
  PROVE  Converges(c)'
<1>1. /\ rx \in Seq(DevicePacket) /\ rx # <<>> /\ rx' = Tail(rx)
      /\ ~device_online' /\ UNCHANGED <<down, up, devAlarm>>
  BY DEF HandlePacketFails, Dropped, FreshLocals, linkVars, deviceVars, BridgeTypeOK, IOTypeOK
<1>2. RxAgrees(c) => RxAgrees(c)'
  BY <1>1, LastTail DEF RxAgrees, InForceNow
<1> QED BY <1>1, <1>2 DEF Converges, UpAgrees, HeldAgrees, InForceNow

LEMMA HandlePacketConverges ==
  ASSUME NEW c \in Channel, BridgeTypeOK, Converges(c), ~alarmLost',
         HandlePacket, UNCHANGED linkVars
  PROVE  Converges(c)'
<1> DEFINE p == Head(rx)
<1>1. /\ rx \in Seq(DevicePacket) /\ rx # <<>> /\ rx' = Tail(rx) /\ p \in DevicePacket
      /\ alarm \in Setpoints /\ alarm' = Noted(p) /\ alarm' \in Setpoints
      /\ UNCHANGED <<up, devAlarm>>
  <2>1. rx \in Seq(DevicePacket) /\ rx # <<>> /\ rx' = Tail(rx) /\ alarm' = Noted(p)
    BY DEF HandlePacket, BridgeTypeOK, IOTypeOK
  <2>2. p \in DevicePacket /\ alarm \in Setpoints
    BY <2>1, HeadTailProperties DEF BridgeTypeOK, PublisherTypeOK
  <2>3. Noted(p) \in Setpoints
    BY <2>2, PacketType
  <2> QED BY <2>1, <2>2, <2>3 DEF linkVars, deviceVars
<1>2. CASE IsReport(p) /\ ~device_online
  <2>1. /\ down' = Repush(device_addr', device_id', alarm')
        /\ alarmLost' = (alarmLost \/ ~RepushFits(alarm'))
    BY <1>2 DEF HandlePacket
  <2>0. RepushFits(alarm')
    BY <2>1
  <2>2. device_addr' \in Addrs /\ device_id' \in Ids
    BY <1>1, <1>2, PacketType
    DEF HandlePacket, BridgeTypeOK, PublisherTypeOK, Ids
  <2>3. /\ NoneIn(down', InDown(c)) => NoneIn(down, InDown(c))
        /\ alarm'[c] > 0 => ~NoneIn(down', InDown(c))
    BY <1>1, <2>0, <2>1, <2>2, Repushed DEF BridgeTypeOK
  <2>4. RxAgrees(c) => RxAgrees(c)'
    BY <1>1, LastTail DEF RxAgrees, InForceNow
  <2> QED BY <1>1, <2>3, <2>4 DEF Converges, UpAgrees, HeldAgrees, InForceNow
<1>3. CASE ~(IsReport(p) /\ ~device_online)
  <2>1. UNCHANGED <<down, device_online>>
    BY <1>3 DEF HandlePacket
  <2>2. RxAgrees(c) => RxAgrees(c)'
    BY <1>1, LastTail DEF RxAgrees, InForceNow
  <2>3. CASE p \in InRx(c)
    <3>1. alarm'[c] = p.parsed.temp
      BY <1>1, <2>3 DEF Noted, InRx, SetsChannel, IsAlarm, Setpoints
    <3>2. p.parsed.temp \in WireTemps
      BY <1>1, <2>3, AlarmBody DEF DevicePacket, InRx, SetsChannel, IsAlarm
    <3>3. Wire(p.parsed.temp) = p.parsed.temp
      BY <3>2, IOAssumption DEF Wire, WireTemps
    <3>4. RxAgrees(c) /\ NoneIn(rx', InRx(c)) => p.parsed.temp = InForceNow(c)
      BY <1>1, <2>3, LastTail DEF RxAgrees
    <3>5. RxAgrees(c) /\ NoneIn(rx', InRx(c)) => HeldAgrees(c)'
      BY <1>1, <3>1, <3>3, <3>4 DEF HeldAgrees, InForce, InForceNow
    <3> QED BY <1>1, <2>1, <2>2, <3>5 DEF Converges, UpAgrees, InForceNow
  <2>4. CASE p \notin InRx(c)
    <3>1. alarm'[c] = alarm[c]
      BY <1>1, <2>4 DEF Noted, InRx, SetsChannel, IsAlarm, Setpoints
    <3>2. NoneIn(rx, InRx(c)) <=> NoneIn(rx', InRx(c))
      BY <1>1, <2>4, NoneTail
    <3>3. HeldAgrees(c) => HeldAgrees(c)'
      BY <1>1, <2>1, <3>1 DEF HeldAgrees, InForce
    <3> QED BY <1>1, <2>1, <2>2, <3>2, <3>3 DEF Converges, UpAgrees, InForceNow
  <2> QED BY <2>3, <2>4
<1> QED BY <1>2, <1>3

LEMMA TakeCmdConverges ==
  ASSUME NEW c \in Channel, BridgeTypeOK, Converges(c), ~alarmLost',
         TakeCmd, UNCHANGED linkVars
  PROVE  Converges(c)'
<1> DEFINE k == Head(cmds)[1]
           t == Head(cmds)[2]
           d == AlarmTo(device_addr, device_id, k, t)
<1>1. Head(cmds) \in Commands
  BY HeadTailProperties DEF TakeCmd, BridgeTypeOK, PublisherTypeOK
<1>2. k \in Channel /\ t \in Temps
  BY <1>1 DEF Commands, Temps
<1>3. device_addr \in Addrs /\ device_id \in Ids
  BY DEF TakeCmd, BridgeTypeOK, PublisherTypeOK
<1>4. d \in Datagram /\ (d \in InDown(c) <=> c = k)
  BY <1>2, <1>3, AlarmToType, AlarmToSets
<1>5. /\ down' = SendTo(down, d) /\ Fits(down, FlightCap)
      /\ alarm' = [alarm EXCEPT ![k] = t]
      /\ UNCHANGED <<rx, up, devAlarm, device_online>>
  BY DEF TakeCmd, linkVars, deviceVars
<1>6. /\ c = k => ~NoneIn(down', InDown(c))
      /\ c # k => (NoneIn(down', InDown(c)) <=> NoneIn(down, InDown(c)))
  BY <1>4, <1>5, SentAlarm DEF BridgeTypeOK, IOTypeOK
<1>7. c # k => alarm'[c] = alarm[c]
  BY <1>5 DEF BridgeTypeOK, PublisherTypeOK, Setpoints
<1> QED
  BY <1>5, <1>6, <1>7 DEF Converges, UpAgrees, RxAgrees, HeldAgrees, InForce, InForceNow

LEMMA FromThermometerConverges ==
  ASSUME NEW c \in Channel, BridgeTypeOK, OneThermometer, Converges(c), ~alarmLost',
         FromThermometer, UNCHANGED pubVars
  PROVE  Converges(c)'
<1> DEFINE d == Head(up)
           p == Received(d)
<1>1. /\ up \in Seq(UpDatagram) /\ up # <<>> /\ up' = Tail(up) /\ d \in UpDatagram
      /\ rx \in Seq(DevicePacket) /\ rx' = TrySend(p)
      /\ UNCHANGED <<devAlarm, alarm, device_online>>
  BY UpTaken
  DEF FromThermometer, BridgeTypeOK, LinkTypeOK, IOTypeOK, pubVars, taskVars, deviceVars
<1>2. p \in DevicePacket /\ p.parsed = d.body /\ (p \in InRx(c) <=> d \in InUp(c))
  BY <1>1 DEF Received, FromDevice, DevicePacket, UpDatagram, InRx, InUp
<1>3. IsAlarm(d.body) => Fits(rx, QueueCap)
  BY DEF FromThermometer, Overflows
<1>4. NoneIn(down', InDown(c)) <=> NoneIn(down, InDown(c))
  <2>1. CASE Echoed(d.body)
    <3> DEFINE e == [to |-> d.from, id |-> d.from, body |-> d.body]
    <3>1. ~IsAlarm(d.body)
      BY <2>1 DEF Echoed, OneThermometer, FromThermometer
    <3>2. e \in Datagram /\ e \notin InDown(c)
      BY <1>1, <3>1 DEF Datagram, UpDatagram, Ids, InDown, SetsChannel
    <3>3. down' = SendTo(down, e)
      BY <2>1 DEF FromThermometer, Echo
    <3> QED BY <3>2, <3>3, SentAlarm DEF BridgeTypeOK, IOTypeOK
  <2>2. CASE ~Echoed(d.body)
    BY <2>2 DEF FromThermometer, Echo
  <2> QED BY <2>1, <2>2
<1>5. UpAgrees(c) => UpAgrees(c)'
  BY <1>1, LastTail DEF UpAgrees, InForceNow
<1>6. CASE d \in InUp(c)
  <2>1. rx' = Append(rx, p) /\ p \in InRx(c)
    BY <1>1, <1>2, <1>3, <1>6 DEF TrySend, Push, InUp, SetsChannel
  <2>2. NoneIn(Append(rx, p), InRx(c)) => p \notin InRx(c)
    <3> HIDE DEF p
    <3> QED BY <1>1, <1>2, NoneAppend
  <2>3. ASSUME UpAgrees(c), NoneIn(up', InUp(c)) PROVE RxAgrees(c)'
    <3>1. d.body.temp = InForceNow(c)
      BY <1>1, <1>6, <2>3, LastTail DEF UpAgrees
    <3>2. p \in {x \in DevicePacket : x.parsed.temp = InForceNow(c)}
      BY <1>2, <3>1
    <3> QED BY <1>1, <1>2, <2>1, <3>2, LastAppend DEF RxAgrees, InForceNow
  <2> QED BY <1>4, <1>5, <2>1, <2>2, <2>3 DEF Converges
<1>7. CASE d \notin InUp(c)
  <2>1. NoneIn(up', InUp(c)) => NoneIn(up, InUp(c))
    BY <1>1, <1>7, NoneTail
  <2>2. /\ NoneIn(rx', InRx(c)) <=> NoneIn(rx, InRx(c))
        /\ RxAgrees(c) => RxAgrees(c)'
    <3>1. CASE Fits(rx, QueueCap)
      <4>1. rx' = Append(rx, p) /\ p \notin InRx(c)
        BY <1>1, <1>2, <1>7, <3>1 DEF TrySend, Push
      <4>2. NoneIn(rx', InRx(c)) <=> NoneIn(rx, InRx(c))
        <5> HIDE DEF p
        <5> QED BY <1>1, <1>2, <4>1, NoneAppend
      <4>3. RxAgrees(c) => RxAgrees(c)'
        BY <1>1, <1>2, <4>1, LastAppend DEF RxAgrees, InForceNow
      <4> QED BY <4>2, <4>3
    <3>2. CASE ~Fits(rx, QueueCap)
      BY <1>1, <3>2 DEF TrySend, Push, RxAgrees, InForceNow
    <3> QED BY <3>1, <3>2
  <2>3. HeldAgrees(c) => HeldAgrees(c)'
    BY <1>1 DEF HeldAgrees, InForce
  <2> QED BY <1>4, <1>5, <2>1, <2>2, <2>3 DEF Converges
<1> QED BY <1>6, <1>7

LEMMA LearnIdConverges ==
  ASSUME NEW c \in Channel, BridgeTypeOK, Converges(c), ~alarmLost',
         LearnId, UNCHANGED pubVars
  PROVE  Converges(c)'
<1> DEFINE d == Head(up)
           e == [to |-> d.from, id |-> d.from, body |-> d.body]
<1>1. /\ up \in Seq(UpDatagram) /\ up # <<>> /\ up' = Tail(up) /\ d \in UpDatagram
      /\ UNCHANGED <<rx, devAlarm, alarm, device_online>>
  BY UpTaken DEF LearnId, BridgeTypeOK, LinkTypeOK, pubVars, taskVars, deviceVars
<1>2. ~IsAlarm(d.body)
  BY DEF LearnId
<1>3. e \in Datagram /\ e \notin InDown(c) /\ d \notin InUp(c)
  BY <1>1, <1>2 DEF Datagram, UpDatagram, Ids, InDown, InUp, SetsChannel
<1>4. down' = SendTo(down, e) \/ down' = down
  BY DEF LearnId, Echo
<1>5. NoneIn(down', InDown(c)) <=> NoneIn(down, InDown(c))
  BY <1>3, <1>4, SentAlarm DEF BridgeTypeOK, IOTypeOK
<1>6. NoneIn(up', InUp(c)) <=> NoneIn(up, InUp(c))
  BY <1>1, <1>3, NoneTail
<1>7. UpAgrees(c) => UpAgrees(c)'
  BY <1>1, LastTail DEF UpAgrees, InForceNow
<1> QED
  BY <1>1, <1>5, <1>6, <1>7 DEF Converges, RxAgrees, HeldAgrees, InForce, InForceNow

LEMMA ReportConverges ==
  ASSUME NEW c \in Channel, BridgeTypeOK, Converges(c), NEW a \in Addrs, Report(a),
         UNCHANGED pubVars
  PROVE  Converges(c)'
<1> DEFINE d == [from |-> a, body |-> IF streaming[a] THEN Temperature ELSE Keepalive]
<1>1. /\ up \in Seq(UpDatagram) /\ up' = Append(up, d)
      /\ UNCHANGED <<rx, down, devAlarm, alarm, device_online>>
  BY DEF Report, BridgeTypeOK, LinkTypeOK, pubVars, taskVars, deviceVars, ioVars
<1>2. d \in UpDatagram /\ d \notin InUp(c)
  BY DEF UpDatagram, Body, InUp, SetsChannel, IsAlarm, Temperature, Keepalive
<1>3. NoneIn(up', InUp(c)) <=> NoneIn(up, InUp(c))
  BY <1>1, <1>2, NoneAppend
<1>4. UpAgrees(c) => UpAgrees(c)'
  BY <1>1, <1>2, LastAppend DEF UpAgrees, InForceNow
<1> QED BY <1>1, <1>3, <1>4 DEF Converges, RxAgrees, HeldAgrees, InForce, InForceNow

LEMMA DeliveredConverges ==
  ASSUME NEW c \in Channel, BridgeTypeOK, OneThermometer, Converges(c), ~alarmLost',
         Delivered, UNCHANGED pubVars
  PROVE  Converges(c)'
<1> DEFINE d == Head(down)
           b == d.body
           r == [from |-> d.to, body |-> b]
<1>1. /\ down \in Seq(Datagram) /\ down # <<>> /\ down' = Tail(down) /\ d \in Datagram
      /\ up \in Seq(UpDatagram)
      /\ devAlarm \in [Addrs -> [Channel -> WireTemps]]
      /\ UNCHANGED <<rx, alarm, device_online>>
  BY HeadTailProperties
  DEF Delivered, BridgeTypeOK, LinkTypeOK, IOTypeOK, pubVars, taskVars
<1>2. d.to = Thermometer /\ r \in UpDatagram /\ Thermometer \in Addrs
  BY <1>1 DEF Datagram, UpDatagram, OneThermometer
<1>3. IsAlarm(b) => up' = Append(up, r)
  BY DEF Delivered, Overflows, SendTo, Push
<1>4. /\ IsAlarm(b) => devAlarm' = [devAlarm EXCEPT ![d.to] = [@ EXCEPT ![b.channel] = b.temp]]
      /\ ~IsAlarm(b) => devAlarm' = devAlarm /\ up' = up
  BY DEF Delivered
<1>5. CASE d \in InDown(c)
  <2>1. InForceNow(c)' = b.temp
    BY <1>1, <1>2, <1>4, <1>5 DEF InForceNow, InDown, SetsChannel
  <2>2. up' = Append(up, r) /\ r \in InUp(c)
    BY <1>2, <1>3, <1>5 DEF InDown, InUp, SetsChannel
  <2>3. ~NoneIn(up', InUp(c))
    BY <1>1, <1>2, <2>2, NoneAppend
  <2>4. r \in {x \in UpDatagram : x.body.temp = InForceNow(c)'}
    BY <1>2, <2>1
  <2>5. LastIn(up', InUp(c), {x \in UpDatagram : x.body.temp = InForceNow(c)'})
    BY <1>1, <1>2, <2>2, <2>4, LastAppend
  <2> QED BY <2>3, <2>5 DEF Converges, UpAgrees
<1>6. CASE d \notin InDown(c)
  <2>1. NoneIn(down, InDown(c)) <=> NoneIn(down', InDown(c))
    BY <1>1, <1>6, NoneTail
  <2>2. InForceNow(c)' = InForceNow(c)
    BY <1>1, <1>2, <1>4, <1>6 DEF InForceNow, InDown, SetsChannel
  <2>3. /\ NoneIn(up', InUp(c)) <=> NoneIn(up, InUp(c))
        /\ UpAgrees(c) => UpAgrees(c)'
    <3>1. CASE IsAlarm(b)
      <4>1. up' = Append(up, r) /\ r \notin InUp(c)
        BY <1>1, <1>3, <1>6, <3>1 DEF InDown, InUp, SetsChannel
      <4>2. NoneIn(up', InUp(c)) <=> NoneIn(up, InUp(c))
        BY <1>1, <1>2, <4>1, NoneAppend
      <4>3. UpAgrees(c) => UpAgrees(c)'
        BY <1>1, <1>2, <2>2, <4>1, LastAppend DEF UpAgrees
      <4> QED BY <4>2, <4>3
    <3>2. CASE ~IsAlarm(b)
      BY <1>4, <2>2, <3>2 DEF UpAgrees
    <3> QED BY <3>1, <3>2
  <2>4. (RxAgrees(c) => RxAgrees(c)') /\ (HeldAgrees(c) => HeldAgrees(c)')
    BY <1>1, <2>2 DEF RxAgrees, HeldAgrees, InForce, InForceNow
  <2> QED BY <1>1, <2>1, <2>3, <2>4 DEF Converges
<1> QED BY <1>5, <1>6

LEMMA LossConverges ==
  ASSUME NEW c \in Channel, BridgeTypeOK, Converges(c), ~alarmLost', Losses,
         UNCHANGED pubVars
  PROVE  Converges(c)'
<1>1. CASE LoseDown
  <2>1. /\ down \in Seq(Datagram) /\ down # <<>> /\ down' = Tail(down)
        /\ Head(down) \notin InDown(c)
        /\ UNCHANGED <<rx, up, devAlarm, alarm, device_online>>
    BY <1>1 DEF LoseDown, BridgeTypeOK, IOTypeOK, InDown, SetsChannel, linkVars,
                deviceVars, pubVars, taskVars
  <2>2. NoneIn(down', InDown(c)) <=> NoneIn(down, InDown(c))
    BY <2>1, NoneTail
  <2> QED
    BY <2>1, <2>2 DEF Converges, UpAgrees, RxAgrees, HeldAgrees, InForce, InForceNow
<1>2. CASE LoseUp
  <2>1. /\ up \in Seq(UpDatagram) /\ up # <<>> /\ up' = Tail(up)
        /\ Head(up) \notin InUp(c)
        /\ UNCHANGED <<rx, down, devAlarm, alarm, device_online>>
    BY <1>2 DEF LoseUp, BridgeTypeOK, LinkTypeOK, InUp, SetsChannel, deviceVars,
                pubVars, taskVars
  <2>2. NoneIn(up', InUp(c)) <=> NoneIn(up, InUp(c))
    BY <2>1, NoneTail
  <2>3. UpAgrees(c) => UpAgrees(c)'
    BY <2>1, LastTail DEF UpAgrees, InForceNow
  <2> QED
    BY <2>1, <2>2, <2>3 DEF Converges, RxAgrees, HeldAgrees, InForce, InForceNow
<1> QED BY <1>1, <1>2 DEF Losses

\* What takes no alarm packet from where it was and puts none anywhere.
LEMMA PublisherConverges ==
  ASSUME NEW c \in Channel, BridgeTypeOK, Converges(c), ~alarmLost', PublisherPart
  PROVE  Converges(c)'
<1>1. UNCHANGED <<up, devAlarm>> /\ UNCHANGED linkVars
  BY DEF PublisherPart, linkVars, deviceVars
<1>2. CASE HandlePacket
  BY <1>1, <1>2, HandlePacketConverges
<1>3. CASE HandlePacketFails
  BY <1>1, <1>3, HandlePacketFailsConverges
<1>4. CASE TakeCmd
  BY <1>1, <1>4, TakeCmdConverges
<1>5. CASE \/ ConnectFails \/ Announce \/ AnnounceFails \/ Ping \/ PingFails \/ ReaderGone
  <2>1. UNCHANGED <<rx, down>> /\ (device_online' => device_online /\ alarm' = alarm)
    BY <1>5
    DEF ConnectFails, Announce, AnnounceFails, Ping, GoesOffline, PingFails, ReaderGone,
        Dropped, FreshLocals, ioVars
  <2> QED BY <1>1, <2>1, QuietConverges
<1>6. CASE \/ Spawn \/ Connect \/ Wake \/ ReaderExits \/ CmdIgnored \/ SaveAlarmState
           \/ SaveFails \/ LinkBreaks \/ SessionEnds \/ Tick \/ Commanded
  <2>1. UNCHANGED <<rx, down, device_online, alarm>>
    BY <1>6
    DEF Spawn, Connect, Wake, ReaderExits, CmdIgnored, SaveAlarmState, SaveFails,
        LinkBreaks, SessionEnds, Tick, Commanded, HaCommand, taskVars, ioVars
  <2> QED BY <1>1, <2>1, QuietConverges
<1> QED BY <1>2, <1>3, <1>4, <1>5, <1>6 DEF PublisherPart, Failures

\* A thermometer that is switched off forgets its setpoints: that step is left out.
LEMMA LinkConverges ==
  ASSUME NEW c \in Channel, BridgeTypeOK, OneThermometer, Converges(c), ~alarmLost',
         LinkPart, ~\E a \in Addrs : SwitchOff(a)
  PROVE  Converges(c)'
<1>1. UNCHANGED pubVars /\ UNCHANGED <<alarm, device_online>>
  BY DEF LinkPart, pubVars, taskVars
<1>2. CASE FromThermometer
  BY <1>1, <1>2, FromThermometerConverges
<1>3. CASE LearnId
  BY <1>1, <1>3, LearnIdConverges
<1>4. CASE \E a \in Addrs : Report(a)
  BY <1>1, <1>4, ReportConverges
<1>5. CASE Delivered
  BY <1>1, <1>5, DeliveredConverges
<1>6. CASE Losses
  BY <1>1, <1>6, LossConverges
<1>7. CASE Start \/ \E a \in Addrs : SwitchOn(a)
  <2>1. UNCHANGED <<rx, up, down, devAlarm>>
    BY <1>7 DEF Start, SwitchOn, deviceVars, ioVars
  <2> QED BY <1>1, <2>1, QuietConverges
<1>8. Mode # "proxy"
  BY DEF OneThermometer
<1>9. LostOnIt => Losses
  BY DEF LostOnIt, Losses
<1> QED
  BY <1>2, <1>3, <1>4, <1>5, <1>6, <1>7, <1>8, <1>9 DEF LinkPart, Serve, Firmware

\* No step forgets that an alarm packet was lost.
LEMMA LostForGood == BridgeTypeOK /\ Next /\ alarmLost => alarmLost'
<1> SUFFICES ASSUME BridgeTypeOK, Next, alarmLost PROVE alarmLost'
  OBVIOUS
<1>1. alarmLost = TRUE
  BY DEF BridgeTypeOK, IOTypeOK
<1>2. CASE PublisherPart
  BY <1>1, <1>2
  DEF PublisherPart, Failures, Spawn, Connect, Announce, Wake, HandlePacket, Ping,
      Commanded, HaCommand, Tick, ReaderExits, CmdIgnored, TakeCmd, SaveAlarmState,
      ReaderGone, ConnectFails, AnnounceFails, HandlePacketFails, PingFails, LinkBreaks,
      SessionEnds, SaveFails, ioVars
<1>3. CASE LinkPart
  BY <1>1, <1>3
  DEF LinkPart, Serve, Start, LearnId, FromThermometer, Firmware, Delivered, Report,
      FromTheCloud, CloudPacket, SwitchOn, SwitchOff, LostOnIt, Losses, LoseDown, LoseUp, ioVars
<1>4. CASE ProcessStops
  BY <1>1, <1>4 DEF ProcessStops, Crash
<1> QED BY <1>2, <1>3, <1>4 DEF Next

\* Every step of the bridge keeps the invariant.
LEMMA AgreementStep ==
  OneThermometer /\ BridgeTypeOK /\ AgreementInv /\ [Next]_bridgeVars => AgreementInv'
<1> SUFFICES ASSUME OneThermometer, BridgeTypeOK, AgreementInv, [Next]_bridgeVars,
                    ~alarmLost', ~unnoticed', NEW c \in Channel
             PROVE  Converges(c)'
  BY DEF AgreementInv
<1>1. CASE Noticed'
  BY <1>1, NoticedConverges
<1>2. CASE Next /\ ~Noticed'
  <2>1. ~alarmLost
    BY <1>2, LostForGood
  <2>2. ~unnoticed \/ \E a \in Addrs : power[a] /\ ~power'[a]
    BY <1>2 DEF Next, Observed
  <2>3. ASSUME NEW a \in Addrs, SwitchOff(a), UNCHANGED pubVars
        PROVE  FALSE
    <3>1. power[a] /\ ~power'[a]
      BY <2>3 DEF SwitchOff, BridgeTypeOK, LinkTypeOK
    <3>2. unnoticed' = ~Noticed
      BY <1>2, <3>1 DEF Next, Observed
    <3>3. Noticed' <=> Noticed
      BY <2>3 DEF SwitchOff, Noticed, QueuesEmpty, pubVars, taskVars, ioVars
    <3> QED BY <1>2, <3>2, <3>3
  <2>4. CASE PublisherPart
    <3>1. power' = power
      BY <2>4 DEF PublisherPart, linkVars, deviceVars
    <3> QED BY <2>1, <2>2, <2>4, <3>1, PublisherConverges DEF AgreementInv
  <2>5. CASE LinkPart
    <3>1. UNCHANGED pubVars
      BY <2>5 DEF LinkPart
    <3>2. ~\E a \in Addrs : SwitchOff(a)
      BY <2>3, <3>1
    <3>3. \A a \in Addrs : power[a] => power'[a]
      BY <2>5, <3>2
      DEF LinkPart, Serve, Start, LearnId, FromThermometer, Firmware, Delivered, Report,
          FromTheCloud, CloudPacket, SwitchOn, LostOnIt, Losses, LoseDown, LoseUp, linkVars,
          deviceVars, BridgeTypeOK, LinkTypeOK
    <3> QED BY <2>1, <2>2, <2>5, <3>2, <3>3, LinkConverges DEF AgreementInv
  <2>6. CASE ProcessStops
    <3>1. power' = power
      BY <2>6 DEF ProcessStops, StopLoop, deviceVars
    <3>2. Converges(c)
      BY <2>1, <2>2, <3>1 DEF AgreementInv
    <3> QED BY <2>6, <3>2, CrashConverges DEF ProcessStops
  <2> QED BY <1>2, <2>4, <2>5, <2>6 DEF Next
<1>3. CASE UNCHANGED bridgeVars
  <2>1. /\ UNCHANGED <<rx, up, down, devAlarm, device_online, alarm>>
        /\ UNCHANGED <<alarmLost, unnoticed>>
    BY <1>3 DEF bridgeVars, pubVars, taskVars, linkVars, deviceVars, ioVars
  <2> QED BY <2>1, QuietConverges DEF AgreementInv
<1> QED BY <1>1, <1>2, <1>3

\* With nothing on its way the invariant is Agreement.
LEMMA ConvergesMeansAgreement ==
  OneThermometer /\ BridgeTypeOK /\ AgreementInv => Agreement
<1> SUFFICES ASSUME AgreementInv, BridgeTypeOK, Settled, device_online, ~alarmLost,
                    ~unnoticed, NEW c \in Channel, alarm[c] > 0
             PROVE  InForce(Thermometer, c)
  BY DEF Agreement
<1>1. NoneIn(rx, InRx(c)) /\ NoneIn(up, InUp(c)) /\ NoneIn(down, InDown(c))
  BY DEF Settled, NoneIn, InRx, InUp, InDown, SetsChannel
<1> QED BY <1>1 DEF AgreementInv, Converges, HeldAgrees

\* With one thermometer, in `local monitor`, for all capacities, setpoints and timers and
\* under every fault: once the alarm packets on their way have arrived (and none was
\* lost), every alarm the publisher holds is in force at the thermometer
\* (main.rs:1103-1125, 1180-1211), however acknowledgements, later orders, re-pushes,
\* reconnects and power cycles are interleaved. With the proxy this is not so: the cloud
\* may set an alarm before the proxy knows where to relay it.
THEOREM AlarmsAgree == OneThermometer => (Spec => []Agreement)
<1> SUFFICES ASSUME OneThermometer PROVE Spec => []Agreement
  OBVIOUS
<1>1. Init => AgreementInv
  <2>1. Init => Noticed
    BY DEF Init, PublisherInit, IOInit, LinkInit, Noticed, QueuesEmpty
  <2>2. ASSUME Noticed, NEW c \in Channel PROVE Converges(c)
    <3>1. rx = <<>> /\ up = <<>> /\ ~device_online
      BY <2>2 DEF Noticed, QueuesEmpty
    <3>2. NoneIn(rx, InRx(c)) /\ NoneIn(up, InUp(c))
      BY <3>1 DEF NoneIn
    <3> QED BY <3>1, <3>2, LastOfNone DEF Converges, UpAgrees, RxAgrees, HeldAgrees
  <2> QED BY <2>1, <2>2 DEF AgreementInv
<1>2. BridgeTypeOK /\ AgreementInv /\ [Next]_bridgeVars => AgreementInv'
  BY AgreementStep
<1>3. BridgeTypeOK /\ AgreementInv => Agreement
  BY ConvergesMeansAgreement
<1>4. Spec => []BridgeTypeOK
  BY BridgeTypeCorrect
<1> QED BY <1>1, <1>2, <1>3, <1>4, PTL DEF Spec

-----------------------------------------------------------------------------
(* Each step of the publisher is the step of the same name of PublisherSpec *)

LEMMA AsSpawn == Spawn => AsPublisher!Spawn
BY DEF Spawn, AsPublisher!Spawn, brokerVars, AsPublisher!brokerVars, ioVars,
       AsPublisher!ioVars

LEMMA AsConnect == Connect => AsPublisher!Connect
BY DEF Connect, AsPublisher!Connect, Will, AsPublisher!Will, ioVars, AsPublisher!ioVars

LEMMA AsConnectFails == ConnectFails => AsPublisher!ConnectFails
BY DEF ConnectFails, AsPublisher!ConnectFails, Dropped, AsPublisher!Dropped,
       FreshLocals, AsPublisher!FreshLocals, NoAlarms, AsPublisher!NoAlarms, Channel,
       AsPublisher!Channel, ioVars, AsPublisher!ioVars

LEMMA AsAnnounce == Announce => AsPublisher!Announce
BY DEF Announce, AsPublisher!Announce, Publish, AsPublisher!Publish, FreshLocals,
       AsPublisher!FreshLocals, LoadAlarmState, AsPublisher!LoadAlarmState, NoAlarms,
       AsPublisher!NoAlarms, Channel, AsPublisher!Channel, ioVars, AsPublisher!ioVars

LEMMA AsAnnounceFails == AnnounceFails => AsPublisher!AnnounceFails
BY DEF AnnounceFails, AsPublisher!AnnounceFails, Publish, AsPublisher!Publish, Dropped,
       AsPublisher!Dropped, FreshLocals, AsPublisher!FreshLocals, NoAlarms,
       AsPublisher!NoAlarms, Channel, AsPublisher!Channel, ioVars, AsPublisher!ioVars

LEMMA AsWake == Wake => AsPublisher!Wake
BY DEF Wake, AsPublisher!Wake, brokerVars, AsPublisher!brokerVars, ioVars,
       AsPublisher!ioVars

LEMMA AsHandlePacket == HandlePacket => AsPublisher!HandlePacket
BY DEF HandlePacket, AsPublisher!HandlePacket, IsReport, AsPublisher!IsReport, Noted,
       AsPublisher!Noted, Publish, AsPublisher!Publish, Repush, AsPublisher!Repush,
       PushSetpoint, AsPublisher!PushSetpoint, SendTo, AsPublisher!SendTo, Push,
       AsPublisher!Push, Fits, AsPublisher!Fits, RepushFits, AsPublisher!RepushFits,
       AlarmTo, AsPublisher!AlarmTo, Alarm, AsPublisher!Alarm, Wire, AsPublisher!Wire,
       Temperature, AsPublisher!Temperature

LEMMA AsHandlePacketFails == HandlePacketFails => AsPublisher!HandlePacketFails
BY DEF HandlePacketFails, AsPublisher!HandlePacketFails, IsReport, AsPublisher!IsReport,
       Temperature, AsPublisher!Temperature, Publish, AsPublisher!Publish, Dropped,
       AsPublisher!Dropped, FreshLocals, AsPublisher!FreshLocals, NoAlarms,
       AsPublisher!NoAlarms, Channel, AsPublisher!Channel

LEMMA AsPing == Ping => AsPublisher!Ping
BY DEF Ping, AsPublisher!Ping, Stale, AsPublisher!Stale, GoesOffline,
       AsPublisher!GoesOffline, Publish, AsPublisher!Publish, ioVars, AsPublisher!ioVars

LEMMA AsPingFails == PingFails => AsPublisher!PingFails
BY DEF PingFails, AsPublisher!PingFails, Stale, AsPublisher!Stale, Publish,
       AsPublisher!Publish, Dropped, AsPublisher!Dropped, FreshLocals,
       AsPublisher!FreshLocals, NoAlarms, AsPublisher!NoAlarms, Channel,
       AsPublisher!Channel, ioVars, AsPublisher!ioVars

LEMMA AsReaderExits == ReaderExits => AsPublisher!ReaderExits
BY DEF ReaderExits, AsPublisher!ReaderExits, Connected, AsPublisher!Connected,
       brokerVars, AsPublisher!brokerVars, ioVars, AsPublisher!ioVars

LEMMA AsCmdIgnored == CmdIgnored => AsPublisher!CmdIgnored
BY DEF CmdIgnored, AsPublisher!CmdIgnored, brokerVars, AsPublisher!brokerVars, ioVars,
       AsPublisher!ioVars

LEMMA AsTakeCmd == TakeCmd => AsPublisher!TakeCmd
BY DEF TakeCmd, AsPublisher!TakeCmd, SendTo, AsPublisher!SendTo, Push, AsPublisher!Push,
       Fits, AsPublisher!Fits, AlarmTo, AsPublisher!AlarmTo, Alarm, AsPublisher!Alarm,
       Wire, AsPublisher!Wire, brokerVars, AsPublisher!brokerVars

LEMMA AsSaveAlarmState == SaveAlarmState => AsPublisher!SaveAlarmState
BY DEF SaveAlarmState, AsPublisher!SaveAlarmState, brokerVars, AsPublisher!brokerVars,
       ioVars, AsPublisher!ioVars

LEMMA AsSaveFails == SaveFails => AsPublisher!SaveFails
BY DEF SaveFails, AsPublisher!SaveFails, brokerVars, AsPublisher!brokerVars, ioVars,
       AsPublisher!ioVars

LEMMA AsReaderGone == ReaderGone => AsPublisher!ReaderGone
BY DEF ReaderGone, AsPublisher!ReaderGone, Dropped, AsPublisher!Dropped, FreshLocals,
       AsPublisher!FreshLocals, NoAlarms, AsPublisher!NoAlarms, Channel,
       AsPublisher!Channel, ioVars, AsPublisher!ioVars

LEMMA AsLinkBreaks == LinkBreaks => AsPublisher!LinkBreaks
BY DEF LinkBreaks, AsPublisher!LinkBreaks, taskVars, AsPublisher!taskVars, ioVars,
       AsPublisher!ioVars

LEMMA AsSessionEnds == SessionEnds => AsPublisher!SessionEnds
BY DEF SessionEnds, AsPublisher!SessionEnds, Will, AsPublisher!Will, taskVars,
       AsPublisher!taskVars, ioVars, AsPublisher!ioVars

LEMMA AsTick == Tick => AsPublisher!Tick
BY DEF Tick, AsPublisher!Tick, Connected, AsPublisher!Connected, LongAgo,
       AsPublisher!LongAgo, MaxAge, AsPublisher!MaxAge, brokerVars,
       AsPublisher!brokerVars, ioVars, AsPublisher!ioVars

LEMMA AsCrash == Crash => AsPublisher!Crash
BY DEF Crash, AsPublisher!Crash, Dropped, AsPublisher!Dropped, FreshLocals,
       AsPublisher!FreshLocals, NoAlarms, AsPublisher!NoAlarms, Channel,
       AsPublisher!Channel

LEMMA AsCommanded == Commanded => AsPublisher!Commanded
BY DEF Commanded, AsPublisher!Commanded, HaCommand, AsPublisher!HaCommand, Connected,
       AsPublisher!Connected, Push, AsPublisher!Push, Fits, AsPublisher!Fits, Channel,
       AsPublisher!Channel, brokerVars, AsPublisher!brokerVars, ioVars,
       AsPublisher!ioVars

-----------------------------------------------------------------------------
(* The UDP side and the network are what PublisherSpec calls its environment *)

LEMMA SamePackets ==
  /\ AsPublisher!Arrivals = {FromDevice(a, b) : a \in Addrs, b \in Body}
                              \cup {FromCloud(b) : b \in Body}
  /\ \A p : AsPublisher!TrySend(p) = TrySend(p)
  /\ \A q, d : AsPublisher!SendTo(q, d) = SendTo(q, d)
  /\ AsPublisher!Ids = Ids
<1>1. AsPublisher!Body = Body
  BY DEF AsPublisher!Body, Body, AsPublisher!Temperature, Temperature, AsPublisher!Keepalive,
         Keepalive, AsPublisher!Noise, Noise, AsPublisher!Alarms, Alarms, AsPublisher!Alarm,
         Alarm, AsPublisher!Channel, Channel, AsPublisher!WireTemps, WireTemps
<1>2. \A p : AsPublisher!TrySend(p) = TrySend(p)
  BY DEF AsPublisher!TrySend, TrySend, AsPublisher!Push, Push, AsPublisher!Fits, Fits
<1>3. \A q, d : AsPublisher!SendTo(q, d) = SendTo(q, d)
  BY DEF AsPublisher!SendTo, SendTo, AsPublisher!Push, Push, AsPublisher!Fits, Fits
<1> QED
  BY <1>1, <1>2, <1>3
  DEF AsPublisher!Arrivals, AsPublisher!FromDevice, FromDevice, AsPublisher!FromCloud,
      FromCloud, AsPublisher!Ids, Ids

\* An echo is one of the datagrams the environment may send, or no step of `down`.
LEMMA EchoDispatched ==
  ASSUME NEW d \in UpDatagram, down' = Echo(d)
  PROVE  AsPublisher!Dispatch \/ UNCHANGED down
<1>1. CASE Echoed(d.body)
  <2>1. PICK e : e = [to |-> d.from, id |-> d.from, body |-> d.body]
    OBVIOUS
  <2>2. e \in [to : Addrs, id : Ids, body : Body]
    BY <2>1 DEF UpDatagram, Ids
  <2>3. down' = SendTo(down, e)
    BY <1>1, <2>1 DEF Echo
  <2> QED BY <2>2, <2>3, SamePackets DEF AsPublisher!Dispatch
<1>2. CASE ~Echoed(d.body)
  BY <1>2 DEF Echo
<1> QED BY <1>1, <1>2

\* Each step of the UDP side is a step of that environment.
LEMMA LinkIsEnvironment == BridgeTypeOK /\ LinkPart => AsPublisher!Environment
<1> SUFFICES ASSUME BridgeTypeOK, LinkPart
             PROVE  AsPublisher!Environment
  OBVIOUS
<1>0. /\ UNCHANGED AsPublisher!pubVars
      /\ alarmLost \in BOOLEAN /\ LinkTypeOK /\ IOTypeOK
  BY DEF LinkPart, BridgeTypeOK, IOTypeOK, pubVars, taskVars, brokerVars,
         AsPublisher!pubVars, AsPublisher!taskVars, AsPublisher!brokerVars
<1>1. ASSUME UNCHANGED ioVars
      PROVE  AsPublisher!Environment
  BY <1>0, <1>1 DEF AsPublisher!Environment, ioVars
<1>2. CASE LearnId
  <2>1. Head(up) \in UpDatagram
    BY <1>0, <1>2, UpTaken DEF LearnId
  <2>2. AsPublisher!Dispatch \/ UNCHANGED down
    BY <1>2, <2>1, EchoDispatched DEF LearnId
  <2> QED BY <1>0, <1>2, <2>2 DEF LearnId, IsAlarm, AsPublisher!Environment
<1>3. CASE FromThermometer
  <2>1. Head(up) \in UpDatagram
    BY <1>0, <1>3, UpTaken DEF FromThermometer
  <2>2. AsPublisher!Dispatch \/ UNCHANGED down
    BY <1>3, <2>1, EchoDispatched DEF FromThermometer
  <2>3. Received(Head(up)) \in AsPublisher!Arrivals
    BY <2>1, SamePackets DEF Received, UpDatagram
  <2>4. AsPublisher!Ingress
    BY <1>3, <2>3, SamePackets DEF FromThermometer, AsPublisher!Ingress
  <2>5. alarmLost' \in {alarmLost, TRUE}
    BY <1>0, <1>3 DEF FromThermometer, Overflows, IsAlarm
  <2> QED BY <1>0, <2>2, <2>4, <2>5 DEF AsPublisher!Environment
<1>4. ASSUME NEW b \in Body, CloudPacket(b)
      PROVE  AsPublisher!Environment
  <2>1. AsPublisher!Ingress
    <3>1. FromCloud(b) \in AsPublisher!Arrivals
      BY SamePackets
    <3> QED BY <1>4, <3>1, SamePackets DEF CloudPacket, AsPublisher!Ingress
  <2>2. AsPublisher!Dispatch \/ UNCHANGED down
    <3>1. CASE route = NoAddr
      BY <1>4, <3>1 DEF CloudPacket
    <3>2. CASE route # NoAddr
      <4>1. PICK e : e = [to |-> route, id |-> route, body |-> b]
        OBVIOUS
      <4>2. e \in [to : Addrs, id : Ids, body : Body]
        BY <1>0, <3>2, <4>1 DEF LinkTypeOK, Ids
      <4>3. down' = SendTo(down, e)
        BY <1>4, <3>2, <4>1 DEF CloudPacket
      <4> QED BY <4>2, <4>3, SamePackets DEF AsPublisher!Dispatch
    <3> QED BY <3>1, <3>2
  <2>3. alarmLost' \in {alarmLost, TRUE}
    BY <1>0, <1>4 DEF CloudPacket, Overflows, IsAlarm
  <2> QED BY <1>0, <2>1, <2>2, <2>3 DEF AsPublisher!Environment
<1>5. CASE Delivered \/ LoseDown
  <2>1. AsPublisher!Departure /\ UNCHANGED rx
    BY <1>5 DEF Delivered, LoseDown, AsPublisher!Departure
  <2>2. alarmLost' \in {alarmLost, TRUE}
    BY <1>0, <1>5 DEF Delivered, LoseDown, Overflows, IsAlarm
  <2> QED BY <1>0, <2>1, <2>2 DEF AsPublisher!Environment
<1>6. CASE LoseUp
  BY <1>0, <1>6 DEF LoseUp, IsAlarm, AsPublisher!Environment
<1>7. Start => UNCHANGED ioVars
  BY DEF Start
<1>8. ASSUME NEW a \in Addrs, SwitchOn(a) \/ SwitchOff(a) \/ Report(a)
      PROVE  UNCHANGED ioVars
  BY <1>8 DEF SwitchOn, SwitchOff, Report
<1> QED
  BY <1>1, <1>2, <1>3, <1>4, <1>5, <1>6, <1>7, <1>8
  DEF LinkPart, Serve, Firmware, FromTheCloud, LostOnIt, Losses

-----------------------------------------------------------------------------
(* Refinement *)

LEMMA PublisherIsPublisher == PublisherPart => AsPublisher!Next
BY AsSpawn, AsConnect, AsConnectFails, AsAnnounce, AsAnnounceFails, AsWake, AsHandlePacket,
   AsHandlePacketFails, AsPing, AsPingFails, AsReaderExits, AsCmdIgnored, AsTakeCmd,
   AsSaveAlarmState, AsSaveFails, AsReaderGone, AsLinkBreaks, AsSessionEnds, AsTick,
   AsCommanded
DEF PublisherPart, Failures, AsPublisher!Next, AsPublisher!Task, AsPublisher!Failures

LEMMA BridgeStep ==
  BridgeTypeOK /\ [Next]_bridgeVars => [AsPublisher!Next]_AsPublisher!vars
<1> SUFFICES ASSUME BridgeTypeOK, [Next]_bridgeVars
             PROVE  AsPublisher!Next \/ UNCHANGED AsPublisher!vars
  OBVIOUS
<1>1. CASE PublisherPart
  BY <1>1, PublisherIsPublisher
<1>2. CASE LinkPart
  BY <1>2, LinkIsEnvironment DEF AsPublisher!Next
<1>3. CASE ProcessStops
  BY <1>3, AsCrash DEF ProcessStops, AsPublisher!Next
<1>4. CASE UNCHANGED bridgeVars
  BY <1>4 DEF bridgeVars, pubVars, taskVars, brokerVars, ioVars, AsPublisher!vars,
              AsPublisher!pubVars, AsPublisher!taskVars, AsPublisher!brokerVars,
              AsPublisher!ioVars
<1> QED BY <1>1, <1>2, <1>3, <1>4 DEF Next

LEMMA BridgeStart == Init => AsPublisher!Init
BY DEF Init, IOInit, PublisherInit, NoAlarms, Channel, AsPublisher!Init, AsPublisher!IOInit,
       AsPublisher!PublisherInit, AsPublisher!NoAlarms, AsPublisher!Channel

\* The bridge, in either mode and under every fault, is a publisher in the surroundings
\* PublisherSpec allows: UDP loop, network and thermometer only ever put well-formed
\* packets of theirs into the channel (udp.rs:102-161, main.rs:811-843), send datagrams of
\* their own and take datagrams away.
THEOREM BridgeImplementsPublisher == Spec => ImplementsPublisher
<1>1. Init => AsPublisher!Init
  BY BridgeStart
<1>2. BridgeTypeOK /\ [Next]_bridgeVars => [AsPublisher!Next]_AsPublisher!vars
  BY BridgeStep
<1>3. Spec => []BridgeTypeOK
  BY BridgeTypeCorrect
<1> QED BY <1>1, <1>2, <1>3, PTL DEF Spec, ImplementsPublisher, AsPublisher!Spec

\* What PublisherProofs assumes of its constants holds of the bridge's.
LEMMA SameAssumptions ==
  /\ Body \subseteq AsPublisher!Body
  /\ CmdChannels \subseteq AsPublisher!Channel
  /\ Unreadable \notin [AsPublisher!Channel -> AsPublisher!Temps]
BY PublisherAssumption
DEF AsPublisher!Body, Body, AsPublisher!Temperature, Temperature, AsPublisher!Keepalive,
    Keepalive, AsPublisher!Noise, Noise, AsPublisher!Alarms, Alarms, AsPublisher!Alarm,
    Alarm, AsPublisher!Channel, Channel, AsPublisher!WireTemps, WireTemps,
    AsPublisher!Temps, Temps

\* What holds of the publisher in any surroundings holds of `local monitor` and `local
\* proxy`, whatever the UDP loop, the thermometers, the network, the disk and the broker
\* do: "online" needs a packet of somebody within StaleTimeout + PingPeriod, topic and
\* device_online agree, no session means not online, and a thermometer that returns is
\* sent every positive setpoint.
THEOREM BridgeShowsTheTruth ==
  Spec => /\ [](AsPublisher!OnlineNeedsTraffic /\ AsPublisher!AvailMatchesDevice
                  /\ AsPublisher!WillCovers)
          /\ AsPublisher!RepushOnReturn
<1>1. AsPublisher!Spec => []AsPublisher!OnlineNeedsTraffic
  BY SameAssumptions, AsPublisher!OnlineByTraffic, IOAssumption, PublisherAssumption
<1>2. AsPublisher!Spec => []AsPublisher!AvailMatchesDevice
  BY SameAssumptions, AsPublisher!ShownAsHeld, IOAssumption, PublisherAssumption
<1>3. AsPublisher!Spec => []AsPublisher!WillCovers
  BY SameAssumptions, AsPublisher!WillAlwaysCovers, IOAssumption, PublisherAssumption
<1>4. AsPublisher!Spec => AsPublisher!RepushOnReturn
  BY SameAssumptions, AsPublisher!BackGetsSetpoints, IOAssumption, PublisherAssumption
<1>5. Spec => AsPublisher!Spec
  BY BridgeImplementsPublisher DEF ImplementsPublisher
<1> QED BY <1>1, <1>2, <1>3, <1>4, <1>5, PTL
-----------------------------------------------------------------------------
(* A thermometer that is off *)

\* Once the thermometers are off and a tick has passed, nothing of theirs is left that
\* would be taken for a sign of life, and the task has heard nothing since: its own timer
\* counts at least as far as the darkness lasts.
DarkInv ==
  /\ ~Connected => dark = 0
  /\ dark > 0 => /\ \A a \in Addrs : ~power[a]
                 /\ rx = <<>>
                 /\ up = <<>>
                 /\ dark <= last_packet

\* While the thermometers stay off, nothing enters the queues towards the publisher.
LEMMA DarkLink ==
  ASSUME Mode = "monitor", BridgeTypeOK, LinkPart, \A a \in Addrs : ~power[a],
         \A a \in Addrs : ~power'[a], rx = <<>>, up = <<>>
  PROVE  rx' = <<>> /\ up' = <<>>
<1>1. CASE Serve
  BY <1>1 DEF Serve, Start, LearnId, FromThermometer, ioVars
<1>2. CASE Losses
  BY <1>2 DEF Losses, LoseDown, LoseUp, linkVars
<1>3. CASE \E a \in Addrs : SwitchOn(a) \/ SwitchOff(a)
  BY <1>3 DEF SwitchOn, SwitchOff, ioVars
<1>4. ~\E a \in Addrs : Report(a)
  BY DEF Report
<1>5. ~Delivered
  <2> SUFFICES ASSUME Delivered PROVE FALSE
    OBVIOUS
  <2>1. Head(down) \in Datagram
    BY HeadTailProperties DEF Delivered, BridgeTypeOK, IOTypeOK
  <2> QED BY <2>1 DEF Delivered, Datagram
<1>6. LostOnIt => Losses
  BY DEF LostOnIt, Losses
<1> QED BY <1>1, <1>2, <1>3, <1>4, <1>5, <1>6 DEF LinkPart, Firmware

\* A publisher with an empty packet channel takes none, so its timer is not reset.
LEMMA DarkPublisher ==
  ASSUME PublisherPart, rx = <<>>, Connected, Connected', ~Tick
  PROVE  rx' = <<>> /\ last_packet' = last_packet
<1>1. ~HandlePacket /\ ~HandlePacketFails
  BY DEF HandlePacket, HandlePacketFails
<1>2. CASE \/ Spawn \/ Connect \/ Announce \/ Wake \/ ConnectFails \/ AnnounceFails
  BY <1>2 DEF Spawn, Connect, Announce, Wake, ConnectFails, AnnounceFails, Connected
<1>3. CASE PingFails \/ ReaderGone
  BY <1>3 DEF PingFails, ReaderGone, Dropped, Connected
<1>4. CASE Ping
  BY <1>4 DEF Ping, ioVars
<1>5. CASE ReaderExits \/ CmdIgnored \/ TakeCmd \/ SaveAlarmState \/ SaveFails
  BY <1>5 DEF ReaderExits, CmdIgnored, TakeCmd, SaveAlarmState, SaveFails, ioVars
<1>6. CASE LinkBreaks \/ SessionEnds \/ Commanded
  BY <1>6 DEF LinkBreaks, SessionEnds, Commanded, HaCommand, taskVars, ioVars
<1> QED
  BY <1>1, <1>2, <1>3, <1>4, <1>5, <1>6 DEF PublisherPart, Failures

\* The clock is the only thing that moves the ping timer by one, and it waits for the queues.
LEMMA TickWaits ==
  ASSUME BridgeTypeOK, Next, Tick
  PROVE  PublisherPart /\ QueuesEmpty
<1>1. /\ Connected /\ Connected'
      /\ ping_in \in Nat /\ ping_in > 0 /\ ping_in' = ping_in - 1
  BY PublisherAssumption DEF Tick, Connected, BridgeTypeOK, PublisherTypeOK
<1>2. ~LinkPart
  BY <1>1 DEF LinkPart, pubVars, taskVars
<1>3. ~ProcessStops
  BY <1>1 DEF ProcessStops, Crash, Dropped, Connected
<1>4. PublisherPart
  BY <1>2, <1>3 DEF Next
<1>5. ~Spawn /\ ~Connect /\ ~Announce /\ ~Wake /\ ~ConnectFails /\ ~AnnounceFails
  BY <1>1 DEF Spawn, Connect, Announce, Wake, ConnectFails, AnnounceFails, Connected
<1>6. ~HandlePacketFails /\ ~PingFails /\ ~ReaderGone
  BY <1>1 DEF HandlePacketFails, PingFails, ReaderGone, Dropped, Connected
<1>7. ~HandlePacket /\ ~Ping /\ ~ReaderExits /\ ~CmdIgnored /\ ~TakeCmd
  BY <1>1 DEF HandlePacket, Ping, ReaderExits, CmdIgnored, TakeCmd
<1>8. ~SaveAlarmState /\ ~SaveFails /\ ~Commanded
  <2>1. ping_in' # ping_in
    BY <1>1
  <2> QED BY <2>1 DEF SaveAlarmState, SaveFails, Commanded, HaCommand
<1>9. ~LinkBreaks /\ ~SessionEnds
  BY <1>1 DEF LinkBreaks, SessionEnds, taskVars
<1> QED BY <1>4, <1>5, <1>6, <1>7, <1>8, <1>9 DEF PublisherPart, Failures

LEMMA DarkStep ==
  Mode = "monitor" /\ BridgeTypeOK /\ DarkInv /\ [Next]_bridgeVars => DarkInv'
<1> SUFFICES ASSUME Mode = "monitor", BridgeTypeOK, DarkInv, [Next]_bridgeVars
             PROVE  DarkInv'
  OBVIOUS
<1>1. CASE UNCHANGED bridgeVars
  BY <1>1 DEF bridgeVars, pubVars, taskVars, linkVars, deviceVars, ioVars, Connected, DarkInv
<1>2. CASE Next /\ dark' = 0
  BY <1>2 DEF DarkInv
<1>3. CASE Next /\ dark' # 0
  <2>1. /\ Connected' /\ \A a \in Addrs : ~power'[a]
        /\ dark' = IF Tick /\ dark < LongAgo THEN dark + 1 ELSE dark
    BY <1>3 DEF Next, Observed
  <2>2. last_packet \in 0 .. LongAgo /\ dark \in 0 .. LongAgo /\ LongAgo \in Nat
    BY PublisherAssumption DEF BridgeTypeOK, PublisherTypeOK, LongAgo, MaxAge
  <2>3. CASE Tick
    <3>1. PublisherPart /\ QueuesEmpty
      BY <1>3, <2>3, TickWaits
    <3>2. UNCHANGED <<rx, up, power>>
      BY <2>3, <3>1 DEF PublisherPart, Tick, linkVars, deviceVars, ioVars
    <3>3. rx' = <<>> /\ up' = <<>> /\ \A a \in Addrs : ~power'[a]
      BY <2>1, <3>1, <3>2 DEF QueuesEmpty
    <3>4. last_packet' = IF last_packet < LongAgo THEN last_packet + 1 ELSE LongAgo
      BY <2>3 DEF Tick
    <3>5. dark = 0 \/ dark <= last_packet
      BY <2>2 DEF DarkInv
    <3>6. dark' <= last_packet'
      BY <2>1, <2>2, <2>3, <3>4, <3>5
    <3> QED BY <2>1, <3>3, <3>6 DEF DarkInv
  <2>4. CASE ~Tick
    <3>1. dark' = dark /\ dark > 0
      BY <1>3, <2>1, <2>2, <2>4
    <3>2. /\ Connected
          /\ \A a \in Addrs : ~power[a]
          /\ rx = <<>> /\ up = <<>> /\ dark <= last_packet
      BY <3>1 DEF DarkInv
    <3>3. rx' = <<>> /\ up' = <<>> /\ last_packet' = last_packet
      <4>1. CASE PublisherPart
        BY <2>1, <2>4, <3>2, <4>1, DarkPublisher DEF PublisherPart, linkVars
      <4>2. CASE LinkPart
        BY <2>1, <3>2, <4>2, DarkLink DEF LinkPart, pubVars, taskVars
      <4>3. ~ProcessStops
        BY <2>1 DEF ProcessStops, Crash, Dropped, Connected
      <4> QED BY <1>3, <4>1, <4>2, <4>3 DEF Next
    <3> QED BY <2>1, <3>1, <3>2, <3>3 DEF DarkInv
  <2> QED BY <2>3, <2>4
<1> QED BY <1>1, <1>2, <1>3

\* In `local monitor`, thermometers that are all off are shown online for no longer than the
\* stale timeout and one ping interval (main.rs:1178-1184), for every number of thermometers,
\* every capacity and both periods, and under every fault.
THEOREM OffIsNeverLong == Mode = "monitor" => (Spec => []OffIsShown)
<1> SUFFICES ASSUME Mode = "monitor" PROVE Spec => []OffIsShown
  OBVIOUS
<1>1. Init => DarkInv
  BY DEF Init, DarkInv
<1>2. BridgeTypeOK /\ DarkInv /\ [Next]_bridgeVars => DarkInv'
  BY DarkStep
<1>3. /\ BridgeTypeOK /\ DarkInv
      /\ AsPublisher!OnlineNeedsTraffic
      => OffIsShown
  <2> SUFFICES ASSUME BridgeTypeOK, DarkInv, AsPublisher!OnlineNeedsTraffic,
                      Connected, session = "live", device_id # NoAddr, avail = "online"
               PROVE  dark <= MaxAge
    BY DEF OffIsShown
  <2>1. last_packet <= MaxAge
    BY DEF AsPublisher!OnlineNeedsTraffic, AsPublisher!Connected, Connected,
           AsPublisher!MaxAge, MaxAge
  <2>2. /\ last_packet \in Nat /\ dark \in Nat /\ MaxAge \in Nat
        /\ dark = 0 \/ dark <= last_packet
    BY PublisherAssumption DEF DarkInv, BridgeTypeOK, PublisherTypeOK, LongAgo, MaxAge
  <2> QED BY <2>1, <2>2
<1>4. Spec => []BridgeTypeOK
  BY BridgeTypeCorrect
<1>5. Spec => []AsPublisher!OnlineNeedsTraffic
  BY BridgeShowsTheTruth, PTL
<1> QED BY <1>1, <1>2, <1>3, <1>4, <1>5, PTL DEF Spec
=============================================================================
