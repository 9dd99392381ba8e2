-------------------------- MODULE DeviceLinkProofs --------------------------
(***************************************************************************)
(* The UDP side, for all addresses, temperatures and capacities and in     *)
(* both modes: its types, and that set-alarm has set what it says; and for *)
(* all words and ids, that the bytes on the wire mean what the loop takes  *)
(* them for.                                                               *)
(***************************************************************************)
EXTENDS DeviceWire, LinkLemmas, WellFoundedInduction

-----------------------------------------------------------------------------
(* Types *)

\* A setpoint for a thermometer is a datagram to it.
LEMMA OrderType ==
  ASSUME NEW a \in Addrs, NEW c \in Channel, NEW t \in WireTemps
  PROVE  /\ [to |-> a, id |-> a, body |-> Alarm(c, t)] \in Datagram
         /\ Alarm(c, t) \in Body
BY DEF Datagram, Ids, Body, Alarms

\* A queue with the setpoints that were asked for is still one of datagrams.
LEMMA SentType ==
  ASSUME AskTypeOK, NEW q \in Seq(Datagram), Len(q) <= FlightCap, NEW a \in Addrs, NEW c \in Channel
  PROVE  Sent(q, a, c) \in Seq(Datagram) /\ Len(Sent(q, a, c)) <= FlightCap
<1>1. CASE asks[c] = NoAsk
  BY <1>1 DEF Sent
<1>2. CASE asks[c] # NoAsk
  <2>1. asks[c] \in WireTemps
    BY <1>2, AskAssumption DEF AskTypeOK, Asks
  <2> QED BY <1>2, <2>1, OrderType, DownType DEF Sent
<1> QED BY <1>1, <1>2

\* Nothing asked and nothing told is of the types.
LEMMA NothingType == Nothing \in Asks /\ NothingTold \in [Addrs -> Asks]
BY DEF Nothing, NothingTold, Asks

\* The datagrams of set-alarm.
LEMMA AskStepType ==
  ASSUME TypeOK, AskStep \/ AskDone
  PROVE  IOTypeOK' /\ LinkTypeOK' /\ AskTypeOK'
<1> USE DEF TypeOK
<1>1. CASE AskSent
  <2> DEFINE d  == Head(up)
             q0 == Echo(d)
             q1 == Sent(q0, d.from, 1)
             q2 == Sent(q1, d.from, 2)
  <2>1. /\ d \in UpDatagram /\ d.from \in Addrs
        /\ up' \in Seq(UpDatagram) /\ Len(up') <= FlightCap
    BY <1>1, UpTaken DEF AskSent, UpDatagram
  <2>2. q0 \in Seq(Datagram) /\ Len(q0) <= FlightCap
    BY <2>1, EchoType
  <2>3. 1 \in Channel /\ 2 \in Channel
    BY DEF Channel
  <2>4. q1 \in Seq(Datagram) /\ Len(q1) <= FlightCap
    <3> HIDE DEF d, q0
    <3> QED BY <2>1, <2>2, <2>3, SentType
  <2>5. q2 \in Seq(Datagram) /\ Len(q2) <= FlightCap
    <3> HIDE DEF d, q1
    <3> QED BY <2>1, <2>3, <2>4, SentType
  <2>6. down' = q2
    BY <1>1 DEF AskSent
  <2>7. told' \in [Addrs -> Asks]
    BY <1>1, <2>1 DEF AskSent, AskTypeOK
  <2>8. alarmLost' \in BOOLEAN
    <3> HIDE DEF q0, q1
    <3> QED BY <1>1 DEF AskSent, IOTypeOK, Overflows, IsAlarm, Dropped, q0, q1
  <2> HIDE DEF d, q0, q1, q2
  <2> QED
    BY <1>1, <2>1, <2>5, <2>6, <2>7, <2>8
    DEF AskSent, IOTypeOK, LinkTypeOK, AskTypeOK, deviceVars
<1>2. CASE AskMisled
  BY <1>2, UpTaken DEF AskMisled, IOTypeOK, LinkTypeOK, AskTypeOK, deviceVars, askVars
<1>3. CASE AskHeard
  <2> DEFINE d == Head(up)
             e == [to |-> d.from, id |-> d.from, body |-> d.body]
  <2>1. /\ d \in UpDatagram /\ e \in Datagram
        /\ up' \in Seq(UpDatagram) /\ Len(up') <= FlightCap
    BY <1>3, UpTaken DEF AskHeard, UpDatagram, Datagram, Ids
  <2>2. SendTo(down, e) \in Seq(Datagram) /\ Len(SendTo(down, e)) <= FlightCap
    <3> HIDE DEF e
    <3> QED BY <2>1, DownType DEF IOTypeOK
  <2>3. down' = SendTo(down, e) \/ down' = down
    BY <1>3 DEF AskHeard
  <2> HIDE DEF d, e
  <2> QED
    BY <1>3, <2>1, <2>2, <2>3 DEF AskHeard, IOTypeOK, LinkTypeOK, AskTypeOK, deviceVars, askVars
<1>4. CASE AskDone
  <2>1. up' \in Seq(UpDatagram) /\ Len(up') <= FlightCap
    BY <1>4, IOAssumption DEF AskDone
  <2>2. alarmLost' \in BOOLEAN
    BY <1>4 DEF AskDone, IOTypeOK, IsAlarm
  <2> QED
    BY <1>4, <2>1, <2>2 DEF AskDone, IOTypeOK, LinkTypeOK, AskTypeOK, deviceVars, askVars
<1> QED BY <1>1, <1>2, <1>3, <1>4 DEF AskStep

\* Every step keeps the types,
LEMMA TypeStep == TypeOK /\ [Next]_vars => TypeOK'
<1> SUFFICES ASSUME TypeOK, [Next]_vars PROVE TypeOK'
  OBVIOUS
<1> USE DEF TypeOK
<1>0. orders + 1 \in 0 .. MaxOrders \/ ~ (orders < MaxOrders)
  BY OrdersAssumption
<1>1. CASE (Serve \/ Firmware \/ Losses) /\ UNCHANGED <<askVars, orders>>
  <2>1. IOTypeOK' /\ LinkTypeOK'
    BY <1>1, LinkTypeStep
  <2> QED BY <1>1, <2>1 DEF AskTypeOK, askVars
<1>2. CASE (AskStep \/ AskDone) /\ UNCHANGED orders
  BY <1>2, AskStepType
<1>3. CASE Switched
  <2>1. IOTypeOK' /\ LinkTypeOK'
    BY <1>3, LinkTypeStep DEF Switched
  <2>2. told' \in [Addrs -> Asks]
    BY <1>3, NothingType DEF Switched, AskTypeOK
  <2> QED BY <1>3, <2>1, <2>2 DEF Switched, AskTypeOK
<1>4. CASE Taken
  <2>1. rx' \in Seq(DevicePacket) /\ Len(rx') <= QueueCap
    BY <1>4, TakeType, IOAssumption DEF Taken, IOTypeOK
  <2> QED
    BY <1>4, <2>1 DEF Taken, IOTypeOK, LinkTypeOK, AskTypeOK, linkVars, deviceVars, askVars
<1>5. CASE Ordered
  <2>1. PICK a \in Addrs, c \in Channel, t \in WireTemps :
          /\ down' = SendTo(down, [to |-> a, id |-> a, body |-> Alarm(c, t)])
          /\ told' = [told EXCEPT ![a][c] = NoAsk]
    BY <1>5 DEF Ordered
  <2>2. down' \in Seq(Datagram) /\ Len(down') <= FlightCap
    BY <2>1, OrderType, DownType DEF IOTypeOK
  <2>3. told' \in [Addrs -> Asks]
    BY <2>1 DEF AskTypeOK, Asks
  <2>4. alarmLost' \in BOOLEAN
    BY <1>5 DEF Ordered, IOTypeOK, Fits
  <2> QED
    BY <1>0, <1>5, <2>2, <2>3, <2>4
    DEF Ordered, IOTypeOK, LinkTypeOK, AskTypeOK, linkVars, deviceVars
<1>6. CASE Asked
  BY <1>0, <1>6, NothingType
  DEF Asked, AskFor, IOTypeOK, LinkTypeOK, AskTypeOK, deviceVars, ioVars
<1>7. CASE Restart
  <2>1. rx' \in Seq(DevicePacket) /\ Len(rx') <= QueueCap
    BY <1>7, IOAssumption DEF Restart
  <2> QED
    BY <1>7, <2>1, NothingType
    DEF Restart, StopLoop, IOTypeOK, LinkTypeOK, AskTypeOK, deviceVars
<1>8. ASSUME NEW a \in Addrs, Stray(a) PROVE TypeOK'
  <2>1. [from |-> a, body |-> Noise] \in UpDatagram
    BY DEF UpDatagram, Body
  <2>2. up' \in Seq(UpDatagram) /\ Len(up') = Len(up) + 1
    BY <1>8, <2>1, AppendProperties DEF Stray, LinkTypeOK
  <2>3. Len(up') <= FlightCap
    BY <1>8, <2>2, LenProperties, IOAssumption DEF Stray, Fits, LinkTypeOK
  <2> QED
    BY <1>8, <2>2, <2>3
    DEF Stray, IOTypeOK, LinkTypeOK, AskTypeOK, deviceVars, ioVars, askVars
<1>9. CASE UNCHANGED vars
  BY <1>9 DEF vars, IOTypeOK, LinkTypeOK, AskTypeOK, linkVars, deviceVars, ioVars, askVars
<1> QED BY <1>1, <1>2, <1>3, <1>4, <1>5, <1>6, <1>7, <1>8, <1>9 DEF Next

\* In monitor and proxy, with set-alarm on their port or not: the packet channel and the
\* sockets stay within their capacities, and whatever thermometers answer, each setpoint in
\* force is one the wire can carry.
THEOREM LinkTypeCorrect == Spec => []TypeOK
<1>1. Init => TypeOK
  BY LinkInitTypes, NothingType, OrdersAssumption DEF Init, AskInit, TypeOK, AskTypeOK
<1> QED BY <1>1, TypeStep, PTL DEF Spec

-----------------------------------------------------------------------------
(* What set-alarm says is set                                              *)
(*                                                                         *)
(* While it listens, earlier orders may still be on the way; its own came  *)
(* after them, so the last alarm packet of a channel on the way to the     *)
(* thermometer is what the user is told, and once there is none the        *)
(* thermometer has it. After it has ended, nothing is on the way in        *)
(* either direction that could change the setpoint, or come back as an     *)
(* echo and change it: a later order ends the promise.                     *)

\* The alarm packets for channel c on the way to the thermometer at a, and from it.
OnItsWay(a, c)     == {d \in Datagram : d.to = a /\ IsAlarm(d.body) /\ d.body.channel = c}
OnItsWayBack(a, c) == {d \in UpDatagram : d.from = a /\ IsAlarm(d.body) /\ d.body.channel = c}

\* With q on the way to the thermometers, u from them and v in force on channel c at a, the
\* setpoint t is going to be set, or, with set-alarm at its end, is set.
Kept(a, c, l, q, u, v, t) ==
  IF l = "confirming"
  THEN /\ LastIn(q, OnItsWay(a, c), {d \in Datagram : d.body.temp = t})
       /\ NoneIn(q, OnItsWay(a, c)) => v = t
  ELSE NoneIn(q, OnItsWay(a, c)) /\ NoneIn(u, OnItsWayBack(a, c)) /\ v = t

Promised(a, c) ==
  told[a][c] # NoAsk => Kept(a, c, loop, down, up, devAlarm[a][c], told[a][c])

AskedInv ==
  /\ loop = "setting" => told = NothingTold
  /\ ~alarmLost => \A a \in Addrs, c \in Channel : Promised(a, c)

\* A datagram that sets another channel or thermometer, or sets nothing, changes nothing.
LEMMA KeptSend ==
  ASSUME NEW a, NEW c, NEW l, NEW q \in Seq(Datagram), NEW u, NEW v, NEW t,
         Kept(a, c, l, q, u, v, t),
         NEW d \in Datagram, d \notin OnItsWay(a, c)
  PROVE  Kept(a, c, l, SendTo(q, d), u, v, t)
<1>1. CASE Fits(q, FlightCap)
  <2>1. SendTo(q, d) = Append(q, d)
    BY <1>1 DEF SendTo, Push
  <2>2. NoneIn(Append(q, d), OnItsWay(a, c)) <=> NoneIn(q, OnItsWay(a, c))
    BY NoneAppend
  <2>3. \A G : LastIn(q, OnItsWay(a, c), G) => LastIn(Append(q, d), OnItsWay(a, c), G)
    BY LastAppend
  <2> QED BY <2>1, <2>2, <2>3 DEF Kept
<1>2. CASE ~Fits(q, FlightCap)
  BY <1>2 DEF SendTo, Push
<1> QED BY <1>1, <1>2

\* So does one that was delivered or lost.
LEMMA KeptTaken ==
  ASSUME NEW a, NEW c, NEW l, NEW q \in Seq(Datagram), q # <<>>, NEW u, NEW v, NEW t,
         Kept(a, c, l, q, u, v, t), Head(q) \notin OnItsWay(a, c)
  PROVE  Kept(a, c, l, Tail(q), u, v, t)
<1>1. NoneIn(Tail(q), OnItsWay(a, c)) <=> NoneIn(q, OnItsWay(a, c))
  BY NoneTail
<1>2. \A G : LastIn(q, OnItsWay(a, c), G) => LastIn(Tail(q), OnItsWay(a, c), G)
  BY LastTail
<1> QED BY <1>1, <1>2 DEF Kept

\* What set-alarm sent arrives: it is in force, unless more of it follows.
LEMMA KeptDelivered ==
  ASSUME NEW a, NEW c, NEW l, NEW q \in Seq(Datagram), q # <<>>, NEW u, NEW v, NEW t, NEW w,
         Kept(a, c, l, q, u, v, t), Head(q) \in OnItsWay(a, c)
  PROVE  Kept(a, c, l, Tail(q), w, Head(q).body.temp, t)
<1>1. ~NoneIn(q, OnItsWay(a, c))
  BY NoneTail
<1>2. /\ l = "confirming"
      /\ LastIn(q, OnItsWay(a, c), {d \in Datagram : d.body.temp = t})
  BY <1>1 DEF Kept
<1> DEFINE G == {d \in Datagram : d.body.temp = t}
<1>3. /\ LastIn(Tail(q), OnItsWay(a, c), G)
      /\ NoneIn(Tail(q), OnItsWay(a, c)) => Head(q) \in G
  <2>1. LastIn(q, OnItsWay(a, c), G)
    BY <1>2
  <2> HIDE DEF G
  <2> QED BY <2>1, LastTail
<1> QED BY <1>2, <1>3 DEF Kept

\* The loop takes a packet of the thermometers, or one of them sends one.
LEMMA KeptUp ==
  ASSUME NEW a, NEW c, NEW l, NEW q, NEW u \in Seq(UpDatagram), NEW v, NEW t,
         Kept(a, c, l, q, u, v, t)
  PROVE  /\ u # <<>> => Kept(a, c, l, q, Tail(u), v, t)
         /\ \A d \in UpDatagram :
              d \notin OnItsWayBack(a, c) =>
                /\ Kept(a, c, l, q, Append(u, d), v, t)
                /\ Kept(a, c, l, q, SendTo(u, d), v, t)
<1>1. u # <<>> => (NoneIn(u, OnItsWayBack(a, c)) => NoneIn(Tail(u), OnItsWayBack(a, c)))
  BY NoneTail
<1>2. ASSUME NEW d \in UpDatagram, d \notin OnItsWayBack(a, c)
      PROVE  NoneIn(u, OnItsWayBack(a, c)) => NoneIn(Append(u, d), OnItsWayBack(a, c))
  BY <1>2, NoneAppend
<1>3. \A d \in UpDatagram : SendTo(u, d) \in {u, Append(u, d)}
  BY DEF SendTo, Push
<1> QED BY <1>1, <1>2, <1>3 DEF Kept

\* Before set-alarm listens and after, a packet of the thermometer sets nothing that was
\* promised, and its echo neither.
LEMMA KeptEcho ==
  ASSUME NEW a, NEW c, NEW l, l # "confirming", NEW q \in Seq(Datagram),
         NEW u \in Seq(UpDatagram), u # <<>>, NEW v, NEW t,
         Kept(a, c, l, q, u, v, t),
         NEW e, e = [to |-> Head(u).from, id |-> Head(u).from, body |-> Head(u).body]
  PROVE  Kept(a, c, l, SendTo(q, e), Tail(u), v, t)
<1>1. Head(u) \in UpDatagram /\ Head(u) \notin OnItsWayBack(a, c)
  BY NoneTail, HeadTailProperties DEF Kept
<1>2. e \in Datagram /\ e \notin OnItsWay(a, c)
  BY <1>1 DEF UpDatagram, Datagram, Ids, OnItsWay, OnItsWayBack
<1>3. Kept(a, c, l, q, Tail(u), v, t)
  BY KeptUp
<1> HIDE DEF Kept
<1> QED BY <1>2, <1>3, KeptSend

\* A setpoint that fits into the queue is the last of its channel there.
LEMMA KeptSet ==
  ASSUME NEW a \in Addrs, NEW c \in Channel, NEW q \in Seq(Datagram), NEW u, NEW v,
         NEW t \in WireTemps, Fits(q, FlightCap)
  PROVE  Kept(a, c, "confirming", SendTo(q, [to |-> a, id |-> a, body |-> Alarm(c, t)]), u, v, t)
<1> DEFINE d == [to |-> a, id |-> a, body |-> Alarm(c, t)]
           G == {e \in Datagram : e.body.temp = t}
<1>1. d \in Datagram /\ d \in OnItsWay(a, c) /\ d \in G
  BY OrderType DEF OnItsWay, IsAlarm, Alarm
<1> HIDE DEF d, G
<1>2. SendTo(q, d) = Append(q, d)
  BY DEF SendTo, Push
<1>3. ~NoneIn(Append(q, d), OnItsWay(a, c))
  BY <1>1, NoneAppend
<1>4. LastIn(Append(q, d), OnItsWay(a, c), G)
  BY <1>1, LastAppend
<1>5. Kept(a, c, "confirming", Append(q, d), u, v, t)
  BY <1>3, <1>4 DEF Kept, G
<1> QED BY <1>2, <1>5 DEF d

\* Both setpoints, one after the other.
LEMMA KeptAsked ==
  ASSUME TypeOK, NEW a \in Addrs, NEW q \in Seq(Datagram), Len(q) <= FlightCap,
         ~Dropped(q, 1), ~Dropped(Sent(q, a, 1), 2),
         NEW c \in Channel, asks[c] # NoAsk, NEW u, NEW v
  PROVE  Kept(a, c, "confirming", Sent(Sent(q, a, 1), a, 2), u, v, asks[c])
<1> DEFINE q1 == Sent(q, a, 1)
           d(k) == [to |-> a, id |-> a, body |-> Alarm(k, asks[k])]
<1>0. 1 \in Channel /\ 2 \in Channel /\ c \in {1, 2}
  BY DEF Channel
<1>1. q1 \in Seq(Datagram) /\ Len(q1) <= FlightCap
  BY <1>0, SentType DEF TypeOK
<1>2. \A k \in Channel : asks[k] # NoAsk => asks[k] \in WireTemps /\ d(k) \in Datagram
  BY AskAssumption, OrderType DEF TypeOK, AskTypeOK, Asks
<1>3. CASE c = 1
  <2>1. Fits(q, FlightCap) /\ q1 = SendTo(q, d(1))
    BY <1>3 DEF Dropped, Sent
  <2>2. Kept(a, 1, "confirming", q1, u, v, asks[1])
    BY <1>0, <1>2, <1>3, <2>1, KeptSet
  <2>3. asks[2] # NoAsk => d(2) \notin OnItsWay(a, 1)
    BY DEF OnItsWay, Alarm
  <2>4. asks[2] # NoAsk => Kept(a, 1, "confirming", SendTo(q1, d(2)), u, v, asks[1])
    <3> HIDE DEF q1, d
    <3> QED BY <1>0, <1>1, <1>2, <2>2, <2>3, KeptSend
  <2>5. Sent(q1, a, 2) = IF asks[2] = NoAsk THEN q1 ELSE SendTo(q1, d(2))
    BY DEF Sent
  <2> HIDE DEF q1, d
  <2>6. Kept(a, 1, "confirming", Sent(q1, a, 2), u, v, asks[1])
    BY <2>2, <2>4, <2>5
  <2> QED BY <1>3, <2>6 DEF q1
<1>4. CASE c = 2
  <2>1. Fits(q1, FlightCap) /\ Sent(q1, a, 2) = SendTo(q1, d(2))
    BY <1>4 DEF Dropped, Sent
  <2>2. Kept(a, 2, "confirming", SendTo(q1, d(2)), u, v, asks[2])
    <3>1. asks[2] \in WireTemps
      BY <1>2, <1>4
    <3> HIDE DEF q1
    <3> QED BY <1>0, <1>1, <2>1, <3>1, KeptSet
  <2> QED BY <1>4, <2>1, <2>2
<1> QED BY <1>0, <1>3, <1>4

\* Where neither the setpoint in force, nor what was promised, nor the queues change.
LEMMA StillPromised ==
  ASSUME NEW a \in Addrs, NEW c \in Channel, Promised(a, c),
         told'[a][c] \in {NoAsk, told[a][c]}, devAlarm'[a][c] = devAlarm[a][c],
         down' = down, up' = up,
         loop' = loop \/ (loop # "confirming" /\ loop' # "confirming")
  PROVE  Promised(a, c)'
BY DEF Promised, Kept

\* The firmware and the network.
LEMMA LinkKeeps ==
  ASSUME TypeOK, AskedInv, ~alarmLost', UNCHANGED askVars, Serve \/ Firmware \/ Losses,
         NEW a \in Addrs, NEW c \in Channel
  PROVE  Promised(a, c)'
<1> DEFINE t == told[a][c]
           v == devAlarm[a][c]
<1>1. told' = told
  BY DEF askVars
<1> SUFFICES ASSUME t # NoAsk
             PROVE  Kept(a, c, loop', down', up', devAlarm'[a][c], t)
  BY <1>1 DEF Promised
<1>0. down \in Seq(Datagram) /\ up \in Seq(UpDatagram)
  BY DEF TypeOK, IOTypeOK, LinkTypeOK
<1>2. ~alarmLost => Kept(a, c, loop, down, up, v, t)
  BY DEF AskedInv, Promised
<1>3. CASE Start
  BY <1>2, <1>3 DEF Start, Kept, ioVars, deviceVars
<1>4. CASE LearnId \/ FromThermometer
  <2> DEFINE e == [to |-> Head(up).from, id |-> Head(up).from, body |-> Head(up).body]
  <2>1. /\ ~alarmLost /\ up # <<>> /\ up' = Tail(up)
        /\ loop # "confirming" /\ loop' # "confirming"
        /\ down' \in {down, SendTo(down, e)}
        /\ devAlarm' = devAlarm
    BY <1>4 DEF LearnId, FromThermometer, Echo, deviceVars
  <2>2. Kept(a, c, loop, down, Tail(up), v, t)
    <3> HIDE DEF t, v
    <3> QED BY <1>0, <1>2, <2>1, KeptUp
  <2>3. Kept(a, c, loop, SendTo(down, e), Tail(up), v, t)
    <3> HIDE DEF t, v
    <3> QED BY <1>0, <1>2, <2>1, KeptEcho
  <2>4. Kept(a, c, loop, down', up', v, t)
    <3> HIDE DEF t, v, e
    <3> QED BY <2>1, <2>2, <2>3
  <2> QED BY <2>1, <2>4 DEF Kept
<1>5. CASE Delivered
  <2>1. PICK h : h = Head(down)
    OBVIOUS
  <2>2. /\ ~alarmLost /\ down # <<>> /\ down' = Tail(down) /\ loop' = loop
        /\ h \in Datagram /\ h.to \in Addrs /\ h.body \in Body
    <3>1. ~alarmLost /\ down # <<>> /\ down' = Tail(down) /\ loop' = loop
      BY <1>5 DEF Delivered
    <3>2. h \in Datagram
      BY <1>0, <2>1, <3>1, HeadTailProperties
    <3> QED BY <3>1, <3>2 DEF Datagram
  <2>3. CASE h \in OnItsWay(a, c)
    <3>1. h.to = a /\ IsAlarm(h.body) /\ h.body.channel = c
      BY <2>3 DEF OnItsWay
    <3>2. /\ devAlarm' = [devAlarm EXCEPT ![a] = [@ EXCEPT ![c] = h.body.temp]]
          /\ devAlarm \in [Addrs -> [Channel -> WireTemps]]
      BY <1>5, <2>1, <3>1 DEF Delivered, TypeOK, LinkTypeOK
    <3>3. devAlarm'[a][c] = h.body.temp
      BY <3>2
    <3> HIDE DEF t, v
    <3> QED BY <1>0, <1>2, <2>1, <2>2, <2>3, <3>3, KeptDelivered
  <2>4. CASE h \notin OnItsWay(a, c)
    <3>1. ~ (h.to = a /\ IsAlarm(h.body) /\ h.body.channel = c)
      BY <2>2, <2>4 DEF OnItsWay
    <3>2. devAlarm'[a][c] = v
      <4>1. IsAlarm(h.body) => h.body.channel \in Channel
        BY <2>2, AlarmBody DEF IsAlarm
      <4> QED BY <1>5, <2>1, <2>2, <3>1, <4>1 DEF Delivered, TypeOK, LinkTypeOK
    <3>3. PICK w : w = [from |-> h.to, body |-> h.body]
      OBVIOUS
    <3>4. w \in UpDatagram /\ w \notin OnItsWayBack(a, c)
      BY <2>2, <3>1, <3>3 DEF UpDatagram, OnItsWayBack
    <3>5. up' \in {up, SendTo(up, w)}
      BY <1>5, <2>1, <3>3 DEF Delivered
    <3> HIDE DEF t, v
    <3>6. Kept(a, c, loop, Tail(down), up, v, t)
      BY <1>0, <1>2, <2>1, <2>2, <2>4, KeptTaken
    <3>7. Kept(a, c, loop, Tail(down), SendTo(up, w), v, t)
      BY <1>0, <3>4, <3>6, KeptUp
    <3> QED BY <2>2, <3>2, <3>5, <3>6, <3>7
  <2> QED BY <2>3, <2>4
<1>6. ASSUME NEW b \in Addrs, Report(b)
      PROVE  Kept(a, c, loop', down', up', devAlarm'[a][c], t)
  <2>1. PICK w : w = [from |-> b, body |-> IF streaming[b] THEN Temperature ELSE Keepalive]
    OBVIOUS
  <2>2. w \in UpDatagram /\ w \notin OnItsWayBack(a, c)
    BY <2>1 DEF UpDatagram, OnItsWayBack, Body, IsAlarm, Temperature, Keepalive
  <2>3. /\ ~alarmLost /\ up' = Append(up, w)
        /\ loop' = loop /\ down' = down /\ devAlarm' = devAlarm
    BY <1>6, <2>1 DEF Report, ioVars, deviceVars
  <2> HIDE DEF t
  <2> QED BY <1>0, <1>2, <2>2, <2>3, KeptUp
<1>7. CASE LoseDown
  <2>1. /\ ~alarmLost /\ down # <<>> /\ down' = Tail(down)
        /\ loop' = loop /\ up' = up /\ devAlarm' = devAlarm
        /\ ~IsAlarm(Head(down).body)
    BY <1>7 DEF LoseDown, linkVars, deviceVars
  <2>2. Head(down) \notin OnItsWay(a, c)
    BY <2>1 DEF OnItsWay
  <2> HIDE DEF t
  <2> QED BY <1>0, <1>2, <2>1, <2>2, KeptTaken
<1>8. CASE LoseUp
  <2>1. /\ ~alarmLost /\ up # <<>> /\ up' = Tail(up)
        /\ loop' = loop /\ down' = down /\ devAlarm' = devAlarm
    BY <1>8 DEF LoseUp, deviceVars
  <2> HIDE DEF t
  <2> QED BY <1>0, <1>2, <2>1, KeptUp
<1> QED BY <1>3, <1>4, <1>5, <1>6, <1>7, <1>8 DEF Serve, Firmware, Losses

\* set-alarm itself.
LEMMA AskKeeps ==
  ASSUME TypeOK, AskedInv, ~alarmLost', AskStep \/ AskDone,
         NEW a \in Addrs, NEW c \in Channel
  PROVE  Promised(a, c)'
<1> DEFINE t == told[a][c]
           v == devAlarm[a][c]
<1>0. down \in Seq(Datagram) /\ up \in Seq(UpDatagram)
  BY DEF TypeOK, IOTypeOK, LinkTypeOK
<1>1. ~alarmLost /\ t # NoAsk => Kept(a, c, loop, down, up, v, t)
  BY DEF AskedInv, Promised
<1>2. CASE AskSent
  <2> DEFINE d == Head(up)
             q0 == Echo(d)
             q1 == Sent(q0, d.from, 1)
             q2 == Sent(q1, d.from, 2)
  <2>1. /\ down' = q2 /\ loop' = "confirming" /\ devAlarm' = devAlarm
        /\ told = NothingTold /\ told' = [told EXCEPT ![d.from] = asks]
        /\ ~Dropped(q0, 1) /\ ~Dropped(q1, 2)
    <3>1. loop = "setting"
      BY <1>2 DEF AskSent
    <3>2. told = NothingTold
      BY <3>1 DEF AskedInv
    <3> HIDE DEF q0, q1
    <3> QED BY <1>2, <3>2 DEF AskSent, deviceVars, q0, q1, q2
  <2>2. d \in UpDatagram /\ d.from \in Addrs
    BY <1>2, UpTaken DEF AskSent, UpDatagram, TypeOK
  <2>3. q0 \in Seq(Datagram) /\ Len(q0) <= FlightCap
    BY <2>2, EchoType DEF TypeOK
  <2>4. told'[a][c] # NoAsk => a = d.from /\ told'[a][c] = asks[c] /\ asks[c] # NoAsk
    <3> HIDE DEF d
    <3> QED BY <2>1, <2>2 DEF NothingTold, Nothing
  <2>5. asks[c] # NoAsk => Kept(d.from, c, "confirming", q2, up', v, asks[c])
    <3> HIDE DEF d, q0, v
    <3> QED BY <2>1, <2>2, <2>3, KeptAsked
  <2> HIDE DEF d, q0, q1, q2
  <2> QED BY <2>1, <2>4, <2>5 DEF Promised
<1>3. CASE AskMisled
  BY <1>3 DEF AskMisled
<1>4. CASE AskHeard
  <2>1. PICK d : d = Head(up)
    OBVIOUS
  <2>2. PICK e : e = [to |-> d.from, id |-> d.from, body |-> d.body]
    OBVIOUS
  <2>3. /\ ~alarmLost /\ loop = "confirming" /\ loop' = loop /\ devAlarm' = devAlarm /\ told' = told
        /\ down' = IF ConfirmEchoes(d.body) THEN SendTo(down, e) ELSE down
        /\ up # <<>> /\ up' = Tail(up)
    BY <1>4, <2>1, <2>2 DEF AskHeard, deviceVars, askVars
  <2>4. d \in UpDatagram
    BY <1>0, <2>1, <2>3, HeadTailProperties
  <2>5. e \in Datagram
    BY <2>2, <2>4 DEF Datagram, UpDatagram, Ids
  <2>6. ConfirmEchoes(d.body) => e \notin OnItsWay(a, c)
    BY <2>2 DEF ConfirmEchoes, OnItsWay, IsAlarm, Temperature
  <2>7. t # NoAsk => Kept(a, c, loop, down, Tail(up), v, t)
    <3> HIDE DEF t, v
    <3> QED BY <1>0, <1>1, <2>3, KeptUp
  <2>8. t # NoAsk /\ ConfirmEchoes(d.body) => Kept(a, c, loop, SendTo(down, e), Tail(up), v, t)
    <3> HIDE DEF t, v
    <3> QED BY <1>0, <2>5, <2>6, <2>7, KeptSend
  <2>9. t # NoAsk => Kept(a, c, loop, down', Tail(up), v, t)
    BY <2>3, <2>7, <2>8
  <2> QED BY <2>3, <2>9 DEF Promised
<1>5. CASE AskDone
  <2>1. /\ ~alarmLost /\ loop = "confirming" /\ loop' = "down"
        /\ up' = <<>> /\ down' = down /\ devAlarm' = devAlarm /\ told' = told
    BY <1>5 DEF AskDone, deviceVars, askVars
  <2>2. NoneIn(down, OnItsWay(a, c))
    <3>1. \A i \in 1 .. Len(down) : ~IsAlarm(down[i].body)
      BY <1>0, <1>5, LenProperties DEF AskDone
    <3> QED BY <3>1 DEF NoneIn, OnItsWay
  <2>3. NoneIn(<<>>, OnItsWayBack(a, c))
    BY DEF NoneIn
  <2> QED BY <1>1, <2>1, <2>2, <2>3 DEF Promised, Kept
<1> QED BY <1>2, <1>3, <1>4, <1>5 DEF AskStep

\* Everybody else.
LEMMA OthersKeep ==
  ASSUME TypeOK, AskedInv, ~alarmLost', NEW a \in Addrs, NEW c \in Channel,
         \/ Switched \/ Taken \/ Ordered \/ Asked \/ Restart
         \/ (\E b \in Addrs : Stray(b)) \/ UNCHANGED vars
  PROVE  Promised(a, c)'
<1>0. /\ down \in Seq(Datagram) /\ up \in Seq(UpDatagram)
      /\ told \in [Addrs -> [Channel -> AskTemps \cup {NoAsk}]]
      /\ devAlarm \in [Addrs -> [Channel -> WireTemps]]
      /\ power \in [Addrs -> BOOLEAN]
  BY DEF TypeOK, IOTypeOK, LinkTypeOK, AskTypeOK, Asks
<1>1. ~alarmLost => Promised(a, c)
  BY DEF AskedInv
<1>2. CASE Switched
  <2>1. PICK b \in Addrs : SwitchOn(b) \/ SwitchOff(b)
    BY <1>2 DEF Switched
  <2>2. told'[a][c] = IF power[a] /\ ~power'[a] THEN NoAsk ELSE told[a][c]
    BY <1>2 DEF Switched, Nothing
  <2>3. ~alarmLost /\ UNCHANGED <<loop, up, down>>
    BY <2>1 DEF SwitchOn, SwitchOff, ioVars
  <2>4. CASE SwitchOn(b)
    <3>1. UNCHANGED devAlarm
      BY <2>4 DEF SwitchOn
    <3> QED BY <1>1, <2>2, <2>3, <3>1, StillPromised
  <2>5. CASE SwitchOff(b) /\ a = b
    <3>1. power[a] /\ ~power'[a]
      BY <1>0, <2>5 DEF SwitchOff
    <3> QED BY <2>2, <3>1 DEF Promised
  <2>6. CASE SwitchOff(b) /\ a # b
    <3>1. devAlarm'[a][c] = devAlarm[a][c]
      BY <1>0, <2>6 DEF SwitchOff
    <3> QED BY <1>1, <2>2, <2>3, <3>1, StillPromised
  <2> QED BY <2>1, <2>4, <2>5, <2>6
<1>3. CASE Taken
  BY <1>1, <1>3, StillPromised DEF Taken, linkVars, deviceVars, askVars
<1>4. CASE Ordered
  <2>1. PICK b \in Addrs, k \in Channel, t \in WireTemps :
          /\ down' = SendTo(down, [to |-> b, id |-> b, body |-> Alarm(k, t)])
          /\ told' = [told EXCEPT ![b][k] = NoAsk]
    BY <1>4 DEF Ordered
  <2>2. ~alarmLost /\ UNCHANGED <<loop, up, devAlarm>>
    BY <1>4 DEF Ordered, linkVars, deviceVars
  <2>3. CASE a = b /\ c = k
    BY <1>0, <2>1, <2>3 DEF Promised
  <2>4. CASE ~ (a = b /\ c = k)
    <3>1. told'[a][c] = told[a][c]
      BY <1>0, <2>1, <2>4
    <3>2. PICK d : d = [to |-> b, id |-> b, body |-> Alarm(k, t)]
      OBVIOUS
    <3>3. d \in Datagram /\ d \notin OnItsWay(a, c)
      BY <2>4, <3>2, OrderType DEF OnItsWay, Alarm
    <3>4. told[a][c] # NoAsk => Kept(a, c, loop, down, up, devAlarm[a][c], told[a][c])
      BY <1>1, <2>2 DEF Promised
    <3>5. told[a][c] # NoAsk => Kept(a, c, loop, SendTo(down, d), up, devAlarm[a][c], told[a][c])
      BY <1>0, <3>3, <3>4, KeptSend
    <3> QED BY <2>1, <2>2, <3>1, <3>2, <3>5 DEF Promised
  <2> QED BY <2>3, <2>4
<1>5. CASE Asked
  BY <1>5 DEF Asked, AskFor, Promised, NothingTold, Nothing
<1>6. CASE Restart
  <2>1. /\ ~alarmLost /\ UNCHANGED <<down, up, devAlarm>> /\ loop' = "down"
        /\ told' = IF loop = "confirming" THEN NothingTold ELSE told
    BY <1>6 DEF Restart, StopLoop, deviceVars
  <2>2. CASE loop = "confirming"
    BY <2>1, <2>2 DEF Promised, NothingTold, Nothing
  <2>3. CASE loop # "confirming"
    BY <1>1, <2>1, <2>3, StillPromised
  <2> QED BY <2>2, <2>3
<1>7. ASSUME NEW b \in Addrs, Stray(b) PROVE Promised(a, c)'
  <2>1. PICK d : d = [from |-> b, body |-> Noise]
    OBVIOUS
  <2>2. /\ ~alarmLost /\ UNCHANGED <<loop, down, devAlarm, told>> /\ up' = Append(up, d)
    BY <1>7, <2>1 DEF Stray, deviceVars, ioVars, askVars
  <2>3. d \in UpDatagram /\ d \notin OnItsWayBack(a, c)
    BY <2>1 DEF UpDatagram, Body, OnItsWayBack, IsAlarm, Noise
  <2>4. told[a][c] # NoAsk => Kept(a, c, loop, down, Append(up, d), devAlarm[a][c], told[a][c])
    BY <1>0, <1>1, <2>2, <2>3, KeptUp DEF Promised
  <2> QED BY <2>2, <2>4 DEF Promised
<1>8. CASE UNCHANGED vars
  BY <1>1, <1>8, StillPromised DEF vars, linkVars, deviceVars, ioVars, askVars
<1> QED BY <1>2, <1>3, <1>4, <1>5, <1>6, <1>7, <1>8

\* Every step keeps what was told with the thermometer or on its way there.
LEMMA AskedStep == TypeOK /\ AskedInv /\ [Next]_vars => AskedInv'
<1> SUFFICES ASSUME TypeOK, AskedInv, [Next]_vars PROVE AskedInv'
  OBVIOUS
<1>1. loop' = "setting" => told' = NothingTold
  <2> SUFFICES ASSUME loop' = "setting" PROVE told' = NothingTold
    OBVIOUS
  <2>1. loop = "setting" => told = NothingTold
    BY DEF AskedInv
  <2>2. CASE (Serve \/ Firmware \/ Losses) /\ UNCHANGED <<askVars, orders>>
    BY <2>1, <2>2
    DEF Serve, Firmware, Losses, Start, LearnId, FromThermometer, Delivered, Report, LoseDown,
        LoseUp, linkVars, askVars
  <2>3. CASE AskStep \/ AskDone
    BY <2>3 DEF AskStep, AskSent, AskMisled, AskHeard, AskDone
  <2>4. CASE Switched
    <3>1. loop = "setting"
      BY <2>4 DEF Switched, SwitchOn, SwitchOff
    <3> QED BY <2>1, <2>4, <3>1 DEF Switched, NothingTold
  <2>5. CASE Taken \/ Ordered \/ Asked \/ Restart \/ \E a \in Addrs : Stray(a)
    BY <2>1, <2>5
    DEF Taken, Ordered, Asked, AskFor, Restart, StopLoop, Stray, linkVars, askVars
  <2>6. CASE UNCHANGED vars
    BY <2>1, <2>6 DEF vars, linkVars, askVars
  <2> QED BY <2>2, <2>3, <2>4, <2>5, <2>6 DEF Next
<1>2. ASSUME ~alarmLost', NEW a \in Addrs, NEW c \in Channel PROVE Promised(a, c)'
  <2>1. CASE (Serve \/ Firmware \/ Losses) /\ UNCHANGED <<askVars, orders>>
    BY <1>2, <2>1, LinkKeeps
  <2>2. CASE AskStep \/ AskDone
    BY <1>2, <2>2, AskKeeps
  <2>3. CASE \/ Switched \/ Taken \/ Ordered \/ Asked \/ Restart
             \/ (\E b \in Addrs : Stray(b)) \/ UNCHANGED vars
    BY <1>2, <2>3, OthersKeep
  <2> QED BY <2>1, <2>2, <2>3 DEF Next
<1> QED BY <1>1, <1>2 DEF AskedInv

\* Whatever thermometers answer and whatever is read meanwhile: once set-alarm has said that
\* the alarm is set (main.rs:963), each setpoint asked for is in force at the thermometer it
\* answered, until a later order, a power cycle or a lost alarm packet.
THEOREM AskedAreSet == Spec => []AskedIsSet
<1>1. Init => AskedInv
  BY DEF Init, AskInit, LinkInit, AskedInv, Promised, NothingTold, Nothing
<1>2. AskedInv => AskedIsSet
  BY DEF AskedInv, AskedIsSet, Promised, Kept
<1> QED BY <1>1, <1>2, AskedStep, LinkTypeCorrect, PTL DEF Spec

-----------------------------------------------------------------------------
(* The checksum *)

\* s[i] is the sum of the first i bytes.
Sums(content, s) ==
  /\ s \in [0 .. Len(content) -> Int]
  /\ \A i \in 0 .. Len(content) : s[i] = IF i = 0 THEN 0 ELSE s[i - 1] + content[i]

\* Every set of numbers that is not empty has a least one: induction without an operator.
LEMMA Least ==
  ASSUME NEW T \in SUBSET Nat, T # {}
  PROVE  \E n \in T : \A m \in T : n <= m
<1>1. \E R : IsWellFoundedOn(R, Nat) /\ \A x, y \in Nat : y < x => <<y, x>> \in R
  <2>1. IsWellFoundedOn(OpToRel(<, Nat), Nat)
    BY NatLessThanWellFounded
  <2>2. \A x, y \in Nat : y < x => <<y, x>> \in OpToRel(<, Nat)
    BY DEF OpToRel
  <2> WITNESS OpToRel(<, Nat)
  <2> QED BY <2>1, <2>2
<1>2. PICK R : IsWellFoundedOn(R, Nat) /\ \A x, y \in Nat : y < x => <<y, x>> \in R
  BY <1>1
<1>3. PICK x \in T : \A y \in T : ~ (<<y, x>> \in R)
  BY <1>2, WFMin
<1>4. \A y \in T : ~ (y < x)
  BY <1>2, <1>3
<1> QED BY <1>4

\* The sums of the first bytes exist, up to any byte and so up to the last.
LEMMA SumsExist ==
  ASSUME NEW content \in Seq(Int)
  PROVE  \E s : Sums(content, s)
<1> DEFINE n == Len(content)
           Upto(m, g) == /\ g \in [0 .. m -> Int]
                         /\ \A i \in 0 .. m : g[i] = IF i = 0 THEN 0 ELSE g[i - 1] + content[i]
           T == {m \in 0 .. n : ~ \E g : Upto(m, g)}
<1>0. n \in Nat /\ \A i \in 1 .. n : content[i] \in Int
  BY LenProperties, ElementOfSeq
<1> HIDE DEF n
<1>1. T = {}
  <2> SUFFICES ASSUME T # {} PROVE FALSE
    OBVIOUS
  <2>0. T \in SUBSET Nat
    BY <1>0
  <2> HIDE DEF T
  <2>1. PICK m \in T : \A k \in T : m <= k
    BY <2>0, Least
  <2>2. m \in 0 .. n /\ ~ \E g : Upto(m, g)
    BY <2>1 DEF T
  <2>3. m # 0
    <3> SUFFICES ASSUME m = 0 PROVE FALSE
      OBVIOUS
    <3>1. Upto(0, [i \in 0 .. 0 |-> 0])
      OBVIOUS
    <3> QED BY <2>2, <3>1
  <2>4. m - 1 \in 0 .. n /\ m - 1 \notin T
    BY <1>0, <2>1, <2>2, <2>3
  <2>5. PICK g : Upto(m - 1, g)
    BY <2>4 DEF T
  <2> DEFINE h == [i \in 0 .. m |-> IF i = m THEN g[m - 1] + content[m] ELSE g[i]]
  <2>6. g[m - 1] \in Int /\ content[m] \in Int
    BY <1>0, <2>2, <2>3, <2>5
  <2>7. Upto(m, h)
    <3>1. h \in [0 .. m -> Int]
      BY <2>2, <2>3, <2>5, <2>6
    <3>2. ASSUME NEW i \in 0 .. m
          PROVE  h[i] = IF i = 0 THEN 0 ELSE h[i - 1] + content[i]
      <4>1. CASE i = m
        BY <2>2, <2>3, <3>2, <4>1
      <4>2. CASE i # m
        <5>1. i \in 0 .. m - 1 /\ (i # 0 => i - 1 \in 0 .. m - 1 /\ i - 1 # m)
          BY <2>2, <4>2
        <5>2. h[i] = g[i] /\ (i # 0 => h[i - 1] = g[i - 1])
          BY <2>2, <4>2, <5>1
        <5> HIDE DEF h
        <5> QED BY <2>5, <5>1, <5>2
      <4> QED BY <4>1, <4>2
    <3> HIDE DEF h
    <3> QED BY <3>1, <3>2
  <2> QED BY <2>2, <2>7
<1>2. n \in 0 .. n /\ n \notin T
  <2> HIDE DEF T
  <2> QED BY <1>0, <1>1
<1>3. PICK g : Upto(n, g)
  BY <1>2
<1> QED BY <1>3 DEF Sums, n

\* compute_checksum adds them all.
LEMMA ChecksumIs ==
  ASSUME NEW content \in Seq(Int), NEW s, Sums(content, s)
  PROVE  /\ compute_checksum(content) = (s[Len(content)] + START_BYTE) % 256
         /\ compute_checksum(content) \in Byte
<1> DEFINE n == Len(content)
           adds(g) == g = [i \in 0 .. n |-> IF i = 0 THEN 0 ELSE g[i - 1] + content[i]]
           c == CHOOSE g : adds(g)
<1>0. n \in Nat
  BY LenProperties
<1>1. adds(s)
  BY DEF Sums
<1>2. adds(c)
  BY <1>1
<1>3. compute_checksum(content) = (c[n] + START_BYTE) % 256
  BY DEF compute_checksum
<1> HIDE DEF n, c
<1>4. /\ \A i \in 0 .. n : c[i] = IF i = 0 THEN 0 ELSE c[i - 1] + content[i]
      /\ \A i \in 0 .. n : s[i] = IF i = 0 THEN 0 ELSE s[i - 1] + content[i]
  BY <1>1, <1>2
<1>5. \A i \in 0 .. n : c[i] = s[i]
  <2> DEFINE T == {i \in 0 .. n : c[i] # s[i]}
  <2> SUFFICES ASSUME T # {} PROVE FALSE
    OBVIOUS
  <2>0. T \in SUBSET Nat
    BY <1>0
  <2> HIDE DEF T
  <2>1. PICK m \in T : \A k \in T : m <= k
    BY <2>0, Least
  <2>2. m \in 0 .. n /\ c[m] # s[m]
    BY <2>1 DEF T
  <2>3. m # 0
    BY <1>4, <2>2
  <2>4. m - 1 \in 0 .. n /\ m - 1 \notin T
    BY <1>0, <2>1, <2>2, <2>3
  <2> QED BY <1>4, <2>2, <2>3, <2>4 DEF T
<1>6. s[n] \in Int
  BY <1>0 DEF Sums, n
<1>7. (s[n] + START_BYTE) % 256 \in Byte
  <2>1. \A x \in Int : x % 256 \in 0 .. 255
    BY SMT
  <2>2. PICK x \in Int : x = s[n] + START_BYTE
    BY <1>6 DEF START_BYTE
  <2>3. x % 256 \in 0 .. 255
    BY <2>1
  <2> QED BY <2>2, <2>3 DEF Byte
<1> QED BY <1>0, <1>3, <1>5, <1>7 DEF n

\* The checksum of bytes with the sum x. The difference of two bytes is no multiple of 256.
Ck(x) == (x + START_BYTE) % 256

\* Sums that differ by less than 256 have different checksums.
LEMMA ByteGap ==
  ASSUME NEW a \in Int, NEW b \in Int, NEW x \in Byte, NEW y \in Byte, x # y, a - b = x - y
  PROVE  Ck(a) # Ck(b)
BY SMT DEF Ck, Byte, START_BYTE

\* Two contents that differ in one byte have different checksums.
LEMMA OneByteTells ==
  ASSUME NEW c \in Seq(Int), NEW d \in Seq(Int), Len(c) = Len(d), NEW k \in 1 .. Len(c),
         c[k] \in Byte, d[k] \in Byte, c[k] # d[k],
         \A i \in 1 .. Len(c) : i # k => c[i] = d[i]
  PROVE  compute_checksum(c) # compute_checksum(d)
<1>1. PICK n \in Nat : n = Len(c)
  BY LenProperties
<1>2. PICK s : Sums(c, s)
  BY SumsExist
<1>3. PICK t : Sums(d, t)
  BY SumsExist
<1>4. /\ \A i \in 0 .. n : s[i] \in Int /\ s[i] = IF i = 0 THEN 0 ELSE s[i - 1] + c[i]
      /\ \A i \in 0 .. n : t[i] \in Int /\ t[i] = IF i = 0 THEN 0 ELSE t[i - 1] + d[i]
      /\ \A i \in 1 .. n : c[i] \in Int /\ d[i] \in Int
  BY <1>1, <1>2, <1>3, ElementOfSeq DEF Sums
<1>5. \A i \in 0 .. n : s[i] - t[i] = IF i < k THEN 0 ELSE c[k] - d[k]
  <2> DEFINE T == {i \in 0 .. n : ~ (s[i] - t[i] = IF i < k THEN 0 ELSE c[k] - d[k])}
  <2> SUFFICES ASSUME T # {} PROVE FALSE
    OBVIOUS
  <2>0. T \in SUBSET Nat
    OBVIOUS
  <2> HIDE DEF T
  <2>1. PICK m \in T : \A j \in T : m <= j
    BY <2>0, Least
  <2>2. m \in 0 .. n /\ ~ (s[m] - t[m] = IF m < k THEN 0 ELSE c[k] - d[k])
    BY <2>1 DEF T
  <2>3. m # 0
    BY <1>1, <1>4, <2>2
  <2>4. m - 1 \in 0 .. n /\ m - 1 \notin T
    BY <2>1, <2>2, <2>3
  <2>5. s[m - 1] - t[m - 1] = IF m - 1 < k THEN 0 ELSE c[k] - d[k]
    BY <2>4 DEF T
  <2>6. s[m] = s[m - 1] + c[m] /\ t[m] = t[m - 1] + d[m]
    BY <1>4, <2>2, <2>3
  <2>7. m # k => c[m] = d[m]
    BY <1>1, <2>2, <2>3
  <2>8. s[m - 1] \in Int /\ t[m - 1] \in Int /\ c[m] \in Int /\ d[m] \in Int
    BY <1>4, <2>2, <2>3, <2>4
  <2> QED BY <1>1, <2>2, <2>5, <2>6, <2>7, <2>8
<1>6. s[n] - t[n] = c[k] - d[k] /\ s[n] \in Int /\ t[n] \in Int
  BY <1>1, <1>4, <1>5
<1>7. compute_checksum(c) = Ck(s[n]) /\ compute_checksum(d) = Ck(t[n])
  BY <1>1, <1>2, <1>3, ChecksumIs DEF Ck
<1>8. PICK a \in Int, b \in Int, x \in Byte, y \in Byte :
        a = s[n] /\ b = t[n] /\ x = c[k] /\ y = d[k]
  BY <1>6, Zenon
<1>9. x # y /\ a - b = x - y
  BY <1>6, <1>8, Zenon
<1>10. Ck(a) # Ck(b)
  BY <1>9, ByteGap
<1> QED BY <1>7, <1>8, <1>10

-----------------------------------------------------------------------------
(* What is built is read back, echoed and, when garbled, dropped *)

\* A word is its two bytes.
LEMMA WordBytes ==
  ASSUME NEW w \in Word
  PROVE  /\ Low(w) \in Byte /\ High(w) \in Byte
         /\ LeWord(Low(w), High(w)) = w
  BY SMT DEF Word, Byte, LeWord, Low, High

\* A sequence between one element and two.
LEMMA Frame ==
  ASSUME NEW T, NEW a \in T, NEW b \in T, NEW c \in T, NEW s \in Seq(T), NEW p,
         p = <<a>> \o s \o <<b, c>>
  PROVE  /\ p \in Seq(T)
         /\ Len(p) = Len(s) + 3
         /\ p[1] = a /\ p[Len(s) + 2] = b /\ p[Len(s) + 3] = c
         /\ \A i \in 1 .. Len(s) : p[i + 1] = s[i]
<1>1. <<a>> \in Seq(T) /\ Len(<<a>>) = 1 /\ <<a>>[1] = a
  OBVIOUS
<1>2. <<b, c>> \in Seq(T) /\ Len(<<b, c>>) = 2 /\ <<b, c>>[1] = b /\ <<b, c>>[2] = c
  OBVIOUS
<1>3. Len(s) \in Nat
  BY LenProperties
<1>4. /\ <<a>> \o s \in Seq(T) /\ Len(<<a>> \o s) = 1 + Len(s)
      /\ \A i \in 1 .. 1 + Len(s) : (<<a>> \o s)[i] = IF i <= 1 THEN <<a>>[i] ELSE s[i - 1]
  BY <1>1, ConcatProperties
<1>5. PICK h : h = <<a>> \o s
  OBVIOUS
<1>6. PICK e : e = <<b, c>>
  OBVIOUS
<1>7. /\ h \in Seq(T) /\ Len(h) = Len(s) + 1 /\ h[1] = a
      /\ \A i \in 1 .. Len(s) : h[i + 1] = s[i]
  BY <1>1, <1>3, <1>4, <1>5
<1>8. /\ h \o e \in Seq(T) /\ Len(h \o e) = Len(h) + Len(e)
      /\ \A i \in 1 .. Len(h) + Len(e) : (h \o e)[i] = IF i <= Len(h) THEN h[i] ELSE e[i - Len(h)]
  BY <1>2, <1>6, <1>7, ConcatProperties
<1>9. p = h \o e
  BY <1>5, <1>6
<1> QED BY <1>2, <1>3, <1>6, <1>7, <1>8, <1>9

\* What is between the delimiters and the checksum.
LEMMA Inside ==
  ASSUME NEW c \in Seq(Int), NEW n \in Nat, n = Len(c), NEW p \in Seq(Int), Len(p) = n + 3,
         \A i \in 1 .. n : p[i + 1] = c[i]
  PROVE  SubSeq(p, 2, n + 1) = c
<1>1. \A i \in 2 .. n + 1 : p[i] \in Int
  BY ElementOfSeq
<1>2. PICK q : q = SubSeq(p, 2, n + 1)
  OBVIOUS
<1>3. q \in Seq(Int) /\ Len(q) = n /\ \A i \in 1 .. n : q[i] = p[2 + i - 1]
  BY <1>1, <1>2, SubSeqProperties
<1>4. \A i \in 1 .. n : q[i] = c[i]
  BY <1>3
<1> QED BY <1>2, <1>3, <1>4, SeqEqual

\* Where the bytes of a framed packet are.
LEMMA SealedBytes ==
  ASSUME NEW content \in Seq(Int), NEW n \in Nat, Len(content) = n,
         NEW p, p = Sealed(content)
  PROVE  /\ p \in Seq(Int) /\ Len(p) = n + 3
         /\ p[1] = START_BYTE
         /\ p[n + 3] = END_BYTE
         /\ p[n + 2] = compute_checksum(content)
         /\ compute_checksum(content) \in Byte
         /\ \A i \in 1 .. n : p[i + 1] = content[i]
         /\ SubSeq(p, 2, n + 1) = content
<1>1. PICK ck : ck = compute_checksum(content)
  OBVIOUS
<1>2. ck \in Byte
  BY <1>1, SumsExist, ChecksumIs
<1>3. START_BYTE \in Int /\ END_BYTE \in Int /\ ck \in Int
  BY <1>2 DEF START_BYTE, END_BYTE, Byte
<1>4. p = <<START_BYTE>> \o content \o <<ck, END_BYTE>>
  BY <1>1 DEF Sealed
<1>5. /\ p \in Seq(Int) /\ Len(p) = n + 3
      /\ p[1] = START_BYTE /\ p[n + 2] = ck /\ p[n + 3] = END_BYTE
      /\ \A i \in 1 .. n : p[i + 1] = content[i]
  BY <1>3, <1>4, Frame
<1>6. SubSeq(p, 2, n + 1) = content
  BY <1>5, Inside
<1> QED BY <1>1, <1>2, <1>5, <1>6

\* A framed content of 15 bytes is read as two temperatures, whatever its direction.
LEMMA TempRead ==
  ASSUME NEW c \in Seq(Int), Len(c) = 15, c[1] = TYPE_TEMP
  PROVE  try_parse(Sealed(c))
           = [kind |-> "temp", values |-> <<LeWord(c[12], c[13]), LeWord(c[14], c[15])>>]
<1>0. PICK p : p = Sealed(c)
  OBVIOUS
<1>1. PICK n \in Nat : n = 15
  OBVIOUS
<1>2. c \in Seq(Int) /\ n \in Nat /\ Len(c) = n
  BY <1>1
<1>3. /\ Len(p) = n + 3
      /\ p[1] = START_BYTE /\ p[n + 3] = END_BYTE
      /\ p[n + 2] = compute_checksum(c)
      /\ \A i \in 1 .. n : p[i + 1] = c[i]
      /\ SubSeq(p, 2, n + 1) = c
  BY ONLY <1>0, <1>2, SealedBytes, Zenon
<1>4. n + 3 = 18 /\ n + 2 = 17 /\ n + 1 = 16
  BY <1>1
<1>5. /\ Len(p) = 18 /\ p[1] = START_BYTE /\ p[18] = END_BYTE
      /\ p[17] = compute_checksum(SubSeq(p, 2, 16))
  BY <1>3, <1>4, Zenon
<1>6. /\ p[1 + 1] = c[1] /\ p[12 + 1] = c[12] /\ p[13 + 1] = c[13]
      /\ p[14 + 1] = c[14] /\ p[15 + 1] = c[15]
  <2>1. {1, 12, 13, 14, 15} \subseteq 1 .. n
    BY <1>1
  <2> QED BY <1>3, <2>1, Zenon
<1>7. p[2] = TYPE_TEMP /\ p[13] = c[12] /\ p[14] = c[13] /\ p[15] = c[14] /\ p[16] = c[15]
  BY <1>6
<1> QED BY <1>0, <1>5, <1>7 DEF try_parse, IsTempPacket

\* One of 13 bytes with the marks of a channel is read as a setpoint for it.
LEMMA AlarmRead ==
  ASSUME NEW c \in Seq(Int), Len(c) = 13, c[1] = TYPE_TEMP,
         <<c[7], c[8]>> \in {ALARM_CH1, ALARM_CH2}
  PROVE  try_parse(Sealed(c)) = [kind |-> "alarm",
                                 values |-> <<IF c[8] = 49 THEN 1 ELSE 2, LeWord(c[12], c[13])>>]
<1>0. PICK p : p = Sealed(c)
  OBVIOUS
<1>1. PICK n \in Nat : n = 13
  OBVIOUS
<1>2. c \in Seq(Int) /\ n \in Nat /\ Len(c) = n
  BY <1>1
<1>3. /\ Len(p) = n + 3
      /\ p[1] = START_BYTE /\ p[n + 3] = END_BYTE
      /\ p[n + 2] = compute_checksum(c)
      /\ \A i \in 1 .. n : p[i + 1] = c[i]
      /\ SubSeq(p, 2, n + 1) = c
  BY ONLY <1>0, <1>2, SealedBytes, Zenon
<1>4. n + 3 = 16 /\ n + 2 = 15 /\ n + 1 = 14
  BY <1>1
<1>5. /\ Len(p) = 16 /\ p[1] = START_BYTE /\ p[16] = END_BYTE
      /\ p[15] = compute_checksum(SubSeq(p, 2, 14))
  BY <1>3, <1>4, Zenon
<1>6. /\ p[1 + 1] = c[1] /\ p[7 + 1] = c[7] /\ p[8 + 1] = c[8]
      /\ p[12 + 1] = c[12] /\ p[13 + 1] = c[13]
  <2>1. {1, 7, 8, 12, 13} \subseteq 1 .. n
    BY <1>1
  <2> QED BY <1>3, <2>1, Zenon
<1>7. p[2] = TYPE_TEMP /\ p[8] = c[7] /\ p[9] = c[8] /\ p[13] = c[12] /\ p[14] = c[13]
  BY <1>6
<1> QED BY <1>0, <1>5, <1>7 DEF try_parse, IsTempPacket, IsAlarmPacket

\* One of any other length is neither.
LEMMA LengthsTell ==
  ASSUME NEW p, Len(p) # 16, Len(p) # 18
  PROVE  try_parse(p).kind = "unknown" /\ try_parse(p) = [kind |-> "unknown", values |-> <<>>]
BY DEF try_parse, IsTempPacket, IsAlarmPacket

\* A setpoint on a channel is read back as that setpoint on that channel, whatever
\* thermometer it is addressed to (protocol.rs:286-335).
THEOREM AlarmRoundTrip ==
  ASSUME NEW id \in [1 .. 5 -> Byte], NEW channel \in {1, 2}, NEW t \in Word
  PROVE  try_parse(AlarmPacket(id, channel, t)) = [kind |-> "alarm", values |-> <<channel, t>>]
<1>1. PICK config : config = IF channel = 2 THEN ALARM_CH2 ELSE ALARM_CH1
  OBVIOUS
<1>2. /\ config \in {ALARM_CH1, ALARM_CH2}
      /\ config[1] = 65 /\ config[2] = IF channel = 2 THEN 50 ELSE 49
      /\ config = <<config[1], config[2]>>
  BY <1>1 DEF ALARM_CH1, ALARM_CH2
<1>3. PICK c :
        c = <<TYPE_TEMP, id[1], id[2], id[3], id[4], id[5], config[1], config[2], 0, 2, 0,
              Low(t), High(t)>>
  OBVIOUS
<1>4. c \in Seq(Int) /\ Len(c) = 13
  BY <1>2, <1>3, WordBytes DEF Byte, TYPE_TEMP
<1>5. /\ c[1] = TYPE_TEMP /\ <<c[7], c[8]>> = config /\ c[8] = config[2]
      /\ c[12] = Low(t) /\ c[13] = High(t)
  BY <1>2, <1>3
<1>6. (IF c[8] = 49 THEN 1 ELSE 2) = channel
  BY <1>2, <1>5
<1>7. LeWord(c[12], c[13]) = t
  BY <1>5, WordBytes
<1>8. AlarmPacket(id, channel, t) = Sealed(c)
  BY <1>1, <1>3 DEF AlarmPacket
<1> QED BY <1>2, <1>4, <1>5, <1>6, <1>7, <1>8, AlarmRead

\* A temperature packet is read back with both its words (protocol.rs:144-194).
THEOREM TempRoundTrip ==
  ASSUME NEW id \in [1 .. 5 -> Byte], NEW direction \in {0, 1}, NEW t1 \in Word, NEW t2 \in Word
  PROVE  try_parse(TempPacket(id, direction, t1, t2)) = [kind |-> "temp", values |-> <<t1, t2>>]
<1>1. PICK c :
        c = <<TYPE_TEMP, id[1], id[2], id[3], id[4], id[5], 48, 48, direction, 4, 0,
              Low(t1), High(t1), Low(t2), High(t2)>>
  OBVIOUS
<1>2. c \in Seq(Int) /\ Len(c) = 15
  BY <1>1, WordBytes DEF Byte, TYPE_TEMP
<1>3. /\ c[1] = TYPE_TEMP
      /\ c[12] = Low(t1) /\ c[13] = High(t1) /\ c[14] = Low(t2) /\ c[15] = High(t2)
  BY <1>1
<1>4. LeWord(c[12], c[13]) = t1 /\ LeWord(c[14], c[15]) = t2
  BY <1>3, WordBytes
<1>5. TempPacket(id, direction, t1, t2) = Sealed(c)
  BY <1>1 DEF TempPacket
<1> QED BY <1>2, <1>3, <1>4, <1>5, TempRead

\* The lemmas about contents of integers hold for bytes.
LEMMA BytesAreInts == Seq(Byte) \subseteq Seq(Int)
<1>1. Byte \subseteq Int
  BY DEF Byte
<1> QED BY <1>1, SeqMonotonic

\* Bytes with one byte replaced.
LEMMA ByteReplaced ==
  ASSUME NEW c \in Seq(Byte), NEW m \in 1 .. Len(c), NEW x \in Byte
  PROVE  \E d \in Seq(Byte) :
           Len(d) = Len(c) /\ \A j \in 1 .. Len(c) : d[j] = IF j = m THEN x ELSE c[j]
<1>1. PICK d : d = [c EXCEPT ![m] = x]
  OBVIOUS
<1> QED BY <1>1, ExceptSeq

\* n bytes are framed in q.
Frames(q, n) ==
  q[1] = START_BYTE /\ q[n + 3] = END_BYTE /\ q[n + 2] = compute_checksum(SubSeq(q, 2, n + 1))

\* A framed packet with one byte garbled is framed no more.
LEMMA GarbledFails ==
  ASSUME NEW c \in Seq(Byte), NEW n \in Nat, n = Len(c), NEW k \in 1 .. n + 3, NEW x \in Byte,
         NEW p, p = Sealed(c), x # p[k], NEW q \in Seq(Int), Len(q) = n + 3,
         \A j \in 1 .. n + 3 : q[j] = IF j = k THEN x ELSE p[j]
  PROVE  ~Frames(q, n)
<1>1. c \in Seq(Int) /\ n \in Nat /\ Len(c) = n /\ p = Sealed(c)
  BY BytesAreInts
<1>2. /\ p \in Seq(Int) /\ Len(p) = n + 3
      /\ p[1] = START_BYTE /\ p[n + 3] = END_BYTE
      /\ p[n + 2] = compute_checksum(c)
      /\ \A i \in 1 .. n : p[i + 1] = c[i]
  BY ONLY <1>1, SealedBytes
<1>3. /\ q \in Seq(Int) /\ Len(q) = n + 3
      /\ \A j \in 1 .. n + 3 : q[j] = IF j = k THEN x ELSE p[j]
  OBVIOUS
<1>4. CASE k \in {1, n + 3}
  BY <1>2, <1>3, <1>4 DEF Frames
<1>5. CASE k = n + 2
  <2>1. \A i \in 1 .. n : q[i + 1] = c[i]
    BY <1>2, <1>3, <1>5
  <2>2. SubSeq(q, 2, n + 1) = c
    BY <1>1, <1>3, <2>1, Inside
  <2>3. q[n + 2] = x
    BY <1>3, <1>5
  <2> QED BY <1>2, <1>3, <1>5, <2>2, <2>3 DEF Frames
<1>6. CASE k \in 2 .. n + 1
  <2>0. k - 1 \in 1 .. Len(c) /\ k = (k - 1) + 1
    BY <1>1, <1>6
  <2>1. PICK m \in 1 .. Len(c) : k = m + 1
    BY <2>0, Zenon
  <2>2. PICK d \in Seq(Byte) :
          Len(d) = Len(c) /\ \A j \in 1 .. Len(c) : d[j] = IF j = m THEN x ELSE c[j]
    BY <2>1, ByteReplaced, Zenon
  <2>3. d \in Seq(Int)
    BY <2>2, BytesAreInts, Zenon
  <2>4. \A i \in 1 .. n : q[i + 1] = d[i]
    <3> SUFFICES ASSUME NEW i \in 1 .. n PROVE q[i + 1] = d[i]
      OBVIOUS
    <3>1. i + 1 \in 1 .. n + 3 /\ (i + 1 = k <=> i = m)
      BY <2>1
    <3>2. p[i + 1] = c[i]
      BY <1>2
    <3> QED BY <1>3, <2>2, <3>1, <3>2
  <2>5. SubSeq(q, 2, n + 1) = d
    BY <1>3, <2>2, <2>3, <2>4, Inside
  <2>6. c[m] \in Byte /\ d[m] = x /\ p[k] = c[m]
    BY <1>2, <2>1, <2>2, ElementOfSeq
  <2>7. compute_checksum(c) # compute_checksum(d)
    BY <1>1, <2>1, <2>2, <2>3, <2>6, OneByteTells
  <2>8. q[n + 2] = compute_checksum(c)
    BY <1>2, <1>3, <1>6
  <2> QED BY <1>3, <2>5, <2>7, <2>8 DEF Frames
<1> QED BY <1>3, <1>4, <1>5, <1>6

\* No packet of this protocol, whatever its bytes, is taken for another reading or setpoint
\* when one of its bytes is garbled on the way: a delimiter does not fit, or the checksum
\* (protocol.rs:144-173, 305-335).
THEOREM OneByteGarbled ==
  ASSUME NEW c \in Seq(Byte), NEW k \in 1 .. Len(c) + 3, NEW x \in Byte, x # Sealed(c)[k]
  PROVE  try_parse([Sealed(c) EXCEPT ![k] = x]).kind = "unknown"
<1>1. PICK n \in Nat : n = Len(c)
  BY LenProperties
<1>2. PICK p : p = Sealed(c)
  OBVIOUS
<1>3. PICK q : q = [p EXCEPT ![k] = x]
  OBVIOUS
<1>4. k \in 1 .. n + 3 /\ x # p[k] /\ x \in Int /\ Byte \subseteq Int
  BY <1>1, <1>2 DEF Byte
<1>5. Len(q) = n + 3 /\ ~Frames(q, n)
  <2>1. p \in Seq(Int) /\ Len(p) = n + 3
    BY <1>1, <1>2, <1>4, SeqMonotonic, SealedBytes
  <2>2. /\ q \in Seq(Int) /\ Len(q) = n + 3
        /\ \A j \in 1 .. n + 3 : q[j] = IF j = k THEN x ELSE p[j]
    BY <1>3, <1>4, <2>1, ExceptSeq
  <2> QED BY <1>1, <1>2, <1>4, <2>2, GarbledFails
<1>6. CASE n = 15
  <2>1. n + 3 = 18 /\ n + 2 = 17 /\ n + 1 = 16
    BY <1>6
  <2>2. /\ Len(q) = 18
        /\ ~ (q[1] = START_BYTE /\ q[18] = END_BYTE /\ q[17] = compute_checksum(SubSeq(q, 2, 16)))
    BY <1>5, <2>1, Zenon DEF Frames
  <2>3. try_parse(q).kind = "unknown"
    BY <2>2 DEF try_parse, IsTempPacket, IsAlarmPacket
  <2> QED BY <1>2, <1>3, <2>3
<1>7. CASE n = 13
  <2>1. n + 3 = 16 /\ n + 2 = 15 /\ n + 1 = 14
    BY <1>7
  <2>2. /\ Len(q) = 16
        /\ ~ (q[1] = START_BYTE /\ q[16] = END_BYTE /\ q[15] = compute_checksum(SubSeq(q, 2, 14)))
    BY <1>5, <2>1, Zenon DEF Frames
  <2>3. try_parse(q).kind = "unknown"
    BY <2>2 DEF try_parse, IsTempPacket, IsAlarmPacket
  <2> QED BY <1>2, <1>3, <2>3
<1>8. CASE n # 15 /\ n # 13
  <2>1. Len(q) # 16 /\ Len(q) # 18
    BY <1>5, <1>8
  <2>2. try_parse(q).kind = "unknown"
    BY <2>1, LengthsTell
  <2> QED BY <1>2, <1>3, <2>2
<1> QED BY <1>6, <1>7, <1>8

\* The content with its direction flipped.
Turned(c) == [c EXCEPT ![9] = IF @ = 0 THEN 1 ELSE 0]

\* It is the content, but for its ninth byte.
LEMMA Turns ==
  ASSUME NEW c \in Seq(Int), NEW n \in Nat, n = Len(c), n >= 11, NEW t, t = Turned(c)
  PROVE  /\ t \in Seq(Int) /\ Len(t) = n
         /\ t[9] = IF c[9] = 0 THEN 1 ELSE 0
         /\ \A i \in 1 .. n : i # 9 => t[i] = c[i]
<1>1. PICK k \in 1 .. Len(c) : k = 9
  OBVIOUS
<1>2. PICK e \in Int : e = IF c[k] = 0 THEN 1 ELSE 0
  OBVIOUS
<1>3. t = [c EXCEPT ![k] = e]
  BY <1>1, <1>2 DEF Turned
<1>4. /\ t \in Seq(Int) /\ Len(t) = n
      /\ \A j \in 1 .. n : t[j] = IF j = k THEN e ELSE c[j]
  BY <1>3, ExceptSeq
<1> QED BY <1>1, <1>2, <1>4

\* What is sent back for a framed content of 11 bytes or more is that content with its
\* direction flipped, framed.
LEMMA EchoIs ==
  ASSUME NEW c \in Seq(Int), NEW n \in Nat, n = Len(c), n >= 11, c[1] = TYPE_TEMP
  PROVE  build_echo(Sealed(c)) = Sealed(Turned(c))
<1>1. PICK p : p = Sealed(c)
  OBVIOUS
<1>2. /\ p \in Seq(Int) /\ Len(p) = n + 3
      /\ p[1] = START_BYTE /\ p[n + 3] = END_BYTE
      /\ \A i \in 1 .. n : p[i + 1] = c[i]
  BY <1>1, SealedBytes
<1>3. Echoable(p)
  <2>1. 1 \in 1 .. n
    OBVIOUS
  <2>2. p[1 + 1] = c[1]
    BY <1>2, <2>1, Zenon
  <2>3. Len(p) >= 14 /\ p[1] = START_BYTE /\ p[Len(p)] = END_BYTE
    BY <1>2
  <2> QED BY <2>2, <2>3 DEF Echoable
<1>4. PICK f : f = Flipped(p)
  OBVIOUS
<1>5. PICK t : t = Turned(c)
  OBVIOUS
<1>6. /\ t \in Seq(Int) /\ Len(t) = n
      /\ t[9] = IF c[9] = 0 THEN 1 ELSE 0
      /\ \A i \in 1 .. n : i # 9 => t[i] = c[i]
  BY <1>5, Turns
<1>7. /\ f \in Seq(Int) /\ Len(f) = n + 3
      /\ \A j \in 1 .. n + 3 : f[j] = IF j = 10 THEN (IF p[10] = 0 THEN 1 ELSE 0) ELSE p[j]
  <2>1. PICK k \in 1 .. Len(p) : k = 10
    BY <1>2
  <2>2. PICK e \in Int : e = IF p[k] = 0 THEN 1 ELSE 0
    OBVIOUS
  <2>3. f = [p EXCEPT ![k] = e]
    BY <1>4, <2>1, <2>2 DEF Flipped
  <2>4. /\ f \in Seq(Int) /\ Len(f) = n + 3
        /\ \A j \in 1 .. n + 3 : f[j] = IF j = k THEN e ELSE p[j]
    BY <1>2, <2>3, ExceptSeq
  <2> QED BY <2>1, <2>2, <2>4
<1>8. \A i \in 1 .. n : f[i + 1] = t[i]
  <2> SUFFICES ASSUME NEW i \in 1 .. n PROVE f[i + 1] = t[i]
    OBVIOUS
  <2>1. p[i + 1] = c[i] /\ i + 1 \in 1 .. n + 3
    BY <1>2
  <2>2. CASE i = 9
    <3>1. i + 1 = 10
      BY <2>2
    <3> QED BY <1>6, <1>7, <2>1, <2>2, <3>1
  <2>3. CASE i # 9
    <3>1. i + 1 # 10
      BY <2>3
    <3> QED BY <1>6, <1>7, <2>1, <2>3, <3>1
  <2> QED BY <2>2, <2>3
<1>9. SubSeq(f, 2, n + 1) = t
  BY <1>6, <1>7, <1>8, Inside
<1>10. Len(p) - 2 = n + 1
  BY <1>2
<1> QED BY <1>1, <1>3, <1>4, <1>5, <1>9, <1>10 DEF build_echo

\* The id is the five bytes after the type.
LEMMA IdInside ==
  ASSUME NEW c \in Seq(Int), NEW n \in Nat, n = Len(c), n >= 11
  PROVE  parse_device_id_bytes(Sealed(c)) = <<c[2], c[3], c[4], c[5], c[6]>>
<1>1. PICK p : p = Sealed(c)
  OBVIOUS
<1>2. p \in Seq(Int) /\ Len(p) = n + 3 /\ \A i \in 1 .. n : p[i + 1] = c[i]
  BY <1>1, SealedBytes
<1>3. \A i \in 3 .. 7 : p[i] \in Int
  BY <1>2, ElementOfSeq
<1>4. PICK q : q = SubSeq(p, 3, 7)
  OBVIOUS
<1>5. q \in Seq(Int) /\ Len(q) = 5 /\ \A i \in 1 .. 5 : q[i] = p[i + 2]
  <2>1. PICK l \in Int, r \in Int : l = 3 /\ r = 7
    OBVIOUS
  <2>2. \A i \in l .. r : p[i] \in Int
    BY <1>3, <2>1
  <2>3. /\ q \in Seq(Int) /\ Len(q) = IF l <= r THEN r - l + 1 ELSE 0
        /\ \A i \in 1 .. r - l + 1 : q[i] = p[l + i - 1]
    BY <1>4, <2>1, <2>2, SubSeqProperties
  <2> QED BY <2>1, <2>3
<1>6. \A i \in 1 .. 5 : q[i] = c[i + 1]
  <2> SUFFICES ASSUME NEW i \in 1 .. 5 PROVE q[i] = c[i + 1]
    OBVIOUS
  <2>1. i + 1 \in 1 .. n /\ (i + 1) + 1 = i + 2
    OBVIOUS
  <2>2. p[(i + 1) + 1] = c[i + 1]
    BY <1>2, <2>1
  <2> QED BY <1>5, <2>1, <2>2
<1>7. q = <<c[2], c[3], c[4], c[5], c[6]>>
  <2>1. q[1] = c[2] /\ q[2] = c[3] /\ q[3] = c[4] /\ q[4] = c[5] /\ q[5] = c[6]
    BY <1>6
  <2>2. q[1] \in Int /\ q[2] \in Int /\ q[3] \in Int /\ q[4] \in Int /\ q[5] \in Int
    <3>1. \A i \in 1 .. 5 : q[i] \in Int
      <4> SUFFICES ASSUME NEW i \in 1 .. 5 PROVE q[i] \in Int
        OBVIOUS
      <4>1. i + 2 \in 3 .. 7
        OBVIOUS
      <4> QED BY <1>3, <1>5, <4>1
    <3> QED BY ONLY <3>1
  <2>3. PICK r : r = <<c[2], c[3], c[4], c[5], c[6]>>
    OBVIOUS
  <2>4. r \in Seq(Int) /\ Len(r) = 5
    BY <2>1, <2>2, <2>3
  <2>5. r[1] = c[2] /\ r[2] = c[3] /\ r[3] = c[4] /\ r[4] = c[5] /\ r[5] = c[6]
    BY <2>3
  <2>6. \A i \in 1 .. 5 : q[i] = r[i]
    BY <2>1, <2>5
  <2>7. q = r
    BY <1>5, <2>4, <2>6, SeqEqual
  <2> QED BY <2>3, <2>7
<1>8. ~ (Len(p) < 7)
  BY <1>2
<1>9. parse_device_id_bytes(p) = q
  BY <1>4, <1>8, Zenon DEF parse_device_id_bytes
<1> QED BY <1>1, <1>7, <1>9, Zenon

\* Every framed packet of this protocol is echoed, with its id, and its echo's echo is itself.
LEMMA EchoOf ==
  ASSUME NEW c \in Seq(Int), NEW n \in Nat, n = Len(c), n >= 11,
         c[1] = TYPE_TEMP, c[9] \in {0, 1},
         NEW p, p = Sealed(c), NEW e, e = build_echo(p)
  PROVE  /\ e = Sealed(Turned(c)) /\ e # None
         /\ parse_device_id_bytes(e) = <<c[2], c[3], c[4], c[5], c[6]>>
         /\ build_echo(e) = p /\ e # p
<1>1. PICK t : t = Turned(c)
  OBVIOUS
<1>2. /\ t \in Seq(Int) /\ Len(t) = n
      /\ t[9] = IF c[9] = 0 THEN 1 ELSE 0
      /\ \A i \in 1 .. n : i # 9 => t[i] = c[i]
  BY <1>1, Turns
<1>3. PICK u : u = Turned(t)
  OBVIOUS
<1>4. /\ u \in Seq(Int) /\ Len(u) = n
      /\ u[9] = IF t[9] = 0 THEN 1 ELSE 0
      /\ \A i \in 1 .. n : i # 9 => u[i] = t[i]
  BY <1>2, <1>3, Turns
<1>5. u = c
  <2>1. \A i \in 1 .. n : u[i] = c[i]
    BY <1>2, <1>4
  <2> QED BY <1>4, <2>1, SeqEqual
<1>6. e = Sealed(t)
  BY <1>1, EchoIs
<1>7. t[1] = TYPE_TEMP
  BY <1>2
<1>8. build_echo(e) = p
  <2>1. build_echo(Sealed(t)) = Sealed(Turned(t))
    BY <1>2, <1>7, EchoIs
  <2> QED BY <1>3, <1>5, <1>6, <2>1
<1>9. parse_device_id_bytes(e) = <<c[2], c[3], c[4], c[5], c[6]>>
  <2>0. \A i \in 2 .. 6 : t[i] = c[i]
    BY <1>2
  <2>1. t[2] = c[2] /\ t[3] = c[3] /\ t[4] = c[4] /\ t[5] = c[5] /\ t[6] = c[6]
    BY ONLY <2>0
  <2>2. parse_device_id_bytes(Sealed(t)) = <<t[2], t[3], t[4], t[5], t[6]>>
    BY <1>2, IdInside
  <2> QED BY <1>6, <2>1, <2>2
<1>10. e # None /\ e # p
  <2>0. t \in Seq(Int) /\ n \in Nat /\ Len(t) = n /\ e = Sealed(t)
    BY <1>2, <1>6
  <2>1. Len(e) = n + 3 /\ \A i \in 1 .. n : e[i + 1] = t[i]
    BY ONLY <2>0, SealedBytes
  <2>2. \A i \in 1 .. n : p[i + 1] = c[i]
    BY SealedBytes
  <2>3. 9 \in 1 .. n
    OBVIOUS
  <2>4. e[9 + 1] = t[9] /\ p[9 + 1] = c[9]
    BY <2>1, <2>2, <2>3, Zenon
  <2>5. t[9] # c[9]
    BY <1>2
  <2>6. e # p
    BY <2>4, <2>5
  <2>7. e # None
    <3>1. Len(<<>>) = 0
      OBVIOUS
    <3> QED BY <2>1, <3>1 DEF None
  <2> QED BY <2>6, <2>7
<1> QED BY <1>1, <1>6, <1>8, <1>9, <1>10

\* The contents of the packets that are sent, with the id of the samples.
TempContent(t1, t2) ==
  <<TYPE_TEMP, SampleId[1], SampleId[2], SampleId[3], SampleId[4], SampleId[5], 48, 48, 0, 4, 0,
    Low(t1), High(t1), Low(t2), High(t2)>>

AlarmContent(config, t) ==
  <<TYPE_TEMP, SampleId[1], SampleId[2], SampleId[3], SampleId[4], SampleId[5],
    config[1], config[2], 0, 2, 0, Low(t), High(t)>>

KeepaliveContent ==
  <<TYPE_TEMP, SampleId[1], SampleId[2], SampleId[3], SampleId[4], SampleId[5], 48, 48, 0, 0, 0>>

ChannelMark(channel) == IF channel = 2 THEN ALARM_CH2 ELSE ALARM_CH1

\* The id of the samples has five bytes, delimiters among them.
LEMMA SampleBytes ==
  /\ SampleId[1] = 2 /\ SampleId[2] = 60 /\ SampleId[3] = 55 /\ SampleId[4] = 62
  /\ SampleId[5] = 140
  /\ SampleId = <<SampleId[1], SampleId[2], SampleId[3], SampleId[4], SampleId[5]>>
  /\ SampleId \in [1 .. 5 -> Byte]
BY DEF SampleId, START_BYTE, END_BYTE, Byte

\* A temperature packet is its content sealed,
LEMMA TempBytes ==
  ASSUME NEW t1 \in Word, NEW t2 \in Word, NEW c, c = TempContent(t1, t2)
  PROVE  /\ c \in Seq(Byte) /\ Len(c) = 15
         /\ c[1] = TYPE_TEMP /\ c[9] = 0
         /\ <<c[2], c[3], c[4], c[5], c[6]>> = SampleId
         /\ TempPacket(SampleId, 0, t1, t2) = Sealed(c)
<1>1. c \in Seq(Byte) /\ Len(c) = 15
  BY SampleBytes, WordBytes DEF TempContent, Byte, TYPE_TEMP
<1>2. /\ c[1] = TYPE_TEMP /\ c[9] = 0
      /\ c[2] = SampleId[1] /\ c[3] = SampleId[2] /\ c[4] = SampleId[3]
      /\ c[5] = SampleId[4] /\ c[6] = SampleId[5]
  BY DEF TempContent
<1>3. TempPacket(SampleId, 0, t1, t2) = Sealed(c)
  BY DEF TempContent, TempPacket
<1> QED BY <1>1, <1>2, <1>3, SampleBytes

\* an alarm packet is its content sealed,
LEMMA AlarmBytes ==
  ASSUME NEW channel \in {1, 2}, NEW t \in Word, NEW c, c = AlarmContent(ChannelMark(channel), t)
  PROVE  /\ c \in Seq(Byte) /\ Len(c) = 13
         /\ c[1] = TYPE_TEMP /\ c[9] = 0
         /\ <<c[7], c[8]>> \in {ALARM_CH1, ALARM_CH2}
         /\ <<c[2], c[3], c[4], c[5], c[6]>> = SampleId
         /\ AlarmPacket(SampleId, channel, t) = Sealed(c)
<1>1. PICK m : m = ChannelMark(channel)
  OBVIOUS
<1>2. /\ m \in {ALARM_CH1, ALARM_CH2} /\ m = <<m[1], m[2]>>
      /\ m[1] \in Byte /\ m[2] \in Byte
  BY <1>1 DEF ChannelMark, ALARM_CH1, ALARM_CH2, Byte
<1>3. c \in Seq(Byte) /\ Len(c) = 13
  BY <1>1, <1>2, SampleBytes, WordBytes DEF AlarmContent, Byte, TYPE_TEMP
<1>4. /\ c[1] = TYPE_TEMP /\ c[9] = 0 /\ c[7] = m[1] /\ c[8] = m[2]
      /\ c[2] = SampleId[1] /\ c[3] = SampleId[2] /\ c[4] = SampleId[3]
      /\ c[5] = SampleId[4] /\ c[6] = SampleId[5]
  BY <1>1 DEF AlarmContent
<1>5. AlarmPacket(SampleId, channel, t) = Sealed(c)
  BY DEF AlarmContent, AlarmPacket, ChannelMark
<1> QED BY <1>2, <1>3, <1>4, <1>5, SampleBytes

\* and so is a keepalive.
LEMMA KeepaliveBytes ==
  ASSUME NEW c, c = KeepaliveContent
  PROVE  /\ c \in Seq(Byte) /\ Len(c) = 11
         /\ c[1] = TYPE_TEMP /\ c[9] = 0
         /\ <<c[2], c[3], c[4], c[5], c[6]>> = SampleId
         /\ KeepalivePacket = Sealed(c)
<1>1. c \in Seq(Byte) /\ Len(c) = 11
  BY SampleBytes DEF KeepaliveContent, Byte, TYPE_TEMP
<1>2. /\ c[1] = TYPE_TEMP /\ c[9] = 0
      /\ c[2] = SampleId[1] /\ c[3] = SampleId[2] /\ c[4] = SampleId[3]
      /\ c[5] = SampleId[4] /\ c[6] = SampleId[5]
  BY DEF KeepaliveContent
<1>3. KeepalivePacket = Sealed(c)
  BY DEF KeepaliveContent, KeepalivePacket
<1> QED BY <1>1, <1>2, <1>3, SampleBytes

\* Whichever byte of a sealed packet is garbled, the packet is dropped.
LEMMA SealedRejected ==
  ASSUME NEW c \in Seq(Byte), NEW p, p.bytes = Sealed(c)
  PROVE  Rejected(p)
<1>1. PICK q : q = p.bytes
  OBVIOUS
<1>2. DOMAIN q = 1 .. Len(c) + 3
  <2>1. PICK n \in Nat : n = Len(c)
    BY LenProperties
  <2>2. c \in Seq(Int)
    BY BytesAreInts
  <2>3. q \in Seq(Int) /\ Len(q) = n + 3
    BY <1>1, <2>1, <2>2, SealedBytes
  <2> QED BY <2>1, <2>3, LenProperties
<1>3. ASSUME NEW k \in DOMAIN q, NEW x \in Garbage, x # q[k]
      PROVE  try_parse([q EXCEPT ![k] = x]).kind = "unknown"
  <2>1. x \in Byte /\ k \in 1 .. Len(c) + 3 /\ q = Sealed(c)
    BY <1>1, <1>2, <1>3, WireAssumption
  <2> QED BY <1>3, <2>1, OneByteGarbled
<1> QED BY <1>1, <1>3 DEF Rejected, Garbled

\* What a run checks of sampled temperatures holds of all,
LEMMA TempAgrees ==
  ASSUME NEW t1 \in Word, NEW t2 \in Word, NEW p,
         p = [bytes |-> TempPacket(SampleId, 0, t1, t2), values |-> <<t1, t2>>]
  PROVE  Agrees(Temperature, p) /\ Rejected(p)
<1>1. PICK c : c = TempContent(t1, t2)
  OBVIOUS
<1>2. /\ c \in Seq(Byte) /\ Len(c) = 15 /\ c[1] = TYPE_TEMP /\ c[9] = 0
      /\ <<c[2], c[3], c[4], c[5], c[6]>> = SampleId
      /\ p.bytes = Sealed(c) /\ p.values = <<t1, t2>>
  BY <1>1, TempBytes
<1>3. PICK n \in Nat : n = 15
  OBVIOUS
<1>4. c \in Seq(Int) /\ n \in Nat /\ n = Len(c) /\ n >= 11
  BY <1>2, <1>3, BytesAreInts
<1>5. PICK e : e = build_echo(p.bytes)
  OBVIOUS
<1>6. /\ e = Sealed(Turned(c)) /\ e # None /\ parse_device_id_bytes(e) = SampleId
      /\ build_echo(e) = p.bytes /\ e # p.bytes
  BY ONLY <1>2, <1>4, <1>5, EchoOf
<1>7. try_parse(p.bytes) = [kind |-> "temp", values |-> <<t1, t2>>]
  BY TempRoundTrip, SampleBytes
<1>8. try_parse(e) = try_parse(p.bytes)
  <2>1. PICK t : t = Turned(c)
    OBVIOUS
  <2>2. t \in Seq(Int) /\ Len(t) = n /\ \A i \in 1 .. n : i # 9 => t[i] = c[i]
    BY <1>4, <2>1, Turns
  <2>3. /\ Len(t) = 15 /\ t[1] = TYPE_TEMP
        /\ t[12] = c[12] /\ t[13] = c[13] /\ t[14] = c[14] /\ t[15] = c[15]
    BY <1>2, <1>3, <2>2
  <2>4. try_parse(Sealed(t))
          = [kind |-> "temp", values |-> <<LeWord(t[12], t[13]), LeWord(t[14], t[15])>>]
    BY <2>2, <2>3, TempRead
  <2>5. try_parse(Sealed(c))
          = [kind |-> "temp", values |-> <<LeWord(c[12], c[13]), LeWord(c[14], c[15])>>]
    BY <1>2, <1>4, TempRead
  <2> QED BY <1>2, <1>6, <2>1, <2>3, <2>4, <2>5
<1>9. Agrees(Temperature, p)
  <2>1. Temperature.kind = "temp" /\ Temperature # Noise
    BY DEF Temperature, Noise
  <2> QED BY <1>2, <1>5, <1>6, <1>7, <1>8, <2>1 DEF Agrees, KindOf, Framed
<1>10. Rejected(p)
  BY <1>2, SealedRejected
<1> QED BY <1>9, <1>10

\* of all setpoints,
LEMMA AlarmAgrees ==
  ASSUME NEW channel \in {1, 2}, NEW t \in Word, NEW b, b.kind = "alarm", NEW p,
         p = [bytes |-> AlarmPacket(SampleId, channel, t), values |-> <<channel, t>>]
  PROVE  Agrees(b, p) /\ Rejected(p)
<1>1. PICK c : c = AlarmContent(ChannelMark(channel), t)
  OBVIOUS
<1>2. /\ c \in Seq(Byte) /\ Len(c) = 13 /\ c[1] = TYPE_TEMP /\ c[9] = 0
      /\ <<c[7], c[8]>> \in {ALARM_CH1, ALARM_CH2}
      /\ <<c[2], c[3], c[4], c[5], c[6]>> = SampleId
      /\ p.bytes = Sealed(c) /\ p.values = <<channel, t>>
  BY <1>1, AlarmBytes
<1>3. PICK n \in Nat : n = 13
  OBVIOUS
<1>4. c \in Seq(Int) /\ n \in Nat /\ n = Len(c) /\ n >= 11
  BY <1>2, <1>3, BytesAreInts
<1>5. PICK e : e = build_echo(p.bytes)
  OBVIOUS
<1>6. /\ e = Sealed(Turned(c)) /\ e # None /\ parse_device_id_bytes(e) = SampleId
      /\ build_echo(e) = p.bytes /\ e # p.bytes
  BY ONLY <1>2, <1>4, <1>5, EchoOf
<1>7. try_parse(p.bytes) = [kind |-> "alarm", values |-> <<channel, t>>]
  BY AlarmRoundTrip, SampleBytes
<1>8. try_parse(e) = try_parse(p.bytes)
  <2>1. PICK u : u = Turned(c)
    OBVIOUS
  <2>2. u \in Seq(Int) /\ Len(u) = n /\ \A i \in 1 .. n : i # 9 => u[i] = c[i]
    BY <1>4, <2>1, Turns
  <2>3. /\ Len(u) = 13 /\ u[1] = TYPE_TEMP /\ u[7] = c[7] /\ u[8] = c[8]
        /\ u[12] = c[12] /\ u[13] = c[13]
    BY <1>2, <1>3, <2>2
  <2>4. <<u[7], u[8]>> \in {ALARM_CH1, ALARM_CH2}
    BY <1>2, <2>3
  <2>5. try_parse(Sealed(u)) = [kind |-> "alarm",
                                values |-> <<IF u[8] = 49 THEN 1 ELSE 2, LeWord(u[12], u[13])>>]
    BY <2>2, <2>3, <2>4, AlarmRead
  <2>6. try_parse(Sealed(c)) = [kind |-> "alarm",
                                values |-> <<IF c[8] = 49 THEN 1 ELSE 2, LeWord(c[12], c[13])>>]
    BY <1>2, <1>4, AlarmRead
  <2> QED BY <1>2, <1>6, <2>1, <2>3, <2>5, <2>6
<1>9. Agrees(b, p)
  <2>1. b # Noise
    BY DEF Noise
  <2> QED BY <1>2, <1>5, <1>6, <1>7, <1>8, <2>1 DEF Agrees, KindOf, Framed
<1>10. Rejected(p)
  BY <1>2, SealedRejected
<1> QED BY <1>9, <1>10

\* and of a keepalive.
LEMMA KeepaliveAgrees ==
  ASSUME NEW p, p = [bytes |-> KeepalivePacket, values |-> <<>>]
  PROVE  Agrees(Keepalive, p) /\ Rejected(p)
<1>1. PICK c : c = KeepaliveContent
  OBVIOUS
<1>2. /\ c \in Seq(Byte) /\ Len(c) = 11 /\ c[1] = TYPE_TEMP /\ c[9] = 0
      /\ <<c[2], c[3], c[4], c[5], c[6]>> = SampleId
      /\ p.bytes = Sealed(c) /\ p.values = <<>>
  BY <1>1, KeepaliveBytes
<1>3. PICK n \in Nat : n = 11
  OBVIOUS
<1>4. c \in Seq(Int) /\ n \in Nat /\ n = Len(c) /\ n >= 11
  BY <1>2, <1>3, BytesAreInts
<1>5. PICK e : e = build_echo(p.bytes)
  OBVIOUS
<1>6. /\ e = Sealed(Turned(c)) /\ e # None /\ parse_device_id_bytes(e) = SampleId
      /\ build_echo(e) = p.bytes /\ e # p.bytes
  BY ONLY <1>2, <1>4, <1>5, EchoOf
<1>7. Len(p.bytes) = n + 3 /\ Len(e) = n + 3
  <2>1. PICK u : u = Turned(c)
    OBVIOUS
  <2>2. u \in Seq(Int) /\ Len(u) = n
    BY <1>4, <2>1, Turns
  <2>3. Len(Sealed(c)) = n + 3 /\ Len(Sealed(u)) = n + 3
    BY <1>4, <2>2, SealedBytes
  <2> QED BY <1>2, <1>6, <2>1, <2>3
<1>8. /\ try_parse(p.bytes) = [kind |-> "unknown", values |-> <<>>]
      /\ try_parse(e) = try_parse(p.bytes)
  <2>1. n + 3 # 16 /\ n + 3 # 18
    BY <1>3
  <2> QED BY <1>7, <2>1, LengthsTell, Zenon
<1>9. Agrees(Keepalive, p)
  <2>1. Keepalive.kind = "keepalive" /\ Keepalive # Noise
    BY DEF Keepalive, Noise
  <2> QED BY <1>2, <1>5, <1>6, <1>8, <2>1 DEF Agrees, KindOf, Framed
<1>10. Rejected(p)
  BY <1>2, SealedRejected
<1> QED BY <1>9, <1>10

\* What is on its way is a body.
LEMMA InFlightType == TypeOK => InFlight \subseteq Body
<1> SUFFICES ASSUME TypeOK PROVE InFlight \subseteq Body
  OBVIOUS
<1>1. down \in Seq(Datagram) /\ up \in Seq(UpDatagram)
  BY DEF TypeOK, IOTypeOK, LinkTypeOK
<1>2. \A i \in DOMAIN up : up[i].body \in Body
  <2>1. DOMAIN up = 1 .. Len(up) /\ \A i \in 1 .. Len(up) : up[i] \in UpDatagram
    BY <1>1, LenProperties, ElementOfSeq
  <2> QED BY <2>1 DEF UpDatagram
<1>3. \A i \in DOMAIN down : down[i].body \in Body
  <2>1. DOMAIN down = 1 .. Len(down) /\ \A i \in 1 .. Len(down) : down[i] \in Datagram
    BY <1>1, LenProperties, ElementOfSeq
  <2> QED BY <2>1 DEF Datagram
<1> QED BY <1>2, <1>3 DEF InFlight

\* Bytes that are no packet are read as nothing, and neither echoed nor, garbled, anything else.
LEMMA NoiseAgrees ==
  ASSUME NEW p \in Packets(Noise)
  PROVE  Agrees(Noise, p) /\ Rejected(p)
<1>1. PICK q : q = p.bytes
  OBVIOUS
<1>2. p.values = <<>> /\ (q = <<>> \/ q = Tail(KeepalivePacket))
  BY <1>1 DEF Packets, Noise
<1>3. q \in Seq(Int) /\ Len(q) < 14
  <2>1. CASE q = <<>>
    BY <2>1
  <2>2. CASE q = Tail(KeepalivePacket)
    <3>1. PICK c : c = KeepaliveContent
      OBVIOUS
    <3>2. c \in Seq(Int) /\ Len(c) = 11 /\ KeepalivePacket = Sealed(c)
      BY <3>1, KeepaliveBytes, BytesAreInts
    <3>3. PICK n \in Nat : n = 11
      OBVIOUS
    <3>4. c \in Seq(Int) /\ n \in Nat /\ Len(c) = n
      BY <3>2, <3>3
    <3>5. PICK k : k = Sealed(c)
      OBVIOUS
    <3>6. k \in Seq(Int) /\ Len(k) = n + 3
      BY ONLY <3>4, <3>5, SealedBytes
    <3>7. Len(k) = 14
      BY <3>3, <3>6
    <3>8. k # <<>>
      BY <3>7
    <3>9. Tail(k) \in Seq(Int) /\ Len(Tail(k)) = Len(k) - 1
      BY ONLY <3>6, <3>8, HeadTailProperties
    <3>10. q = Tail(k)
      BY <2>2, <3>2, <3>5, Zenon
    <3>11. Len(Tail(k)) < 14
      <4>1. 14 - 1 < 14
        OBVIOUS
      <4> QED BY <3>7, <3>9, <4>1, Zenon
    <3> QED BY <3>9, <3>10, <3>11, Zenon
  <2> QED BY <1>2, <2>1, <2>2
<1>4. Len(q) # 16 /\ Len(q) # 18 /\ ~ (Len(q) >= 14)
  <2>1. PICK m \in Nat : m = Len(q)
    BY <1>3, LenProperties
  <2>2. m < 14
    BY <1>3, <2>1, Zenon
  <2>3. m # 16 /\ m # 18 /\ ~ (m >= 14)
    BY <2>2
  <2> QED BY <2>1, <2>3, Zenon
<1>5. Agrees(Noise, p)
  <2>1. try_parse(q) = [kind |-> "unknown", values |-> <<>>]
    BY <1>4, LengthsTell
  <2>2. build_echo(q) = None
    BY <1>4 DEF build_echo, Echoable
  <2>3. ~Framed(Noise) /\ KindOf(Noise) = "unknown"
    BY DEF Framed, KindOf, Noise
  <2> QED BY <1>1, <1>2, <2>1, <2>2, <2>3 DEF Agrees
<1>6. Rejected(p)
  <2> SUFFICES ASSUME NEW k \in DOMAIN q, NEW x \in Garbage
               PROVE  try_parse([q EXCEPT ![k] = x]).kind = "unknown"
    BY <1>1 DEF Rejected, Garbled
  <2>1. x \in Int /\ k \in 1 .. Len(q)
    BY <1>3, WireAssumption, LenProperties DEF Byte
  <2>2. Len([q EXCEPT ![k] = x]) = Len(q)
    BY <1>3, <2>1, ExceptSeq
  <2> QED BY <1>4, <2>2, LengthsTell
<1> QED BY <1>5, <1>6

\* Every packet of every body.
LEMMA PacketsAgree ==
  ASSUME NEW b \in Body, NEW p \in Packets(b)
  PROVE  Agrees(b, p) /\ Rejected(p)
<1>1. CASE b = Temperature
  <2>1. b.kind = "temp"
    BY <1>1 DEF Temperature
  <2>2. PICK s \in Samples, t \in Samples :
          p = [bytes |-> TempPacket(SampleId, 0, s, t), values |-> <<s, t>>]
    BY <2>1 DEF Packets
  <2>3. s \in Word /\ t \in Word
    BY WireAssumption
  <2> QED BY <1>1, <2>2, <2>3, TempAgrees
<1>2. CASE b = Keepalive
  <2>1. b.kind = "keepalive"
    BY <1>2 DEF Keepalive
  <2>2. p = [bytes |-> KeepalivePacket, values |-> <<>>]
    BY <2>1 DEF Packets
  <2> QED BY <1>2, <2>2, KeepaliveAgrees
<1>3. CASE b = Noise
  BY <1>3, NoiseAgrees
<1>4. CASE b \in Alarms
  <2>1. b.kind = "alarm" /\ b.channel \in {1, 2}
    BY <1>4 DEF Alarms, Alarm, Channel
  <2>2. PICK s \in Samples :
          p = [bytes |-> AlarmPacket(SampleId, b.channel, s), values |-> <<b.channel, s>>]
    BY <2>1 DEF Packets
  <2>3. s \in Word
    BY WireAssumption
  <2> QED BY <2>1, <2>2, <2>3, AlarmAgrees
<1> QED BY <1>1, <1>2, <1>3, <1>4 DEF Body

\* Whatever words are carried: what is on its way is read as what it is, so is its echo, only
\* framed packets are echoed, with their id, and an echo's echo is the packet
\* (protocol.rs:144-173, 241-261, 286-335).
THEOREM WireIsRead == Spec => []WireAgrees
<1>1. \A b \in Body : AgreeTable[b]
  BY PacketsAgree DEF AgreeTable
<1>2. TypeOK => WireAgrees
  BY <1>1, InFlightType DEF WireAgrees
<1> QED BY <1>2, LinkTypeCorrect, PTL

\* Whichever byte of a packet on its way is garbled, and into whichever other byte, it is taken
\* for no reading and no setpoint (protocol.rs:144-173, 305-335).
THEOREM GarbledDropped == Spec => []GarbledIsDropped
<1>1. \A b \in Body : RejectTable[b]
  BY PacketsAgree DEF RejectTable
<1>2. TypeOK => GarbledIsDropped
  BY <1>1, InFlightType DEF GarbledIsDropped
<1> QED BY <1>2, LinkTypeCorrect, PTL

=============================================================================
