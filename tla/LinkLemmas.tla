----------------------------- MODULE LinkLemmas -----------------------------
(***************************************************************************)
(* What the proofs about the UDP side alone and about the whole bridge     *)
(* have in common: the types of its variables, step by step, and the last  *)
(* packet of some kind in a queue.                                         *)
(***************************************************************************)
EXTENDS DeviceLink, TLAPS, SequenceTheorems

-----------------------------------------------------------------------------
(* Queues *)

\* A bounded queue stays a queue of its elements, within its capacity.
LEMMA QueueType ==
  ASSUME NEW S, NEW q \in Seq(S), NEW e \in S, NEW cap \in Nat, Len(q) <= cap
  PROVE  /\ Push(q, e, cap) \in Seq(S)
         /\ Len(Push(q, e, cap)) <= cap
<1>1. CASE Fits(q, cap)
  <2>1. Append(q, e) \in Seq(S) /\ Len(Append(q, e)) = Len(q) + 1
    BY AppendProperties
  <2> QED BY <1>1, <2>1 DEF Push, Fits
<1>2. CASE ~Fits(q, cap)
  BY <1>2 DEF Push
<1> QED BY <1>1, <1>2

\* Taking the head of a bounded queue leaves a bounded queue.
LEMMA TakeType ==
  ASSUME NEW S, NEW q \in Seq(S), q # <<>>, NEW cap \in Nat, Len(q) <= cap
  PROVE  /\ Head(q) \in S
         /\ Tail(q) \in Seq(S)
         /\ Len(Tail(q)) <= cap
BY HeadTailProperties

\* Sending to the thermometer adds a datagram and nothing else.
LEMMA DownType ==
  ASSUME NEW q \in Seq(Datagram), Len(q) <= FlightCap, NEW d \in Datagram
  PROVE  SendTo(q, d) \in Seq(Datagram) /\ Len(SendTo(q, d)) <= FlightCap
BY QueueType, IOAssumption DEF SendTo

-----------------------------------------------------------------------------
(* The types of the UDP side *)

LEMMA UpType ==
  ASSUME NEW q \in Seq(UpDatagram), Len(q) <= FlightCap, NEW d \in UpDatagram
  PROVE  SendTo(q, d) \in Seq(UpDatagram) /\ Len(SendTo(q, d)) <= FlightCap
BY QueueType, IOAssumption DEF SendTo

LEMMA EchoType ==
  ASSUME IOTypeOK, NEW d \in UpDatagram
  PROVE  Echo(d) \in Seq(Datagram) /\ Len(Echo(d)) <= FlightCap
<1>1. [to |-> d.from, id |-> d.from, body |-> d.body] \in Datagram
  BY DEF UpDatagram, Datagram, Ids
<1> QED BY <1>1, DownType DEF Echo, IOTypeOK

LEMMA AlarmBody ==
  ASSUME NEW b \in Body, b.kind = "alarm"
  PROVE  b.channel \in Channel /\ b.temp \in WireTemps
BY DEF Body, Temperature, Keepalive, Noise, Alarms, Alarm

\* The loop takes the oldest datagram of the thermometers.
LEMMA UpTaken ==
  ASSUME LinkTypeOK, up # <<>>
  PROVE  /\ Head(up) \in UpDatagram
         /\ Tail(up) \in Seq(UpDatagram) /\ Len(Tail(up)) <= FlightCap
BY TakeType, IOAssumption DEF LinkTypeOK

LEMMA LinkTypeStep ==
  ASSUME IOTypeOK, LinkTypeOK,
         \/ Serve \/ Firmware \/ FromTheCloud \/ Losses
         \/ \E a \in Addrs : SwitchOn(a) \/ SwitchOff(a)
  PROVE  IOTypeOK' /\ LinkTypeOK'
<1>1. CASE Start
  BY <1>1 DEF Start, LinkTypeOK, IOTypeOK, deviceVars, ioVars
<1>2. CASE LearnId
  <2>1. /\ Head(up) \in UpDatagram
        /\ up' \in Seq(UpDatagram) /\ Len(up') <= FlightCap
    BY <1>2, UpTaken DEF LearnId
  <2>2. down' \in Seq(Datagram) /\ Len(down') <= FlightCap
    BY <1>2, <2>1, EchoType DEF LearnId
  <2> QED BY <1>2, <2>1, <2>2 DEF LearnId, LinkTypeOK, IOTypeOK, deviceVars, IsAlarm
<1>3. CASE FromThermometer
  <2>1. /\ Head(up) \in UpDatagram
        /\ up' \in Seq(UpDatagram) /\ Len(up') <= FlightCap
    BY <1>3, UpTaken DEF FromThermometer
  <2>2. down' \in Seq(Datagram) /\ Len(down') <= FlightCap
    BY <1>3, <2>1, EchoType DEF FromThermometer
  <2>3. Received(Head(up)) \in DevicePacket
    BY <2>1 DEF Received, FromDevice, DevicePacket, UpDatagram
  <2>4. rx' \in Seq(DevicePacket) /\ Len(rx') <= QueueCap
    BY <1>3, <2>3, QueueType, IOAssumption DEF FromThermometer, TrySend, IOTypeOK
  <2>5. route' \in Addrs \cup {NoAddr}
    BY <1>3, <2>1 DEF FromThermometer, LinkTypeOK, UpDatagram
  <2> QED
    BY <1>3, <2>1, <2>2, <2>4, <2>5
    DEF FromThermometer, LinkTypeOK, IOTypeOK, deviceVars, Overflows, IsAlarm
<1>4. ASSUME NEW b \in Body, CloudPacket(b)
      PROVE  IOTypeOK' /\ LinkTypeOK'
  <2>1. FromCloud(b) \in DevicePacket
    BY DEF FromCloud, DevicePacket
  <2>2. rx' \in Seq(DevicePacket) /\ Len(rx') <= QueueCap
    BY <1>4, <2>1, QueueType, IOAssumption DEF CloudPacket, TrySend, IOTypeOK
  <2>3. down' \in Seq(Datagram) /\ Len(down') <= FlightCap
    <3>1. CASE route = NoAddr
      BY <1>4, <3>1 DEF CloudPacket, IOTypeOK
    <3>2. CASE route # NoAddr
      <4>1. [to |-> route, id |-> route, body |-> b] \in Datagram
        BY <3>2 DEF LinkTypeOK, Datagram, Ids
      <4> QED BY <1>4, <3>2, <4>1, DownType DEF CloudPacket, IOTypeOK
    <3> QED BY <3>1, <3>2
  <2> QED
    BY <1>4, <2>2, <2>3
    DEF CloudPacket, LinkTypeOK, IOTypeOK, linkVars, deviceVars, Overflows, IsAlarm
<1>5. ASSUME NEW a \in Addrs, SwitchOn(a) \/ SwitchOff(a)
      PROVE  IOTypeOK' /\ LinkTypeOK'
  <2>1. [c \in Channel |-> 0] \in [Channel -> WireTemps]
    BY IOAssumption DEF WireTemps
  <2> QED BY <1>5, <2>1 DEF SwitchOn, SwitchOff, LinkTypeOK, IOTypeOK, ioVars
<1>6. ASSUME NEW a \in Addrs, Report(a)
      PROVE  IOTypeOK' /\ LinkTypeOK'
  <2>1. [from |-> a, body |-> IF streaming[a] THEN Temperature ELSE Keepalive] \in UpDatagram
    BY DEF UpDatagram, Body
  <2>2. up' \in Seq(UpDatagram) /\ Len(up') = Len(up) + 1
    BY <1>6, <2>1, AppendProperties DEF Report, LinkTypeOK
  <2>3. Len(up') <= FlightCap
    BY <1>6, <2>2, LenProperties, IOAssumption DEF Report, Fits, LinkTypeOK
  <2> QED BY <1>6, <2>2, <2>3 DEF Report, LinkTypeOK, IOTypeOK, deviceVars, ioVars
<1>7. CASE Delivered
  <2> DEFINE a == Head(down).to
             b == Head(down).body
  <2>1. /\ Head(down) \in Datagram
        /\ down' \in Seq(Datagram) /\ Len(down') <= FlightCap
    BY <1>7, TakeType, IOAssumption DEF Delivered, IOTypeOK
  <2>2. a \in Addrs /\ b \in Body
    BY <2>1 DEF Datagram
  <2>3. IsAlarm(b) => b.channel \in Channel /\ b.temp \in WireTemps
    BY <2>2, AlarmBody DEF IsAlarm
  <2>4. streaming' \in [Addrs -> BOOLEAN]
    BY <1>7, <2>2 DEF Delivered, LinkTypeOK
  <2>5. devAlarm' \in [Addrs -> [Channel -> WireTemps]]
    BY <1>7, <2>2, <2>3 DEF Delivered, LinkTypeOK
  <2>6. up' \in Seq(UpDatagram) /\ Len(up') <= FlightCap
    <3>1. [from |-> a, body |-> b] \in UpDatagram
      BY <2>2 DEF UpDatagram
    <3> QED BY <1>7, <3>1, UpType DEF Delivered, LinkTypeOK
  <2>7. alarmLost' \in BOOLEAN
    BY <1>7 DEF Delivered, IOTypeOK, Overflows, IsAlarm
  <2> QED
    BY <1>7, <2>1, <2>4, <2>5, <2>6, <2>7 DEF Delivered, LinkTypeOK, IOTypeOK
<1>8. CASE LoseDown
  <2>1. down' \in Seq(Datagram) /\ Len(down') <= FlightCap
    BY <1>8, TakeType, IOAssumption DEF LoseDown, IOTypeOK
  <2> QED
    BY <1>8, <2>1 DEF LoseDown, LinkTypeOK, IOTypeOK, linkVars, deviceVars, IsAlarm
<1>9. CASE LoseUp
  BY <1>9, UpTaken DEF LoseUp, LinkTypeOK, IOTypeOK, deviceVars, IsAlarm
<1> QED
  BY <1>1, <1>2, <1>3, <1>4, <1>5, <1>6, <1>7, <1>8, <1>9
  DEF Serve, Firmware, FromTheCloud, Losses

\* The loop starts with nothing on the way.
LEMMA LinkInitTypes == LinkInit /\ IOInit => IOTypeOK /\ LinkTypeOK
<1> SUFFICES ASSUME LinkInit, IOInit PROVE IOTypeOK /\ LinkTypeOK
  OBVIOUS
<1>1. /\ <<>> \in Seq(UpDatagram) /\ <<>> \in Seq(Datagram) /\ <<>> \in Seq(DevicePacket)
      /\ Len(<<>>) <= FlightCap /\ Len(<<>>) <= QueueCap
  BY IOAssumption
<1>2. [a \in Addrs |-> [c \in Channel |-> 0]] \in [Addrs -> [Channel -> WireTemps]]
  BY IOAssumption DEF WireTemps
<1> QED BY <1>1, <1>2 DEF LinkInit, IOInit, IOTypeOK, LinkTypeOK

-----------------------------------------------------------------------------
(* The last packet of some kind in a queue *)

\* No element of q is in S.
NoneIn(q, S) == \A i \in 1 .. Len(q) : q[i] \notin S

\* The last element of q that is in S, if any, is in G.
LastIn(q, S, G) ==
  \A i \in 1 .. Len(q) :
    q[i] \in S /\ (\A j \in 1 .. Len(q) : j > i => q[j] \notin S) => q[i] \in G

LEMMA NoneTail ==
  ASSUME NEW T, NEW q \in Seq(T), q # <<>>, NEW S
  PROVE  NoneIn(q, S) <=> Head(q) \notin S /\ NoneIn(Tail(q), S)
<1>1. /\ Len(q) \in Nat \ {0} /\ Head(q) = q[1]
      /\ Tail(q) \in Seq(T) /\ Len(Tail(q)) = Len(q) - 1
      /\ \A i \in 1 .. Len(Tail(q)) : Tail(q)[i] = q[i + 1]
  BY HeadTailProperties
<1>2. ASSUME Head(q) \notin S, NoneIn(Tail(q), S), NEW i \in 1 .. Len(q)
      PROVE  q[i] \notin S
  <2>1. CASE i = 1
    BY <1>1, <1>2, <2>1
  <2>2. CASE i # 1
    <3>1. i - 1 \in 1 .. Len(Tail(q)) /\ Tail(q)[i - 1] = q[i]
      BY <1>1, <2>2
    <3> QED BY <1>2, <3>1 DEF NoneIn
  <2> QED BY <2>1, <2>2
<1>3. ASSUME NoneIn(q, S), NEW i \in 1 .. Len(Tail(q))
      PROVE  Tail(q)[i] \notin S
  BY <1>1, <1>3 DEF NoneIn
<1>4. NoneIn(q, S) => Head(q) \notin S
  BY <1>1 DEF NoneIn
<1> QED BY <1>2, <1>3, <1>4 DEF NoneIn

LEMMA NoneAppend ==
  ASSUME NEW T, NEW q \in Seq(T), NEW e \in T, NEW S
  PROVE  NoneIn(Append(q, e), S) <=> NoneIn(q, S) /\ e \notin S
<1>1. /\ Len(q) \in Nat /\ Len(Append(q, e)) = Len(q) + 1
      /\ \A i \in 1 .. Len(q) : Append(q, e)[i] = q[i]
      /\ Append(q, e)[Len(q) + 1] = e
  BY AppendProperties
<1> QED BY <1>1 DEF NoneIn

LEMMA LastTail ==
  ASSUME NEW T, NEW q \in Seq(T), q # <<>>, NEW S, NEW G, LastIn(q, S, G)
  PROVE  /\ LastIn(Tail(q), S, G)
         /\ Head(q) \in S /\ NoneIn(Tail(q), S) => Head(q) \in G
<1>1. /\ Len(q) \in Nat \ {0} /\ Head(q) = q[1]
      /\ Tail(q) \in Seq(T) /\ Len(Tail(q)) = Len(q) - 1
      /\ \A i \in 1 .. Len(Tail(q)) : Tail(q)[i] = q[i + 1]
  BY HeadTailProperties
<1>2. ASSUME NEW i \in 1 .. Len(Tail(q)), Tail(q)[i] \in S,
             \A j \in 1 .. Len(Tail(q)) : j > i => Tail(q)[j] \notin S
      PROVE  Tail(q)[i] \in G
  <2>1. i + 1 \in 1 .. Len(q) /\ q[i + 1] = Tail(q)[i]
    BY <1>1
  <2>2. ASSUME NEW j \in 1 .. Len(q), j > i + 1 PROVE q[j] \notin S
    <3>1. j - 1 \in 1 .. Len(Tail(q)) /\ j - 1 > i /\ Tail(q)[j - 1] = q[j]
      BY <1>1, <2>2
    <3> QED BY <1>2, <3>1
  <2> QED BY <1>2, <2>1, <2>2 DEF LastIn
<1>3. ASSUME Head(q) \in S, NoneIn(Tail(q), S) PROVE Head(q) \in G
  <2>1. ASSUME NEW j \in 1 .. Len(q), j > 1 PROVE q[j] \notin S
    <3>1. j - 1 \in 1 .. Len(Tail(q)) /\ Tail(q)[j - 1] = q[j]
      BY <1>1, <2>1
    <3> QED BY <1>3, <3>1 DEF NoneIn
  <2> QED BY <1>1, <1>3, <2>1 DEF LastIn
<1> QED BY <1>2, <1>3 DEF LastIn

LEMMA LastAppend ==
  ASSUME NEW T, NEW q \in Seq(T), NEW e \in T, NEW S, NEW G,
         e \in S => e \in G, e \notin S => LastIn(q, S, G)
  PROVE  LastIn(Append(q, e), S, G)
<1> DEFINE n == Len(q)
           r == Append(q, e)
<1>1. /\ n \in Nat /\ Len(r) = n + 1
      /\ \A i \in 1 .. n : r[i] = q[i]
      /\ r[n + 1] = e
  BY AppendProperties
<1> SUFFICES ASSUME NEW i \in 1 .. n + 1, r[i] \in S,
                    \A j \in 1 .. n + 1 : j > i => r[j] \notin S
             PROVE  r[i] \in G
  BY <1>1 DEF LastIn
<1> HIDE DEF n, r
<1>2. CASE i = n + 1
  BY <1>1, <1>2
<1>3. CASE i # n + 1
  <2>1. i \in 1 .. n /\ r[i] = q[i] /\ e \notin S
    BY <1>1, <1>3
  <2>2. \A j \in 1 .. n : j > i => q[j] \notin S
    BY <1>1, <2>1
  <2> QED BY <2>1, <2>2 DEF LastIn, n
<1> QED BY <1>2, <1>3

\* A sequence without elements of S: nothing is asked of its last one.
LEMMA LastOfNone ==
  ASSUME NEW q, NEW S, NEW G, NoneIn(q, S)
  PROVE  LastIn(q, S, G)
BY DEF NoneIn, LastIn
=============================================================================
