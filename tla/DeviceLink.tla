----------------------------- MODULE DeviceLink -----------------------------
(***************************************************************************)
(* The UDP side of `local monitor` and `local proxy`: thermometers, the    *)
(* network between them and this host, and the loop that receives their    *)
(* datagrams, echoes them, hands them to the publisher and, in the proxy,  *)
(* relays what the vendor cloud sends.                                     *)
(*                                                                         *)
(* The thermometer is firmware, modelled from what the code relies on: it  *)
(* sends keepalives until one is echoed and temperatures from then on,     *)
(* adopts and acknowledges every alarm packet it is sent, an echoed one    *)
(* included, and forgets its alarms when it is switched off. The network   *)
(* keeps the order and may lose anything. Packets to the cloud leave no    *)
(* trace here; what the cloud sends, it may send at any time.              *)
(***************************************************************************)
EXTENDS LocalIO

CONSTANTS
  Mode,         \* "monitor" (cmd_local_monitor) or "proxy" (run_proxy)
  LearnsId      \* monitor: --mac is missing, the first packet names the thermometer

ASSUME LinkAssumption ==
  /\ Mode \in {"monitor", "proxy"}
  /\ LearnsId \in BOOLEAN
  /\ Mode = "proxy" => ~LearnsId

VARIABLES
  loop,         \* who has the port: nobody (down), the UDP loop, which is learning (waits for the
                \* first packet) or serving, or set-alarm (setting, confirming)
  route,        \* proxy: device_addr, where cloud packets go
  power,        \* [Addrs -> BOOLEAN]
  streaming,    \* [Addrs -> BOOLEAN]: sends temperatures, not keepalives
  devAlarm,     \* [Addrs -> [Channel -> WireTemps]]: the setpoints in force
  up            \* datagrams from the thermometers to this host, oldest first

deviceVars == <<power, streaming, devAlarm>>
linkVars   == <<loop, route, deviceVars, up>>

-----------------------------------------------------------------------------
UpDatagram == [from : Addrs, body : Body]

LinkTypeOK ==
  /\ loop \in {"down", "learning", "serving", "setting", "confirming"}
  /\ route \in Addrs \cup {NoAddr}
  /\ power \in [Addrs -> BOOLEAN]
  /\ streaming \in [Addrs -> BOOLEAN]
  /\ devAlarm \in [Addrs -> [Channel -> WireTemps]]
  /\ up \in Seq(UpDatagram)
  /\ Len(up) <= FlightCap

IsAlarm(b) == b.kind = "alarm"

\* build_echo: any well-framed packet, alarm packets included, comes back with the
\* direction byte flipped; that byte decides nothing at the receiver.
FramedReport(b) == b = Temperature   \* mutant: packets of 18 bytes only
Framed(b) == b # Noise

\* Which packets the loop echoes: the monitor leaves alarm packets out, except
\* when it takes the first packet of all; the proxy leaves none out.
EchoesAlarms(b) == Framed(b)   \* mutant: the exception forgotten
Echoed(b) == Framed(b) /\ (Mode = "monitor" /\ loop = "serving" => ~IsAlarm(b))

Echo(d) == IF Echoed(d.body)
           THEN SendTo(down, [to |-> d.from, id |-> d.from, body |-> d.body])
           ELSE down

\* A packet of that body is dropped if the queue of that capacity is full.
Overflows(b, q, cap) == IsAlarm(b) /\ ~Fits(q, cap)

-----------------------------------------------------------------------------
(* The UDP loop *)

\* The sockets are bound.
Start ==
  /\ loop = "down"
  /\ loop' = IF LearnsId THEN "learning" ELSE "serving"
  /\ route' = NoAddr
  /\ UNCHANGED <<deviceVars, up, ioVars>>

\* The first packet names the thermometer: it is echoed and goes no further.
LearnId ==
  /\ loop = "learning"
  /\ up # <<>>
  /\ loop' = "serving"
  /\ up' = Tail(up)
  /\ down' = Echo(Head(up))
  /\ alarmLost' = (alarmLost \/ IsAlarm(Head(up).body))
  /\ UNCHANGED <<route, deviceVars, rx>>

\* What the loop hands to the publisher.
SourceMixedUp(d) ==   \* mutant: the address of the cloud's socket
  [direction |-> "DeviceToCloud", source |-> CloudAddr, parsed |-> d.body]
Received(d) == FromDevice(d.from, d.body)

FromThermometer ==
  /\ loop = "serving"
  /\ up # <<>>
  /\ LET d == Head(up) IN
     /\ rx' = TrySend(Received(d))
     /\ down' = Echo(d)
     /\ route' = IF Mode = "proxy" THEN d.from ELSE route
     /\ alarmLost' = \/ alarmLost
                     \/ Overflows(d.body, rx, QueueCap)
                     \/ Echoed(d.body) /\ Overflows(d.body, down, FlightCap)
  /\ up' = Tail(up)
  /\ UNCHANGED <<loop, deviceVars>>

\* The proxy relays a packet of the cloud to the last sender it heard.
CloudPacket(b) ==
  /\ Mode = "proxy"
  /\ loop = "serving"
  /\ rx' = TrySend(FromCloud(b))
  /\ down' = IF route = NoAddr THEN down
             ELSE SendTo(down, [to |-> route, id |-> route, body |-> b])
  /\ alarmLost' = \/ alarmLost
                  \/ Overflows(b, rx, QueueCap)
                  \/ route # NoAddr /\ Overflows(b, down, FlightCap)
  /\ UNCHANGED linkVars

-----------------------------------------------------------------------------
(* Thermometers and network *)

SwitchOn(a) ==
  /\ ~power[a]
  /\ power' = [power EXCEPT ![a] = TRUE]
  /\ UNCHANGED <<loop, route, streaming, devAlarm, up, ioVars>>

SwitchOff(a) ==
  /\ power[a]
  /\ power' = [power EXCEPT ![a] = FALSE]
  /\ streaming' = [streaming EXCEPT ![a] = FALSE]
  /\ devAlarm' = [devAlarm EXCEPT ![a] = [c \in Channel |-> 0]]
  /\ UNCHANGED <<loop, route, up, ioVars>>

\* The regular packet, about one a second.
Report(a) ==
  /\ power[a]
  /\ Fits(up, FlightCap)
  /\ up' = Append(up, [from |-> a, body |-> IF streaming[a] THEN Temperature ELSE Keepalive])
  /\ UNCHANGED <<loop, route, deviceVars, ioVars>>

\* A datagram reaches the thermometer it is sent to.
Delivered ==
  /\ down # <<>>
  /\ power[Head(down).to]
  /\ down' = Tail(down)
  /\ LET a == Head(down).to
         b == Head(down).body IN
     /\ streaming' = [streaming EXCEPT ![a] = @ \/ b = Keepalive]
     /\ devAlarm' = IF IsAlarm(b)
                    THEN [devAlarm EXCEPT ![a] = [@ EXCEPT ![b.channel] = b.temp]]
                    ELSE devAlarm
     /\ up' = IF IsAlarm(b) THEN SendTo(up, [from |-> a, body |-> b]) ELSE up
     /\ alarmLost' = (alarmLost \/ Overflows(b, up, FlightCap))
  /\ UNCHANGED <<loop, route, power, rx>>

\* The next datagram of either direction never arrives.
LoseDown ==
  /\ down # <<>>
  /\ down' = Tail(down)
  /\ alarmLost' = (alarmLost \/ IsAlarm(Head(down).body))
  /\ UNCHANGED <<linkVars, rx>>

LoseUp ==
  /\ up # <<>>
  /\ up' = Tail(up)
  /\ alarmLost' = (alarmLost \/ IsAlarm(Head(up).body))
  /\ UNCHANGED <<loop, route, deviceVars, rx, down>>

\* What the process does not read is lost with its socket.
StopLoop ==
  /\ loop' = "down"
  /\ route' = NoAddr
  /\ UNCHANGED <<deviceVars, up>>

-----------------------------------------------------------------------------
LinkInit ==
  /\ loop = "down"
  /\ route = NoAddr
  /\ power = [a \in Addrs |-> FALSE]
  /\ streaming = [a \in Addrs |-> FALSE]
  /\ devAlarm = [a \in Addrs |-> [c \in Channel |-> 0]]
  /\ up = <<>>

Serve     == Start \/ LearnId \/ FromThermometer
Firmware  == Delivered \/ \E a \in Addrs : Report(a)
Losses    == LoseDown \/ LoseUp
Switching == \E a \in Addrs : SwitchOn(a) \/ SwitchOff(a)
FromTheCloud == \E b \in Body : CloudPacket(b)
=============================================================================
