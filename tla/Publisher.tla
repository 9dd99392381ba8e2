----------------------------- MODULE Publisher -----------------------------
(***************************************************************************)
(* mqtt_proxy_publisher and the loops that restart it: the task that takes *)
(* packets from the channel, publishes them to the MQTT broker, keeps the  *)
(* retained availability topic, takes alarm commands of Home Assistant     *)
(* from the broker, sends them to the thermometer and saves them.          *)
(*                                                                         *)
(* One connection is one pass of `phase` through connecting, announcing,   *)
(* running and backoff. Between two await points the task is not           *)
(* interrupted, so a branch of its select! is one action; the one place    *)
(* where a crash may fall inside a branch and leave a trace is the write   *)
(* of the alarm file, which is an action of its own (phase "saving").      *)
(* Time is counted in ticks of one unit of PingPeriod and StaleTimeout.    *)
(***************************************************************************)
EXTENDS LocalIO

CONSTANTS
  PingPeriod,   \* the keepalive interval (30 s)
  StaleTimeout, \* stale_timeout (60 s)
  CmdCap,       \* capacity of the command channel (16)
  CmdChannels,  \* bound: the channels Home Assistant sends orders for, of 1 and 2
  Unreadable    \* the alarm file is absent or does not parse

ASSUME PublisherAssumption ==
  /\ PingPeriod \in Nat \ {0}
  /\ StaleTimeout \in Nat
  /\ CmdCap \in Nat \ {0}
  /\ CmdChannels \subseteq Channel
  /\ Unreadable \notin [Channel -> Temps]

VARIABLES
  phase,         \* where the publisher task stands
  session,       \* the broker's session: live, orphan (cut off, not yet noticed), none
  avail,         \* the retained value of the availability topic
  reader,        \* is the reader task of this connection alive?
  cmds,          \* mqtt_cmd channel: alarm commands <<channel, temp>>
  device_addr,   \* where alarm packets are sent
  device_id,     \* device_id_bytes
  alarm,         \* alarm_ch1, alarm_ch2
  device_online,
  last_packet,   \* ticks since a packet was taken, saturating at LongAgo
  ping_in,       \* ticks until ping_interval fires
  file           \* alarms.json

taskVars == <<phase, reader, cmds, device_addr, device_id, alarm,
              device_online, last_packet, ping_in>>
brokerVars == <<session, avail>>
pubVars == <<taskVars, brokerVars, file>>

-----------------------------------------------------------------------------
Commands  == Channel \X CmdTemps
Setpoints == [Channel -> Temps]
NoAlarms  == [c \in Channel |-> 0]
MaxAge    == StaleTimeout + PingPeriod
LongAgo   == MaxAge + 1   \* bound: a packet older than MaxAge is as good as never

Connected == phase \in {"running", "saving"}

PublisherTypeOK ==
  /\ phase \in {"unspawned", "connecting", "announcing", "running", "saving", "backoff"}
  /\ session \in {"none", "live", "orphan"}
  /\ avail \in {"unset", "online", "offline"}
  /\ reader \in BOOLEAN
  /\ cmds \in Seq(Commands)
  /\ Len(cmds) <= CmdCap
  /\ device_addr \in Addrs \cup {NoAddr}
  /\ device_id \in Ids \cup {NoAddr}
  /\ alarm \in Setpoints
  /\ device_online \in BOOLEAN
  /\ last_packet \in 0 .. LongAgo
  /\ ping_in \in 0 .. PingPeriod
  /\ file \in Setpoints \cup {Unreadable}

-----------------------------------------------------------------------------
\* load_alarm_state: anything that cannot be read is "no alarm" on both channels.
LoadAlarmState == IF file = Unreadable THEN NoAlarms ELSE file

\* A retained publish reaches the topic only while the broker still serves this
\* connection; on a connection already dead the write may succeed all the same.
Publish(v) == IF session = "live" THEN v ELSE avail

\* The last will the CONNECT registers.
WrongWill == "online"   \* mutant: the payload of the announcement
Will == "offline"

\* The fresh locals of a call of mqtt_proxy_publisher, given the setpoints.
FreshLocals(setpoints) ==
  /\ cmds' = <<>>
  /\ device_addr' = NoAddr
  /\ device_id' = NoAddr
  /\ alarm' = setpoints
  /\ device_online' = FALSE
  /\ last_packet' = 0
  /\ ping_in' = PingPeriod

\* The call returned or the process died: its locals are gone, and what is left
\* of the connection is for the broker to notice.
Dropped(next) ==
  /\ phase' = next
  /\ reader' = FALSE
  /\ FreshLocals(NoAlarms)
  /\ session' = IF session = "live" THEN "orphan" ELSE session

Spawn ==
  /\ phase = "unspawned"
  /\ phase' = "connecting"
  /\ UNCHANGED <<reader, cmds, device_addr, device_id, alarm, device_online,
                 last_packet, ping_in, brokerVars, file, ioVars>>

-----------------------------------------------------------------------------
(* Connecting and announcing *)

\* CONNECT with the will, up to a good CONNACK. The client id is always the same,
\* so a session the broker still holds is closed, its will published first.
Connect ==
  /\ phase = "connecting"
  /\ phase' = "announcing"
  /\ session' = "live"
  /\ avail' = IF session = "orphan" THEN Will ELSE avail
  /\ UNCHANGED <<reader, cmds, device_addr, device_id, alarm, device_online,
                 last_packet, ping_in, file, ioVars>>

\* No connection, an error before or in the CONNACK.
ConnectFails ==
  /\ phase = "connecting"
  /\ Dropped("backoff")
  /\ UNCHANGED <<avail, file, ioVars>>

\* Discovery, "online", SUBSCRIBE, the alarm file, the reader task, the timers.
Announce ==
  /\ phase = "announcing"
  /\ phase' = "running"
  /\ avail' = Publish("online")
  /\ reader' = TRUE
  /\ FreshLocals(LoadAlarmState)
  /\ UNCHANGED <<session, file, ioVars>>

\* A write on the way fails, before or after "online" went out.
AnnounceFails ==
  /\ phase = "announcing"
  /\ avail' \in {avail, Publish("online")}
  /\ Dropped("backoff")
  /\ UNCHANGED <<file, ioVars>>

\* mutant: the loop breaks on an error as on success
GivesUp == phase = "backoff" /\ UNCHANGED <<pubVars, ioVars>>

\* The reconnect loop sleeps, then calls again.
Wake ==
  /\ phase = "backoff"
  /\ phase' = "connecting"
  /\ UNCHANGED <<reader, cmds, device_addr, device_id, alarm, device_online,
                 last_packet, ping_in, brokerVars, file, ioVars>>

-----------------------------------------------------------------------------
(* The select! branch of the packet channel *)

IsReport(p) == p.direction = "DeviceToCloud" /\ p.parsed = Temperature

NotedPositive(p) ==   \* mutant: an alarm taken back is not noted
  IF p.parsed.kind = "alarm" /\ p.parsed.temp > 0
  THEN [alarm EXCEPT ![p.parsed.channel] = p.parsed.temp]
  ELSE alarm
Noted(p) == IF p.parsed.kind = "alarm"
            THEN [alarm EXCEPT ![p.parsed.channel] = p.parsed.temp]
            ELSE alarm

AlarmToOther(a, id, c, t) ==   \* mutant: the config bytes A1 and A2 swapped
  [to |-> a, id |-> id, body |-> Alarm(3 - c, Wire(t))]
AlarmTo(a, id, c, t) == [to |-> a, id |-> id, body |-> Alarm(c, Wire(t))]

\* Push the positive setpoints to thermometer id at address a, channel 1 first.
\* A send that fails is a datagram lost, and both are ignored.
PushSetpoint(q, a, id, c, setpoints) ==
  IF setpoints[c] > 0 THEN SendTo(q, AlarmTo(a, id, c, setpoints[c])) ELSE q
RepushFirst(a, id, setpoints) ==   \* mutant: channel 2 forgotten
  PushSetpoint(down, a, id, 1, setpoints)
RepushToOld(a, id, setpoints) ==   \* mutant: the address known before this packet
  LET to == IF device_addr = NoAddr THEN a ELSE device_addr
  IN  PushSetpoint(PushSetpoint(down, to, id, 1, setpoints), to, id, 2, setpoints)
Repush(a, id, setpoints) ==
  PushSetpoint(PushSetpoint(down, a, id, 1, setpoints), a, id, 2, setpoints)
RepushFits(setpoints) ==
  Len(down) + (IF setpoints[1] > 0 THEN 1 ELSE 0)
            + (IF setpoints[2] > 0 THEN 1 ELSE 0) <= FlightCap

HandlePacket ==
  /\ phase = "running"
  /\ rx # <<>>
  /\ LET p == Head(rx) IN
     /\ rx' = Tail(rx)
     /\ last_packet' = 0
     /\ device_addr' = IF p.direction = "DeviceToCloud" THEN p.source ELSE device_addr
     /\ device_id' = IF IsReport(p) /\ device_id = NoAddr THEN p.source ELSE device_id
     /\ alarm' = Noted(p)
     /\ IF IsReport(p) /\ ~device_online
        THEN /\ avail' = Publish("online")
             /\ device_online' = TRUE
             /\ down' = Repush(device_addr', device_id', alarm')
             /\ alarmLost' = (alarmLost \/ ~RepushFits(alarm'))
        ELSE UNCHANGED <<avail, device_online, down, alarmLost>>
  /\ UNCHANGED <<phase, reader, cmds, ping_in, session, file>>

\* A temperature report whose publish fails ends the call; "online" may be out.
HandlePacketFails ==
  /\ phase = "running"
  /\ rx # <<>>
  /\ IsReport(Head(rx))
  /\ rx' = Tail(rx)
  /\ avail' \in {avail} \cup (IF device_online THEN {} ELSE {Publish("online")})
  /\ Dropped("backoff")
  /\ UNCHANGED <<file, down, alarmLost>>

-----------------------------------------------------------------------------
(* The select! branch of the ping interval *)

LateStale  == device_online /\ last_packet > StaleTimeout + 1   \* mutant: off by one
NeverStale == device_online /\ last_packet > LongAgo            \* mutant: the wrong limit
Stale == device_online /\ last_packet > StaleTimeout

KeepsTopic ==   \* mutant: "offline" is not published
  /\ device_online' = FALSE
  /\ UNCHANGED avail
KeepsFlag ==   \* mutant: device_online is not reset
  /\ avail' = Publish("offline")
  /\ UNCHANGED device_online
GoesOffline ==
  /\ avail' = Publish("offline")
  /\ device_online' = FALSE

Ping ==
  /\ phase = "running"
  /\ ping_in = 0
  /\ ping_in' = PingPeriod
  /\ IF Stale
     THEN GoesOffline
     ELSE UNCHANGED <<avail, device_online>>
  /\ UNCHANGED <<phase, reader, cmds, device_addr, device_id, alarm, last_packet,
                 session, file, ioVars>>

PingFails ==
  /\ phase = "running"
  /\ ping_in = 0
  /\ avail' \in {avail} \cup (IF Stale THEN {Publish("offline")} ELSE {})
  /\ Dropped("backoff")
  /\ UNCHANGED <<file, ioVars>>

-----------------------------------------------------------------------------
(* The select! branch of the command channel, and the reader task behind it *)

\* Home Assistant publishes a setpoint; the reader task queues it or drops it.
HaCommand(c, t) ==
  /\ Connected
  /\ session = "live"
  /\ reader
  /\ cmds' = Push(cmds, <<c, t>>, CmdCap)
  /\ UNCHANGED <<phase, reader, device_addr, device_id, alarm, device_online,
                 last_packet, ping_in, brokerVars, file, ioVars>>

\* End of stream or a read error: the reader task returns and drops its sender.
ReaderExits ==
  /\ Connected
  /\ session # "live"
  /\ reader
  /\ reader' = FALSE
  /\ UNCHANGED <<phase, cmds, device_addr, device_id, alarm, device_online,
                 last_packet, ping_in, brokerVars, file, ioVars>>

\* No thermometer is known yet, or send_to failed: the command is forgotten.
CmdIgnored ==
  /\ phase = "running"
  /\ cmds # <<>>
  /\ cmds' = Tail(cmds)
  /\ UNCHANGED <<phase, reader, device_addr, device_id, alarm, device_online,
                 last_packet, ping_in, brokerVars, file, ioVars>>

TakeCmd ==
  /\ phase = "running"
  /\ cmds # <<>>
  /\ device_addr # NoAddr
  /\ device_id # NoAddr
  /\ LET c == Head(cmds)[1]
         t == Head(cmds)[2] IN
     /\ down' = SendTo(down, AlarmTo(device_addr, device_id, c, t))
     /\ alarmLost' = (alarmLost \/ ~Fits(down, FlightCap))
     /\ alarm' = [alarm EXCEPT ![c] = t]
  /\ cmds' = Tail(cmds)
  /\ phase' = "saving"
  /\ UNCHANGED <<reader, device_addr, device_id, device_online, last_packet,
                 ping_in, brokerVars, file, rx>>

\* save_alarm_state: both setpoints replace the file.
SaveAlarmState ==
  /\ phase = "saving"
  /\ phase' = "running"
  /\ file' = alarm
  /\ UNCHANGED <<reader, cmds, device_addr, device_id, alarm, device_online,
                 last_packet, ping_in, brokerVars, ioVars>>

\* fs::write fails, before or after it truncated the file; that is only logged.
SaveFails ==
  /\ phase = "saving"
  /\ phase' = "running"
  /\ file' \in {file, Unreadable}
  /\ UNCHANGED <<reader, cmds, device_addr, device_id, alarm, device_online,
                 last_packet, ping_in, brokerVars, ioVars>>

\* mutant: the end of the command channel is no error
ReaderEndIgnored ==
  /\ phase = "running" /\ cmds = <<>> /\ ~reader
  /\ UNCHANGED <<pubVars, ioVars>>

\* recv returns None: the reader task is gone and its commands are taken.
ReaderGone ==
  /\ phase = "running"
  /\ cmds = <<>>
  /\ ~reader
  /\ Dropped("backoff")
  /\ UNCHANGED <<avail, file, ioVars>>

-----------------------------------------------------------------------------
(* The broker, the clock, the process *)

\* The network between the two breaks; neither side knows yet.
LinkBreaks ==
  /\ session = "live"
  /\ session' = "orphan"
  /\ UNCHANGED <<taskVars, avail, file, ioVars>>

\* The broker sees the connection close or hears no ping for too long: it ends
\* the session and publishes the will.
SessionEnds ==
  /\ session # "none"
  /\ session' = "none"
  /\ avail' = Will
  /\ UNCHANGED <<taskVars, file, ioVars>>

\* The tick the interval waits for is not passed: the loop serves it first.
Tick ==
  /\ Connected
  /\ ping_in > 0
  /\ ping_in' = ping_in - 1
  /\ last_packet' = IF last_packet < LongAgo THEN last_packet + 1 ELSE LongAgo
  /\ UNCHANGED <<phase, reader, cmds, device_addr, device_id, alarm, device_online,
                 brokerVars, file, ioVars>>

\* The process stops: the channel goes with it. While the file is being written
\* it may be left as it was, truncated, or new.
Crash ==
  /\ phase # "unspawned"
  /\ Dropped("unspawned")
  /\ rx' = <<>>
  /\ file' \in {file} \cup (IF phase = "saving" THEN {Unreadable, alarm} ELSE {})
  /\ alarmLost' = (alarmLost \/ \E i \in 1 .. Len(rx) : rx[i].parsed.kind = "alarm")
  /\ UNCHANGED <<avail, down>>

-----------------------------------------------------------------------------
PublisherInit ==
  /\ phase = "unspawned"
  /\ session = "none"
  /\ avail = "unset"
  /\ reader = FALSE
  /\ cmds = <<>>
  /\ device_addr = NoAddr
  /\ device_id = NoAddr
  /\ alarm = NoAlarms
  /\ device_online = FALSE
  /\ last_packet = 0
  /\ ping_in = PingPeriod
  /\ file = Unreadable

\* What the task does of itself, what fails under it, and what Home Assistant,
\* the clock and the process do to it.
Task == \/ Spawn \/ Connect \/ Announce \/ Wake \/ HandlePacket \/ Ping
        \/ ReaderExits \/ CmdIgnored \/ TakeCmd \/ SaveAlarmState \/ ReaderGone
Failures == \/ ConnectFails \/ AnnounceFails \/ HandlePacketFails \/ PingFails
            \/ LinkBreaks \/ SessionEnds
Commanded == \E c \in CmdChannels, t \in CmdTemps : HaCommand(c, t)
=============================================================================
