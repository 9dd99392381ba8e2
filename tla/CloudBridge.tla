---------------------------- MODULE CloudBridge ----------------------------
(***************************************************************************)
(* run_bridge and run_bridge_with_reconnect: the task of `cloud monitor`   *)
(* that polls the vendor cloud, publishes what it answers to the MQTT      *)
(* broker, keeps the availability topic, and forwards the setpoints of     *)
(* Home Assistant to the cloud.                                            *)
(*                                                                         *)
(* A branch of the select! that awaits an HTTP request holds the others    *)
(* back until the request is answered or times out: the phases "polling"   *)
(* and "ordering". The cloud stamps a reading with the time it last heard  *)
(* the thermometer and refuses readings older than CutOff. Its clock and   *)
(* the clock of this host agree. Time is counted in ticks of one unit of   *)
(* the constants.                                                          *)
(***************************************************************************)
EXTENDS Integers, Sequences

CONSTANTS
  PollPeriod,     \* config.poll_interval (3 s unless --interval says otherwise)
  PingPeriod,     \* the keepalive interval (30 s)
  HttpTimeout,    \* of the HTTP client (20 s)
  StaleLimit,     \* is_stale(60)
  CutOff,         \* the cloud's limit for a silent thermometer (10 minutes)
  KeepAliveLimit, \* silence a broker bears: 1.5 times the Keep Alive of CONNECT (90 s)
  CmdCap,         \* capacity of the command channel (16)
  CmdTemps,       \* setpoints Home Assistant may send
  MissedCap,      \* bound: polls that are due at once, further ones are forgotten
  MaxOrders       \* bound: setpoints Home Assistant sends between two reports

ASSUME CloudAssumption ==
  /\ PollPeriod \in Nat \ {0}
  /\ PingPeriod \in Nat \ {0}
  /\ HttpTimeout \in Nat
  /\ StaleLimit \in Nat
  /\ CutOff \in Nat
  /\ KeepAliveLimit \in Nat
  /\ CmdCap \in Nat \ {0}
  /\ CmdTemps \subseteq Int
  /\ MissedCap \in Nat \ {0}
  /\ MaxOrders \in Nat

VARIABLES
  phase,         \* where the task stands
  session,       \* the broker's session: live, orphan (cut off, not yet noticed), none
  avail,         \* the retained value of the availability topic
  reader,        \* is the reader task of this connection alive?
  cmds,          \* alarm channel: setpoints <<channel, temp>>
  alarm,         \* alarm_ch1, alarm_ch2
  poll_in,       \* ticks until the next poll is due
  polls_due,     \* polls due and not begun: a missed tick is made up for
  ping_in,       \* ticks until the next ping is due
  ping_due,
  request,       \* the setpoint being forwarded, the last one between requests
  waited,        \* ticks the request has lasted
  silence,       \* ticks since the broker heard of this connection
  age,           \* ticks since the cloud heard the thermometer
  orders,        \* setpoints Home Assistant has sent since the last report
  steady         \* history: connected without an error since the last report

timerVars  == <<poll_in, polls_due, ping_in, ping_due>>
brokerVars == <<session, avail, silence>>
worldVars  == <<age, orders>>
vars == <<phase, brokerVars, reader, cmds, alarm, timerVars, request, waited,
          worldVars, steady>>

-----------------------------------------------------------------------------
Channel   == 1 .. 2
Commands  == Channel \X CmdTemps
Setpoints == [Channel -> CmdTemps \cup {0}]
NoAlarms  == [c \in Channel |-> 0]
NoRequest == <<1, 0>>
Requesting == phase \in {"polling", "ordering"}
Connected  == phase = "running" \/ Requesting

TypeOK ==
  /\ phase \in {"connecting", "announcing", "running", "polling", "ordering", "backoff"}
  /\ session \in {"none", "live", "orphan"}
  /\ avail \in {"unset", "online", "offline"}
  /\ reader \in BOOLEAN
  /\ cmds \in Seq(Commands)
  /\ Len(cmds) <= CmdCap
  /\ alarm \in Setpoints
  /\ poll_in \in 1 .. PollPeriod
  /\ polls_due \in 0 .. MissedCap
  /\ ping_in \in 1 .. PingPeriod
  /\ ping_due \in BOOLEAN
  /\ request \in Commands \cup {NoRequest}
  /\ waited \in 0 .. HttpTimeout
  /\ silence \in 0 .. KeepAliveLimit + 1
  /\ age \in 0 .. CutOff
  /\ orders \in 0 .. MaxOrders
  /\ steady \in BOOLEAN

-----------------------------------------------------------------------------
(* One connection: connect, announce, main loop, sleep *)

Publish(v) == IF session = "live" THEN v ELSE avail

\* The last will the CONNECT registers.
NoWill == avail   \* mutant: CONNECT without a will
Will   == "offline"

FreshLocals ==
  /\ cmds' = <<>>
  /\ alarm' = NoAlarms
  /\ poll_in' = PollPeriod
  /\ polls_due' = 0
  /\ ping_in' = PingPeriod
  /\ ping_due' = FALSE
  /\ request' = NoRequest
  /\ waited' = 0

\* run_bridge returned an error, or the process was restarted.
Dropped(next) ==
  /\ phase' = next
  /\ reader' = FALSE
  /\ FreshLocals
  /\ session' = IF session = "live" THEN "orphan" ELSE session
  /\ steady' = FALSE

Quietly(A) == A /\ UNCHANGED <<brokerVars, worldVars, steady>>

Connect ==
  /\ phase = "connecting"
  /\ phase' = "announcing"
  /\ session' = "live"
  /\ avail' = IF session = "orphan" THEN Will ELSE avail
  /\ silence' = 0
  /\ UNCHANGED <<reader, cmds, alarm, timerVars, request, waited, worldVars, steady>>

ConnectFails ==
  /\ phase = "connecting"
  /\ Dropped("backoff")
  /\ UNCHANGED <<avail, silence, worldVars>>

\* Discovery, SUBSCRIBE, "online", the reader task, the timers. The setpoints
\* start from zero, whatever was set before.
Announce ==
  /\ phase = "announcing"
  /\ phase' = "running"
  /\ avail' = Publish("online")
  /\ silence' = 0
  /\ reader' = TRUE
  /\ FreshLocals
  /\ UNCHANGED <<session, worldVars, steady>>

AnnounceFails ==
  /\ phase = "announcing"
  /\ avail' \in {avail, Publish("online")}
  /\ Dropped("backoff")
  /\ UNCHANGED <<silence, worldVars>>

GivesUp == phase = "backoff" /\ UNCHANGED vars   \* mutant: an error ends the loop
Wake ==
  /\ phase = "backoff"
  /\ phase' = "connecting"
  /\ Quietly(UNCHANGED <<reader, cmds, alarm, timerVars, request, waited>>)

-----------------------------------------------------------------------------
(* The select! branch of the poll interval *)

Poll ==
  /\ phase = "running"
  /\ polls_due > 0
  /\ phase' = "polling"
  /\ polls_due' = polls_due - 1
  /\ waited' = 0
  /\ Quietly(UNCHANGED <<reader, cmds, alarm, poll_in, ping_in, ping_due, request>>)

\* online() && !is_stale(60): the cloud calls a thermometer online until the cut-off.
StaleByCloud == IF age > CutOff THEN "offline" ELSE "online"   \* mutant: the cloud's word alone
StaysOffline == IF age > StaleLimit \/ avail = "offline" THEN "offline" ELSE "online"   \* mutant
Status == IF age > StaleLimit THEN "offline" ELSE "online"

PollAnswered ==
  /\ phase = "polling"
  /\ age < CutOff
  /\ phase' = "running"
  /\ waited' = 0
  /\ avail' = Publish(Status)
  /\ silence' = 0
  /\ UNCHANGED <<session, reader, cmds, alarm, timerVars, request, worldVars, steady>>

\* No answer, an answer that does not parse, or the error past the cut-off: logged.
PollFails ==
  /\ phase = "polling"
  /\ phase' = "running"
  /\ waited' = 0
  /\ steady' = (steady /\ age = CutOff)
  /\ UNCHANGED <<brokerVars, reader, cmds, alarm, timerVars, request, worldVars>>

\* One of the two writes fails.
PollWriteFails ==
  /\ phase = "polling"
  /\ age < CutOff
  /\ avail' \in {avail, Publish(Status)}
  /\ Dropped("backoff")
  /\ UNCHANGED <<silence, worldVars>>

-----------------------------------------------------------------------------
(* The select! branch of the ping interval *)

Ping ==
  /\ phase = "running"
  /\ ping_due
  /\ ping_due' = FALSE
  /\ silence' = 0
  /\ UNCHANGED <<phase, session, avail, reader, cmds, alarm, poll_in, polls_due, ping_in,
                 request, waited, worldVars, steady>>

PingFails ==
  /\ phase = "running"
  /\ ping_due
  /\ Dropped("backoff")
  /\ UNCHANGED <<avail, silence, worldVars>>

-----------------------------------------------------------------------------
(* The select! branch of the command channel, and the reader task behind it *)

QueuedUnbounded(cmd) == Append(cmds, cmd)   \* mutant: an unbounded channel
Queued(cmd) == IF Len(cmds) < CmdCap THEN Append(cmds, cmd) ELSE cmds

\* Home Assistant publishes a setpoint; the reader task queues it or drops it.
HaCommand(c, t) ==
  /\ Connected /\ session = "live" /\ reader
  /\ orders < MaxOrders
  /\ orders' = orders + 1
  /\ cmds' = Queued(<<c, t>>)
  /\ UNCHANGED <<phase, brokerVars, reader, alarm, timerVars, request, waited,
                 age, steady>>

ReaderExits ==
  /\ Connected /\ session # "live" /\ reader
  /\ reader' = FALSE
  /\ Quietly(UNCHANGED <<phase, cmds, alarm, timerVars, request, waited>>)

TakeCmd ==
  /\ phase = "running"
  /\ cmds # <<>>
  /\ phase' = "ordering"
  /\ request' = Head(cmds)
  /\ cmds' = Tail(cmds)
  /\ waited' = 0
  /\ Quietly(UNCHANGED <<reader, alarm, timerVars>>)

\* send() returned Ok, whatever the status of the answer says: the setpoint is
\* shown as set from now on.
OrderSent ==
  /\ phase = "ordering"
  /\ phase' = "running"
  /\ waited' = 0
  /\ alarm' = [alarm EXCEPT ![request[1]] = request[2]]
  /\ Quietly(UNCHANGED <<reader, cmds, timerVars, request>>)

\* send() returned an error, a timeout perhaps: logged.
OrderFails ==
  /\ phase = "ordering"
  /\ phase' = "running"
  /\ waited' = 0
  /\ Quietly(UNCHANGED <<reader, cmds, alarm, timerVars, request>>)

\* recv returns None: the reader task is gone and its commands are taken.
ReaderGone ==
  /\ phase = "running"
  /\ cmds = <<>>
  /\ ~reader
  /\ Dropped("backoff")
  /\ UNCHANGED <<avail, silence, worldVars>>

-----------------------------------------------------------------------------
(* Broker, network, thermometer, process and clock *)

LinkBreaks ==
  /\ session = "live"
  /\ session' = "orphan"
  /\ steady' = FALSE
  /\ UNCHANGED <<phase, avail, silence, reader, cmds, alarm, timerVars, request, waited,
                 worldVars>>

SessionEnds ==
  /\ session # "none"
  /\ session' = "none"
  /\ avail' = Will
  /\ steady' = FALSE
  /\ UNCHANGED <<phase, silence, reader, cmds, alarm, timerVars, request, waited,
                 worldVars>>

\* The process stops and is started again.
Restart ==
  /\ Dropped("connecting")
  /\ UNCHANGED <<avail, silence, worldVars>>

\* The thermometer reports to the cloud.
DeviceReports ==
  /\ age' = 0
  /\ orders' = 0
  /\ steady' = (Connected /\ session = "live")
  /\ UNCHANGED <<phase, brokerVars, reader, cmds, alarm, timerVars, request, waited>>

UpTo(n, max) == IF n < max THEN n + 1 ELSE max

\* Time does not pass a branch that is ready, nor the timeout of a request.
Tick ==
  /\ phase # "announcing"
  /\ phase = "running" => polls_due = 0 /\ ~ping_due /\ cmds = <<>> /\ reader
  /\ Requesting => waited < HttpTimeout
  /\ age' = UpTo(age, CutOff)
  /\ silence' = IF session = "live" THEN UpTo(silence, KeepAliveLimit + 1) ELSE silence
  /\ IF Connected
     THEN /\ poll_in' = IF poll_in = 1 THEN PollPeriod ELSE poll_in - 1
          /\ polls_due' = IF poll_in = 1 THEN UpTo(polls_due, MissedCap) ELSE polls_due
          /\ ping_in' = IF ping_in = 1 THEN PingPeriod ELSE ping_in - 1
          /\ ping_due' = (ping_due \/ ping_in = 1)
     ELSE UNCHANGED timerVars
  /\ waited' = IF Requesting THEN waited + 1 ELSE waited
  /\ UNCHANGED <<phase, session, avail, reader, cmds, alarm, request, orders, steady>>

-----------------------------------------------------------------------------
Init ==
  /\ phase = "connecting"
  /\ session = "none" /\ avail = "unset" /\ silence = 0
  /\ reader = FALSE
  /\ cmds = <<>> /\ alarm = NoAlarms
  /\ poll_in = PollPeriod /\ polls_due = 0
  /\ ping_in = PingPeriod /\ ping_due = FALSE
  /\ request = NoRequest /\ waited = 0
  /\ age \in {0, CutOff} /\ orders = 0
  /\ steady = FALSE

Task == \/ Connect \/ Announce \/ Wake \/ Poll \/ PollAnswered \/ Ping \/ ReaderExits
        \/ TakeCmd \/ OrderSent \/ ReaderGone
Failures == \/ ConnectFails \/ AnnounceFails \/ PollFails \/ PollWriteFails \/ PingFails
            \/ OrderFails \/ LinkBreaks \/ SessionEnds \/ Restart
Commanded == \E c \in Channel, t \in CmdTemps : HaCommand(c, t)

Next == Task \/ Failures \/ Commanded \/ DeviceReports \/ Tick
Spec == Init /\ [][Next]_vars

\* As in PublisherSpec: select! picks its branches at random, an HTTP request
\* ends, the broker lets an attempt through now and then, TCP reports a dead link.
\* Time goes on, however many setpoints arrive.
Fairness ==
  /\ WF_vars(Wake) /\ SF_vars(Tick) /\ WF_vars(ReaderExits)
  /\ SF_vars(Connect) /\ SF_vars(Announce)
  /\ SF_vars(Poll) /\ SF_vars(Ping) /\ SF_vars(TakeCmd) /\ SF_vars(ReaderGone)
  /\ WF_vars(PollAnswered \/ PollFails) /\ WF_vars(OrderSent \/ OrderFails)
FairSpec == Spec /\ Fairness

-----------------------------------------------------------------------------
(* Properties *)

\* A thermometer that falls silent while the bridge is connected is shown offline
\* before the cloud stops answering for it, when only an answered poll can say so
\* (mqtt.rs:332-336 against 338): polls made up for after a slow request, pings,
\* orders and their requests in between do not delay it past the cut-off.
OfflineBeforeCutoff == steady /\ session = "live" /\ age = CutOff => avail = "offline"

\* What lets an answered poll come in time (CloudBridgeProofs): the cut-off is further
\* from StaleLimit than the requests of all the setpoints that can come first, one
\* poll period and the requests under way.
AnswerTime == (CmdCap + MaxOrders + 2) * HttpTimeout + PollPeriod
CutOffIsFar == CutOff > StaleLimit + AnswerTime

\* With no session left at the broker nothing is shown online, whichever way the
\* connection went (the will, mqtt.rs:229).
WillCovers == session = "none" => avail # "online"

\* The bridge comes back to its main loop, whatever fails.
AlwaysBack == []<>(phase = "running")

\* A thermometer that reports for good is shown online for good, once the broker
\* keeps the connection and the cloud answers: no stale "offline" stays.
BackOnline ==
  <>[](Connected /\ session = "live" /\ steady /\ age <= StaleLimit) => <>[](avail = "online")

-----------------------------------------------------------------------------
(* What the repository says and the code does not do *)

\* "The time field in cloud responses freezes when the device stops sending. After
\* 60s we mark offline in MQTT" (copilot-instructions.md:50): a thermometer that is
\* silent for good is shown offline some time.
SilentGoesOffline == <>[](age > StaleLimit) => []<>(avail # "online")

\* "Uses a separate 30s keepalive timer decoupled from the poll interval"
\* (copilot-instructions.md:56): the broker hears of a live connection in time.
KeepaliveKept == Connected /\ session = "live" => silence <= KeepAliveLimit
=============================================================================
