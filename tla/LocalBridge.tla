---------------------------- MODULE LocalBridge ----------------------------
(***************************************************************************)
(* `local monitor` and `local proxy` as a whole: the UDP loop of           *)
(* DeviceLink feeds the publisher of Publisher through the packet channel, *)
(* both send to the thermometers, both die with the process.               *)
(***************************************************************************)
EXTENDS Publisher, DeviceLink

CONSTANT Faults   \* which of "broker", "crash", "disk", "loss", "power" happen

ASSUME FaultsAssumption == Faults \subseteq {"broker", "crash", "disk", "loss", "power"}

VARIABLES
  unnoticed,  \* history: switched off, which the publisher has not noticed
  dark        \* history: ticks of this connection since a thermometer was on, saturating
              \* at LongAgo

bridgeVars == <<pubVars, linkVars, ioVars, unnoticed, dark>>

Thermometer == CHOOSE a \in Addrs : TRUE

BridgeTypeOK ==
  /\ IOTypeOK
  /\ PublisherTypeOK
  /\ LinkTypeOK
  /\ unnoticed \in BOOLEAN
  /\ dark \in 0 .. LongAgo

-----------------------------------------------------------------------------
\* A tick is tens of seconds: by then every datagram has arrived or is lost, and a
\* task that runs has taken what was queued for it.
QueuesEmpty == rx = <<>> /\ cmds = <<>> /\ up = <<>> /\ down = <<>>

\* The publisher task is spawned once the loop knows whom it serves.
PublisherPart ==
  /\ UNCHANGED linkVars
  /\ \/ Spawn /\ loop = "serving"
     \/ Connect \/ Announce \/ Wake \/ HandlePacket \/ Ping \/ Commanded
     \/ Tick /\ QueuesEmpty
     \/ ReaderExits \/ CmdIgnored \/ TakeCmd \/ SaveAlarmState \/ ReaderGone
     \/ "broker" \in Faults /\ Failures
     \/ "disk" \in Faults /\ SaveFails

\* A datagram to a thermometer that is off is lost.
LostOnIt == LoseDown /\ ~power[Head(down).to]

LinkPart ==
  /\ UNCHANGED pubVars
  /\ \/ Serve \/ Firmware
     \/ Mode = "proxy" /\ FromTheCloud
     \/ \E a \in Addrs : SwitchOn(a)
     \/ "power" \in Faults /\ \E a \in Addrs : SwitchOff(a)
     \/ "power" \in Faults /\ LostOnIt
     \/ "loss" \in Faults /\ Losses

\* The process stops, both parts of it.
ProcessStops == "crash" \in Faults /\ Crash /\ StopLoop

\* The publisher takes the thermometer for offline, with nothing still on the way
\* that it could take for a sign of life.
Noticed == ~device_online /\ QueuesEmpty

Observed ==
  /\ unnoticed' = IF \E a \in Addrs : power[a] /\ ~power'[a]
                  THEN ~Noticed
                  ELSE unnoticed /\ ~Noticed'
  /\ dark' = IF ~Connected' \/ \E a \in Addrs : power'[a] THEN 0
             ELSE IF Tick /\ dark < LongAgo THEN dark + 1
             ELSE dark

Init ==
  /\ IOInit
  /\ PublisherInit
  /\ LinkInit
  /\ unnoticed = FALSE
  /\ dark = 0

Next == (PublisherPart \/ LinkPart \/ ProcessStops) /\ Observed

Spec == Init /\ [][Next]_bridgeVars

\* Both tasks are scheduled, the clock runs, a thermometer that is on reports and
\* hears what the network carries to it; the publisher's branches as in
\* PublisherSpec. Faults, switches and orders may come or not.
OfPublisher(A) == A /\ UNCHANGED linkVars /\ Observed
OfLink(A)      == A /\ UNCHANGED pubVars /\ Observed
Fairness ==
  /\ WF_bridgeVars(OfPublisher(Spawn /\ loop = "serving"))
  /\ SF_bridgeVars(OfPublisher(Connect)) /\ SF_bridgeVars(OfPublisher(Announce))
  /\ WF_bridgeVars(OfPublisher(Wake)) /\ SF_bridgeVars(OfPublisher(HandlePacket))
  /\ SF_bridgeVars(OfPublisher(Ping)) /\ SF_bridgeVars(OfPublisher(Tick /\ QueuesEmpty))
  /\ SF_bridgeVars(OfPublisher(TakeCmd)) /\ WF_bridgeVars(OfPublisher(SaveAlarmState))
  /\ WF_bridgeVars(OfPublisher(ReaderExits)) /\ SF_bridgeVars(OfPublisher(ReaderGone))
  /\ WF_bridgeVars(OfLink(Serve)) /\ WF_bridgeVars(OfLink(Delivered))
  /\ SF_bridgeVars(OfLink(\E a \in Addrs : Report(a)))
FairSpec == Spec /\ Fairness

-----------------------------------------------------------------------------
(* Safety *)

\* No alarm packet and no command is on its way anywhere.
Settled ==
  /\ phase = "running" /\ cmds = <<>>
  /\ \A i \in 1 .. Len(rx) : ~IsAlarm(rx[i].parsed)
  /\ \A i \in 1 .. Len(up) : ~IsAlarm(up[i].body)
  /\ \A i \in 1 .. Len(down) : ~IsAlarm(down[i].body)

\* In `local monitor`, which hears nobody but thermometers: when all of them have been off
\* for longer than the stale timeout and one ping interval, none is shown online, once one
\* was heard on this connection (main.rs:1089-1098, 1178-1184). Their last packets, those
\* that waited in the channel while the broker was away, acknowledgements on their way and
\* power cycles in between do not make it longer, as long as a running task takes what is
\* in the channel before the next tick.
OffIsShown ==
  Connected /\ session = "live" /\ device_id # NoAddr /\ avail = "online"
    => dark <= MaxAge

InForce(a, c) == devAlarm[a][c] = Wire(alarm[c])

\* When commands, re-pushes and acknowledgements have run their course and none
\* was lost, every alarm the publisher holds (and Home Assistant shows) is in force
\* at the thermometer, in spite of acknowledgements overtaken by later orders
\* (main.rs:1113, 1203-1211), of setpoints forgotten and loaded again with each
\* connection, of a thermometer switched off and on behind a detected silence, and
\* of values beyond what the wire carries. An alarm taken back is not pushed again.
Agreement ==
  Settled /\ device_online /\ ~alarmLost /\ ~unnoticed =>
    \A c \in Channel : alarm[c] > 0 => InForce(Thermometer, c)

-----------------------------------------------------------------------------
(* Liveness *)

AllInForce == \A c \in Channel : InForce(Thermometer, c)

\* Once Home Assistant stops ordering, the publisher and the thermometer end up with the
\* same setpoints (main.rs:1108-1116, 1203-1211): an acknowledgement of an earlier order
\* that is taken after a newer one was sent, with another temperature, is overwritten by
\* the newer one's. None of the alarm packets may be lost.
OrdersArrive ==
  <>[](phase = "running" /\ cmds = <<>>) => <>[](alarmLost \/ AllInForce)

-----------------------------------------------------------------------------
(* What the repository says and the code does not do *)

\* "Re-push alarm setpoints on (re)connect so the device recovers HA-set alarms
\* after a power cycle" (main.rs:1157-1158): a thermometer that is on for good
\* gets the setpoints the publisher holds.
RecoversAfterPowerCycle ==
  <>[](power[Thermometer] /\ phase = "running" /\ cmds = <<>>)
    => []<>(alarmLost \/ AllInForce)

-----------------------------------------------------------------------------
(* Refinement *)

\* The bridge is a publisher in the surroundings PublisherSpec allows, so all that
\* holds of the publisher there (PublisherProofs) holds here.
AsPublisher == INSTANCE PublisherProofs WITH Others <- Body
ImplementsPublisher == AsPublisher!Spec
=============================================================================
