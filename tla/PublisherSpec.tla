--------------------------- MODULE PublisherSpec ---------------------------
(***************************************************************************)
(* The publisher with the most general surroundings: any packet may enter  *)
(* the channel at any time, datagrams to the thermometer arrive or are     *)
(* lost, the rest of the process sends datagrams of its own, and the       *)
(* broker, Home Assistant and the process do as they like.                 *)
(***************************************************************************)
EXTENDS Publisher

CONSTANT Others   \* what the rest of the process may send to a thermometer

ASSUME OthersAssumption == Others \subseteq Body

vars == <<pubVars, ioVars>>

Arrivals == {FromDevice(a, b) : a \in Addrs, b \in Body} \cup {FromCloud(b) : b \in Body}

Ingress   == \E p \in Arrivals : rx' = TrySend(p)
Departure == down # <<>> /\ down' = Tail(down)
Dispatch  == \E d \in [to : Addrs, id : Ids, body : Others] : down' = SendTo(down, d)

\* What happens outside the publisher, as it sees it. A packet received may be
\* echoed in the same step; packets may be lost on the way in or out.
Environment ==
  /\ \/ Departure /\ UNCHANGED rx
     \/ (Ingress \/ UNCHANGED rx) /\ (Dispatch \/ UNCHANGED down)
  /\ alarmLost' \in {alarmLost, TRUE}
  /\ UNCHANGED pubVars

Init == PublisherInit /\ IOInit
Next == Task \/ Failures \/ Commanded \/ Tick \/ SaveFails \/ Crash \/ Environment
Spec == Init /\ [][Next]_vars

\* The task is scheduled and the clock runs. A branch of select! that is ready
\* again and again is picked in the end, since select! polls them in random
\* order: hence strong fairness, as a save in progress holds the branches back.
\* The TCP stack reports a dead connection to the pending read, the broker lets
\* a connection attempt through now and then and ends a session without client.
\* Failures, commands and packets may come or not.
Fairness ==
  /\ WF_vars(Spawn) /\ WF_vars(Wake) /\ WF_vars(Tick)
  /\ SF_vars(Connect) /\ SF_vars(Announce)
  /\ SF_vars(HandlePacket) /\ SF_vars(Ping) /\ SF_vars(ReaderGone)
  /\ SF_vars(TakeCmd \/ CmdIgnored) /\ WF_vars(SaveAlarmState)
  /\ WF_vars(ReaderExits) /\ WF_vars(SessionEnds /\ session = "orphan")
FairSpec == Spec /\ Fairness

TypeOK == IOTypeOK /\ PublisherTypeOK

-----------------------------------------------------------------------------
(* Safety *)

\* While the connection serves and a thermometer has been heard on it, "online" is
\* never shown when no packet of anybody was taken from the channel for longer than the
\* stale timeout and one ping interval (main.rs:1179), whatever commands, saves and lost
\* publishes come in between. Packets of the cloud, of strangers and of another
\* thermometer count (main.rs:1098), and those that waited: what it means for the
\* thermometer itself is OffIsShown of LocalBridge.
OnlineNeedsTraffic ==
  Connected /\ session = "live" /\ device_id # NoAddr /\ avail = "online"
    => last_packet <= MaxAge

\* Once a thermometer has been heard, the topic Home Assistant sees and the flag
\* the task decides by (device_online, main.rs:1149-1155 and 1179-1184) agree as
\* long as the broker serves the connection.
AvailMatchesDevice ==
  Connected /\ session = "live" /\ device_id # NoAddr
    => (avail = "online" <=> device_online)

\* When no connection of the publisher is left at the broker, its thermometer is
\* not shown online, whichever way the connection went: the will of main.rs:1002
\* covers crashes, takeovers by the next connection and half-done announcements.
WillCovers == session = "none" => avail # "online"

\* Whenever the thermometer turns from offline to online, in whatever order its
\* address, its id and the setpoints were learned, each positive setpoint is on
\* its way to the address the report came from (main.rs:1157-1172), unless the
\* datagrams do not fit.
Repushed ==
  ~device_online /\ device_online' =>
    \/ ~RepushFits(alarm')
    \/ \A c \in Channel :
         alarm'[c] > 0 => \E i \in 1 .. Len(down') :
           down'[i] = AlarmTo(Head(rx).source, device_id', c, alarm'[c])
RepushOnReturn == [][Repushed]_vars

-----------------------------------------------------------------------------
(* Liveness *)

\* A connection the broker no longer serves does not last: the task leaves it and
\* connects anew (the reader's end ends the call, main.rs:1192-1195).
LostConnectionIsLeft == (phase = "running" /\ session = "none") ~> phase = "connecting"

\* The publisher always comes back to its main loop, whatever fails.
AlwaysBack == []<>(phase = "running")

\* Once no packet of anybody comes any more, whoever sent the last ones, the thermometer
\* is taken for offline and stays so (main.rs:1179-1184).
SilentIsNoticed == <>[](rx = <<>>) => <>[]~device_online

=============================================================================
