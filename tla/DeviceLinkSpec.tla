--------------------------- MODULE DeviceLinkSpec ---------------------------
(***************************************************************************)
(* The UDP side with a publisher that merely empties the packet channel    *)
(* and now and then sends a setpoint, and set-alarm on the same port.      *)
(* Packets of the cloud are left to LocalBridge.                           *)
(***************************************************************************)
EXTENDS SetAlarm

CONSTANT MaxOrders   \* bound: setpoints the publisher sends

ASSUME OrdersAssumption == MaxOrders \in Nat

VARIABLE orders      \* how many were sent

vars == <<linkVars, ioVars, askVars, orders>>

TypeOK ==
  /\ IOTypeOK
  /\ LinkTypeOK
  /\ AskTypeOK
  /\ orders \in 0 .. MaxOrders

-----------------------------------------------------------------------------
Taken ==
  /\ rx # <<>>
  /\ rx' = Tail(rx)
  /\ UNCHANGED <<linkVars, down, alarmLost, askVars, orders>>

\* A setpoint of Home Assistant.
Ordered ==
  /\ loop = "serving"
  /\ orders < MaxOrders
  /\ orders' = orders + 1
  /\ \E a \in Addrs, c \in Channel, t \in WireTemps :
       /\ down' = SendTo(down, [to |-> a, id |-> a, body |-> Alarm(c, t)])
       /\ told' = [told EXCEPT ![a][c] = NoAsk]
  /\ alarmLost' = (alarmLost \/ ~Fits(down, FlightCap))
  /\ UNCHANGED <<linkVars, rx, asks>>

\* set-alarm is an order too; switching off undoes it.
Asked ==
  /\ orders < MaxOrders
  /\ orders' = orders + 1
  /\ \E f \in Asks : AskFor(f)

Switched ==
  /\ \E a \in Addrs : SwitchOn(a) \/ SwitchOff(a)
  /\ told' = [a \in Addrs |-> IF power[a] /\ ~power'[a] THEN Nothing ELSE told[a]]
  /\ UNCHANGED <<asks, orders>>

\* A process that stops and starts again.
Restart ==
  /\ loop # "down"
  /\ StopLoop
  /\ rx' = <<>>
  /\ told' = IF loop = "confirming" THEN NothingTold ELSE told
  /\ UNCHANGED <<down, alarmLost, asks, orders>>

\* A stray datagram on the listening port.
Stray(a) ==
  /\ Fits(up, FlightCap)
  /\ up' = Append(up, [from |-> a, body |-> Noise])
  /\ UNCHANGED <<loop, route, deviceVars, ioVars, askVars, orders>>

Init == LinkInit /\ IOInit /\ AskInit /\ orders = 0
Next == \/ (Serve \/ Firmware \/ Losses) /\ UNCHANGED <<askVars, orders>>
        \/ (AskStep \/ AskDone) /\ UNCHANGED orders
        \/ Switched \/ Taken \/ Ordered \/ Asked \/ Restart
        \/ \E a \in Addrs : Stray(a)
Spec == Init /\ [][Next]_vars

\* The loop runs and reads what arrives, thermometers that are on report, and a
\* lossy network still delivers a keepalive, or its echo, that is sent again
\* and again. Nothing else has to happen.
KeepaliveHeard == (AskSent \/ ((LearnId \/ FromThermometer) /\ UNCHANGED askVars))
                    /\ Head(up).body = Keepalive /\ Fits(down, FlightCap)
EchoDelivered  == Delivered /\ Head(down).body = Keepalive
Fairness ==
  /\ WF_vars(Start /\ UNCHANGED <<askVars, orders>>)
  /\ WF_vars((LearnId \/ FromThermometer) /\ UNCHANGED <<askVars, orders>>)
  /\ WF_vars((Delivered \/ LoseDown) /\ UNCHANGED <<askVars, orders>>)
  /\ WF_vars(AskStep /\ UNCHANGED orders) /\ WF_vars(AskDone /\ UNCHANGED orders)
  /\ \A a \in Addrs :
       /\ SF_vars(Report(a) /\ UNCHANGED <<askVars, orders>>)
       /\ SF_vars(KeepaliveHeard /\ Head(up).from = a /\ UNCHANGED orders)
       /\ SF_vars(EchoDelivered /\ Head(down).to = a /\ UNCHANGED <<askVars, orders>>)
FairSpec == Spec /\ Fairness

-----------------------------------------------------------------------------
(* Properties *)

\* What set-alarm tells the user is so: after "Done. The device alarm should now be set."
\* (main.rs:963) the thermometer that was answered has each setpoint that was asked for,
\* acknowledgements of earlier orders read meanwhile notwithstanding, until a later order,
\* a power cycle or a lost alarm packet changes that.
AskedIsSet ==
  ~alarmLost /\ loop # "confirming" => \A a \in Addrs, c \in Channel :
      told[a][c] # NoAsk => devAlarm[a][c] = told[a][c]

\* A thermometer is never left sending keepalives: once switched on it comes to
\* send temperatures, unless it is switched off or the process is restarted for
\* ever, because every keepalive, and not only an 18-byte packet, is echoed
\* (protocol.rs:241, PROTOCOL.md:417).
StreamStarts ==
  []<>(loop = "down") \/ \A a \in Addrs : power[a] ~> (streaming[a] \/ ~power[a])

\* The traffic an alarm packet causes comes to an end: after the last one that was
\* ordered, there is a time from which no alarm packet is on the way in either
\* direction, unless the process is restarted for ever. "Skip alarm packets ---
\* echoing them creates a loop where the device re-acknowledges the echo,
\* generating infinite alarm traffic" (main.rs:816-817).
Quiet == /\ \A i \in 1 .. Len(up) : ~IsAlarm(up[i].body)
         /\ \A i \in 1 .. Len(down) : ~IsAlarm(down[i].body)
AlarmTrafficDies == []<>(loop = "down") \/ <>[]Quiet
=============================================================================
