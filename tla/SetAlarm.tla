------------------------------ MODULE SetAlarm ------------------------------
(***************************************************************************)
(* `local set-alarm` (cmd_local_set_alarm): takes the port the monitor or  *)
(* the proxy would have, waits for a first packet, sends it one or two     *)
(* setpoints and listens five seconds for what comes back.                 *)
(***************************************************************************)
EXTENDS DeviceLink

CONSTANTS
  AskTemps,     \* bound: the setpoints that are asked for, as they go over the wire
  NoAsk         \* a channel that is not asked for (None)

ASSUME AskAssumption ==
  /\ AskTemps \subseteq WireTemps
  /\ NoAsk \notin WireTemps

VARIABLES
  asks,         \* [Channel -> setpoint]: what the user asked for
  told          \* history, [Addrs -> [Channel -> setpoint]]: what the user is going to be told
                \* is set, unless it was changed since it was sent

askVars == <<asks, told>>

Asks    == [Channel -> AskTemps \cup {NoAsk}]
Nothing == [c \in Channel |-> NoAsk]

NothingTold == [a \in Addrs |-> Nothing]

AskTypeOK == asks \in Asks /\ told \in [Addrs -> Asks]

-----------------------------------------------------------------------------
AskFor(f) ==
  /\ loop = "down"
  /\ f # Nothing
  /\ loop' = "setting"
  /\ asks' = f
  /\ told' = NothingTold
  /\ UNCHANGED <<route, deviceVars, up, ioVars>>

Sent(q, a, c) ==
  IF asks[c] = NoAsk THEN q ELSE SendTo(q, [to |-> a, id |-> a, body |-> Alarm(c, asks[c])])
Dropped(q, c) == asks[c] # NoAsk /\ ~Fits(q, FlightCap)

\* The first packet is echoed and answered with the setpoints, channel 1 before 2.
AskSent ==
  /\ loop = "setting"
  /\ up # <<>>
  /\ Head(up).body # Noise
  /\ LET a  == Head(up).from
         q0 == Echo(Head(up))
         q1 == Sent(q0, a, 1) IN
     /\ down' = Sent(q1, a, 2)
     /\ told' = [told EXCEPT ![a] = asks]
     /\ alarmLost' = (\/ alarmLost
                      \/ IsAlarm(Head(up).body) /\ Overflows(Head(up).body, down, FlightCap)
                      \/ Dropped(q0, 1)
                      \/ Dropped(q1, 2))
  /\ up' = Tail(up)
  /\ loop' = "confirming"
  /\ UNCHANGED <<route, deviceVars, rx, asks>>

\* A first packet of anything else: its bytes 2 to 6 are taken for the id, so that the
\* setpoints are for nobody, or it is too short for that and the command ends.
AskMisled ==
  /\ loop = "setting"
  /\ up # <<>>
  /\ Head(up).body = Noise
  /\ up' = Tail(up)
  /\ loop' \in {"confirming", "down"}
  /\ alarmLost' = TRUE
  /\ UNCHANGED <<route, deviceVars, rx, down, askVars>>

\* Temperatures are echoed; acknowledgements and keepalives are only printed.
EchoesAll(b) == Framed(b)   \* mutant: acknowledgements are echoed
ConfirmEchoes(b) == b = Temperature

AskHeard ==
  /\ loop = "confirming"
  /\ up # <<>>
  /\ LET d == Head(up) IN
     down' = IF ConfirmEchoes(d.body)
             THEN SendTo(down, [to |-> d.from, id |-> d.from, body |-> d.body])
             ELSE down
  /\ up' = Tail(up)
  /\ UNCHANGED <<loop, route, deviceVars, rx, alarmLost, askVars>>

\* Five seconds later the setpoints have arrived or are lost; what is unread is lost with
\* the socket.
AskDone ==
  /\ loop = "confirming"
  /\ \A i \in DOMAIN down : ~IsAlarm(down[i].body)
  /\ loop' = "down"
  /\ up' = <<>>
  /\ alarmLost' = (alarmLost \/ \E i \in DOMAIN up : IsAlarm(up[i].body))
  /\ UNCHANGED <<route, deviceVars, rx, down, askVars>>

AskInit == asks = Nothing /\ told = NothingTold
AskStep == AskSent \/ AskMisled \/ AskHeard
=============================================================================
