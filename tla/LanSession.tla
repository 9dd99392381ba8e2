----------------------------- MODULE LanSession -----------------------------
(***************************************************************************)
(* AT commands over UDP (lan.rs): `local device-info` reads the settings,  *)
(* `local configure` writes and saves them and may reboot the module.      *)
(*                                                                         *)
(* Every session has a socket of its own. It greets the module, enters AT  *)
(* mode and sends its commands one by one. An answer is whatever datagram  *)
(* comes next; the answers are judged when all of them are there.          *)
(***************************************************************************)
EXTENDS Setup

VARIABLES
  phase,        \* idle, probing, greeting, attaching, commanding
  job,          \* what the session is for: info, configure, reboot
  results       \* the answers to the AT commands so far

lanVars == <<phase, job, results>>

-----------------------------------------------------------------------------
\* The settings that are read or written, in the order of the source; UART, version
\* and TCP timeout, which are read too, are left out.
Commands(j) ==
  CASE j = "info"      -> <<Plain("mac"), Read("ssid"), Read("key"), Read("server"), Read("mode")>>
    [] j = "configure" -> <<Set("ssid", wish), Set("key", wish), Set("server", wish),
                            Set("mode", wish), Plain("save")>>
    [] j = "reboot"    -> <<Plain("reboot")>>

LanTypeOK ==
  /\ phase \in {"idle", "probing", "greeting", "attaching", "commanding"}
  /\ job \in {"info", "configure", "reboot"}
  /\ results \in Seq({a.text : a \in Answer})
  /\ Len(results) <= 5

\* A new socket, and the discovery datagram sent from it.
NewSocket ==
  /\ in' = <<>>
  /\ out' = Send(Closed(out), Plain("magic"))

Leave(r) ==
  /\ End(r)
  /\ phase' = "idle"
  /\ results' = <<>>
  /\ in' = <<>>
  /\ out' = Closed(out)
  /\ UNCHANGED job

OpenSession(j) ==
  /\ NewSocket
  /\ phase' = "greeting"
  /\ job' = j
  /\ results' = <<>>

-----------------------------------------------------------------------------
\* `local discover` asks who is at an address; cmd_device_info does so too, before it
\* reads the settings.
Probe(t) ==
  /\ Begin(t, Factory)
  /\ NewSocket
  /\ phase' = "probing"
  /\ job' = "info"
  /\ UNCHANGED <<results, config, flash, at_mode>>

Configure(w) ==
  /\ Begin("configure", w)
  /\ OpenSession("configure")
  /\ UNCHANGED <<config, flash, at_mode>>

\* discover_unicast
Probed ==
  /\ phase = "probing"
  /\ in # <<>>
  /\ IF Head(in).text = "ip,mac,model"
     THEN IF tool = "info"
          THEN OpenSession("info") /\ UNCHANGED <<tool, wish, report>>
          ELSE Leave("done")
     ELSE Leave("failed")
  /\ Taken(Plain("magic"))
  /\ UNCHANGED <<config, flash, at_mode, timedOut>>

\* Any datagram counts as the greeting.
Greeted ==
  /\ phase = "greeting"
  /\ in # <<>>
  /\ in' = Tail(in)
  /\ out' = Send(out, Plain("attach"))
  /\ phase' = "attaching"
  /\ Taken(Plain("magic"))
  /\ UNCHANGED <<config, flash, at_mode, job, results, tool, wish, report, timedOut>>

FirstCommand ==
  /\ out' = Send(out, Head(Commands(job)))
  /\ phase' = "commanding"

AckUnread ==   \* mutant: an acknowledgement that has come is left in the socket
  /\ phase = "attaching"
  /\ in # <<>>
  /\ FirstCommand
  /\ UNCHANGED <<config, flash, at_mode, in, job, results, toolVars>>
\* The acknowledgement some modules send is read, or given up after 500 ms.
Attached ==
  /\ phase = "attaching"
  /\ in # <<>>
  /\ in' = Tail(in)
  /\ FirstCommand
  /\ Taken(Plain("attach"))
  /\ UNCHANGED <<config, flash, at_mode, job, results, tool, wish, report, timedOut>>

NoAck ==
  /\ phase = "attaching"
  /\ in = <<>>
  /\ FirstCommand
  /\ timedOut' = TRUE
  /\ UNCHANGED <<config, flash, at_mode, in, job, results, tool, wish, report, mixed>>

-----------------------------------------------------------------------------
\* contains("+ok")
Good(text) == text \in {"+ok", "+ok="}

LastGood(rs) == Good(rs[Len(rs)])   \* mutant: only the last answer is judged
AllGood(rs)  == \A i \in DOMAIN rs : Good(rs[i])

\* A session for `configure` may be followed by one that reboots, whose outcome
\* nobody looks at.
Concluded(rs) ==
  CASE job = "configure" /\ AllGood(rs) ->
         \/ OpenSession("reboot") /\ UNCHANGED <<tool, wish, report>>
         \/ Leave("done")
    [] job = "configure" /\ ~AllGood(rs) -> Leave("failed")
    [] OTHER -> Leave("done")

\* The next datagram is the answer to the latest command; then comes the next one.
Commanded ==
  /\ phase = "commanding"
  /\ in # <<>>
  /\ Taken(Commands(job)[Len(results) + 1])
  /\ LET rs == Append(results, Head(in).text) IN
     IF Len(rs) = Len(Commands(job))
     THEN Concluded(rs)
     ELSE /\ results' = rs
          /\ in' = Tail(in)
          /\ out' = Send(out, Commands(job)[Len(rs) + 1])
          /\ UNCHANGED <<phase, job, tool, wish, report>>
  /\ UNCHANGED <<config, flash, at_mode, timedOut>>

\* No answer for three seconds, or an error of the socket.
GiveUp ==
  /\ phase # "idle"
  /\ Leave(IF job = "reboot" THEN "done" ELSE "failed")
  /\ UNCHANGED <<config, flash, at_mode, mixed, timedOut>>

LanInit == phase = "idle" /\ job = "info" /\ results = <<>>

LanStarts == Probe("probe") \/ Probe("info") \/ \E w \in Wishes : Configure(w)
LanStep   == Probed \/ Greeted \/ Attached \/ NoAck \/ Commanded
=============================================================================
