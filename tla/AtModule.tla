------------------------------ MODULE AtModule ------------------------------
(***************************************************************************)
(* The thermometer's WiFi module as the setup commands see it: settings in *)
(* use and settings in flash, AT mode, and the commands and answers on the *)
(* way. It is firmware, modelled from what lan.rs and ble.rs rely on.      *)
(*                                                                         *)
(* It handles what reaches it in order, may refuse any command, and a      *)
(* command or its answer may be late or lost. An answer goes back to the   *)
(* socket or connection its command came from, if that is still open.      *)
(***************************************************************************)
EXTENDS Integers, Sequences

CONSTANTS
  Wishes,       \* what a user may ask for; a setting belongs to a wish as a whole
  Factory,      \* what the module is shipped with
  FlightCap     \* bound: commands, and answers, on the way; more are lost

ASSUME ModuleAssumption ==
  /\ Factory \notin Wishes
  /\ FlightCap \in Nat \ {0}

VARIABLES
  config,       \* [Items -> Values]: the settings in use
  flash,        \* [Items -> Values]: those it starts with
  at_mode,      \* takes AT commands
  out,          \* commands on the way, oldest first
  in            \* answers the running setup has not read, oldest first

moduleVars == <<config, flash, at_mode, out, in>>

-----------------------------------------------------------------------------
Items  == {"ssid", "key", "server", "mode"}
Values == Wishes \cup {Factory}

\* "HF-A11ASSISTHREAD" | "+ok" to the UDP port; "+++" | "a" over BLE; AT commands.
Plain(o)    == [op |-> o, item |-> "none", value |-> Factory]
Read(i)     == [op |-> "read", item |-> i, value |-> Factory]
Set(i, w)   == [op |-> "set", item |-> i, value |-> w]
Command     == [op : {"magic", "attach", "plus", "confirm", "mac", "save", "reboot"},
                item : {"none"}, value : {Factory}]
                 \cup [op : {"read"}, item : Items, value : {Factory}]
                 \cup [op : {"set"}, item : Items, value : Wishes]

\* "+ok=" stands for an answer with a value behind it.
Answer == [to : Command, text : {"ip,mac,model", "a", "+ok", "+ok=", "+ERR"}]

ModuleTypeOK ==
  /\ config \in [Items -> Values]
  /\ flash \in [Items -> Values]
  /\ at_mode \in BOOLEAN
  /\ out \in Seq([cmd : Command, open : BOOLEAN])
  /\ in \in Seq(Answer)
  /\ Len(out) <= FlightCap /\ Len(in) <= FlightCap

-----------------------------------------------------------------------------
Carry(q, e) == IF Len(q) < FlightCap THEN Append(q, e) ELSE q
Send(q, c)  == Carry(q, [cmd |-> c, open |-> TRUE])

\* The commands of a socket, or a connection, that is closed.
Closed(q) == [i \in DOMAIN q |-> [q[i] EXCEPT !.open = FALSE]]

\* A setting, the address or the command to save needs AT mode.
Understood(c) == at_mode \/ c.op \in {"magic", "attach", "plus", "confirm"}

Text(c) ==
  CASE c.op = "magic"          -> "ip,mac,model"
    [] c.op = "plus"           -> IF at_mode THEN "+ERR" ELSE "a"
    [] c.op \in {"mac", "read"} -> "+ok="
    [] OTHER                   -> "+ok"

\* An answer arrives, or it does not.
Reply(c, text) == \/ in' = Carry(in, [to |-> c, text |-> text])
                  \/ in' = in

Obey ==
  /\ out # <<>>
  /\ out' = Tail(out)
  /\ LET c == Head(out).cmd IN
     /\ Understood(c)
     /\ IF Head(out).open THEN Reply(c, Text(c)) ELSE in' = in
     /\ at_mode' = ((at_mode \/ c.op \in {"attach", "confirm"}) /\ c.op # "reboot")
     /\ config' = CASE c.op = "set"    -> [config EXCEPT ![c.item] = c.value]
                    [] c.op = "reboot" -> flash
                    [] OTHER           -> config
     /\ flash' = IF c.op = "save" THEN config ELSE flash

Refuse ==
  /\ out # <<>>
  /\ out' = Tail(out)
  /\ IF Head(out).open THEN Reply(Head(out).cmd, "+ERR") ELSE in' = in
  /\ UNCHANGED <<config, flash, at_mode>>

\* The command is lost on the way, or passed over in silence.
Ignore ==
  /\ out # <<>>
  /\ out' = Tail(out)
  /\ UNCHANGED <<config, flash, at_mode, in>>

\* Switched off and on; what was on its way to it is lost.
PowerCycle ==
  /\ config' = flash
  /\ at_mode' = FALSE
  /\ out' = <<>>
  /\ UNCHANGED <<flash, in>>

\* A command may be on its way still, of a setup that failed before.
Remains == {<<>>} \cup {<<[cmd |-> c, open |-> FALSE]>> :
                          c \in {Plain("save")} \cup {Set(i, w) : i \in Items, w \in Wishes}}

ModuleInit ==
  /\ config = [i \in Items |-> Factory]
  /\ flash = [i \in Items |-> Factory]
  /\ at_mode \in BOOLEAN
  /\ out \in Remains
  /\ in = <<>>

ModuleStep == Obey \/ Refuse \/ Ignore
=============================================================================
