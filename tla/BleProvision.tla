---------------------------- MODULE BleProvision ----------------------------
(***************************************************************************)
(* `local provision` (ble.rs): nine steps over a BLE connection, each a    *)
(* command and one notification, tried up to STEP_RETRIES times. A         *)
(* notification is taken for the answer to whatever was written last.      *)
(***************************************************************************)
EXTENDS Setup, BleFrames

CONSTANTS
  STEP_RETRIES,
  FixedLength,  \* bytes of a command of ours
  Lengths       \* [Wishes -> Nat]: bytes of the longest command with a setting of the user

ASSUME ProvisionAssumption ==
  /\ STEP_RETRIES \in Nat \ {0}
  /\ FixedLength \in 0 .. MAX_CHUNK_PAYLOAD * MAX_CHUNKS
  /\ Lengths \in [Wishes -> Nat]

VARIABLES
  ble,          \* off, connecting, writing, waiting
  connected,    \* the module has a BLE connection to this host
  step,         \* number of the step
  attempt,      \* of this step
  mac_address,  \* has the module told its address?
  written       \* the chunks of the command written last

bleVars == <<ble, connected, step, attempt, mac_address, written>>

-----------------------------------------------------------------------------
\* ProvisionStep: EnterAtMode, ConfirmAtMode, GetMac, SetSsid, SetPassword,
\* SetServer, SetStaMode, SaveToFlash, Reboot.
Steps(w) ==
  <<Plain("plus"), Plain("confirm"), Plain("mac"), Set("ssid", w), Set("key", w),
    Set("server", w), Set("mode", w), Plain("save"), Plain("reboot")>>

Request == Steps(wish)[step]

\* Bytes are told apart by their places.
Bytes(c) == [i \in 1 .. IF c.op = "set" /\ c.item # "mode" THEN Lengths[c.value] ELSE FixedLength
               |-> i]

BleTypeOK ==
  /\ ble \in {"off", "connecting", "writing", "waiting"}
  /\ connected \in BOOLEAN
  /\ step \in 1 .. 9
  /\ attempt \in 1 .. STEP_RETRIES
  /\ mac_address \in BOOLEAN
  /\ written \in Seq([number : Nat, of : Nat, data : Seq(Nat)])

\* is_success_response
AnyAnswer(text) == TRUE   \* mutant: whatever comes is a success
Succeeds(text) == IF step = 1 THEN text \in {"a", "+ERR"} ELSE text \in {"+ok", "+ok="}

-----------------------------------------------------------------------------
\* print_provision_sequence frames every command, before anything is written.
Framed(w) == \A i \in DOMAIN Steps(w) : ~TooLong(Bytes(Steps(w)[i]))

\* The scan found a thermometer.
Provision(w) ==
  /\ Framed(w)
  /\ Begin("provision", w)
  /\ ble' = "connecting"
  /\ written' = <<>>
  /\ step' = 1
  /\ attempt' = 1
  /\ mac_address' = FALSE
  /\ in' = <<>>
  /\ UNCHANGED <<config, flash, at_mode, out, connected>>

Panic(w) ==
  /\ ~Framed(w)
  /\ tool = "none"
  /\ wish' = w
  /\ report' = "failed"
  /\ UNCHANGED <<tool, mixed, timedOut, bleVars, moduleVars>>

Connected ==
  /\ ble = "connecting"
  /\ ble' = "writing"
  /\ connected' = TRUE
  /\ UNCHANGED <<step, attempt, mac_address, written, moduleVars, toolVars>>

\* An error ends the command without disconnecting.
Abandon ==
  /\ End("failed")
  /\ ble' = "off"
  /\ in' = <<>>
  /\ out' = Closed(out)
  /\ UNCHANGED <<step, attempt, mac_address, written, config, flash, at_mode, mixed, timedOut>>

\* No connection, or one without the services, or no notifications.
NotConnected ==
  /\ ble = "connecting"
  /\ Abandon
  /\ connected' \in BOOLEAN

Write ==
  /\ ble = "writing"
  /\ connected
  /\ written' = frame_command(Bytes(Request))
  /\ out' = Send(out, Request)
  /\ ble' = "waiting"
  /\ UNCHANGED <<connected, step, attempt, mac_address, config, flash, at_mode, in, toolVars>>

\* One of the chunks cannot be written.
WriteFails ==
  /\ ble = "writing"
  /\ Abandon
  /\ UNCHANGED connected

Disconnect(r) ==
  /\ End(r)
  /\ ble' = "off"
  /\ connected' = FALSE
  /\ in' = <<>>
  /\ out' = Closed(out)
  /\ UNCHANGED <<step, attempt>>

RetryOnceMore ==   \* mutant: one attempt too many
  IF attempt <= STEP_RETRIES
  THEN /\ attempt' = attempt + 1
       /\ ble' = "writing"
       /\ UNCHANGED <<step, connected, out, tool, wish, report>>
  ELSE Disconnect("failed")
RetryForEver ==   \* mutant: attempts are not counted
  /\ ble' = "writing"
  /\ UNCHANGED <<step, attempt, connected, out, tool, wish, report>>
Retry ==
  IF attempt < STEP_RETRIES
  THEN /\ attempt' = attempt + 1
       /\ ble' = "writing"
       /\ UNCHANGED <<step, connected, out, tool, wish, report>>
  ELSE Disconnect("failed")

NextStep ==
  IF step < Len(Steps(wish))
  THEN /\ step' = step + 1
       /\ attempt' = 1
       /\ ble' = "writing"
       /\ UNCHANGED <<connected, out, tool, wish, report>>
  ELSE Disconnect("done")

Notified ==
  /\ ble = "waiting"
  /\ in # <<>>
  /\ Taken(Request)
  /\ LET text == Head(in).text IN
     IF Succeeds(text)
     THEN NextStep /\ mac_address' = IF step = 3 THEN text = "+ok=" ELSE mac_address
     ELSE Retry /\ UNCHANGED mac_address
  /\ tool' = tool => in' = Tail(in)
  /\ UNCHANGED <<written, config, flash, at_mode, timedOut>>

\* Nothing for five seconds, or no notifications any more.
Unanswered ==
  /\ ble = "waiting"
  /\ in = <<>>
  /\ Retry
  /\ tool' = tool => in' = in
  /\ timedOut' = TRUE
  /\ UNCHANGED <<mac_address, written, config, flash, at_mode, mixed>>

BleInit ==
  /\ ble = "off"
  /\ connected = FALSE
  /\ step = 1
  /\ attempt = 1
  /\ mac_address = FALSE
  /\ written = <<>>

BleStarts == \E w \in Wishes : Provision(w) \/ Panic(w)
BleStep   == Connected \/ NotConnected \/ Write \/ WriteFails \/ Notified \/ Unanswered
=============================================================================
