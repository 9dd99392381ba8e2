# GrillSense: a verification of the thermometer bridge

GrillSense (Rust, `src/src/`) stands between an EZON WiFi barbecue thermometer,
the vendor's cloud and Home Assistant. The thermometer speaks UDP and sends a
packet a second; the program echoes it, publishes its temperatures over MQTT,
keeps a retained availability topic, takes alarm setpoints from Home Assistant,
and survives the loss of the broker, of the thermometer and of its own process.
This directory holds TLA+ models of that core, the configurations that check
them with TLC, and proofs that TLAPS checks.

All models are written from the code. The thermometer's firmware, the broker,
the network and the cloud are not in the repository; they are modelled from the
code's own use of them, its comments and `PROTOCOL.md`, and are marked external
in `PROJECT.json`.

## 1. Inventory

| Component | Source | State | Operations |
|---|---|---|---|
| MQTT publisher of the local modes | `main.rs` 967-1300 (`mqtt_proxy_publisher`), 657-707 and 773-809 (reconnect loops) | connection, `device_addr`, `device_id_bytes`, `alarm_ch1/2`, `device_online`, `last_packet`, command channel | connect, announce, packet branch, ping branch, command branch, reader task, reconnect |
| Alarm file | `main.rs` 1230-1300 | `alarms.json` | load at each connection, save after each order |
| UDP loop of `local monitor` | `main.rs` 719-866 | learned device id | echo (alarm packets left out), hand-over |
| UDP proxy | `udp.rs` | `device_addr` of the last sender | echo, forward to cloud, relay from cloud, hand-over |
| Packet codec | `protocol.rs` 91-345, `udp.rs` 218-242 | none | parse temperature, alarm; build echo, alarm; device ids |
| Cloud bridge | `mqtt.rs` 176-367 (`run_bridge`), `cloud.rs` | connection, timers, `alarm_ch1/2`, command channel | connect, announce, poll, ping, order, reader task, reconnect |
| MQTT framing | `mqtt.rs` 370-545, reader tasks in `mqtt.rs` 267-293 and `main.rs` 1056-1083 | `partial` buffer | encode and decode lengths, cut packets, parse PUBLISH |
| Cloud REST client | `cloud.rs` | token, device id | login, list, bind, unbind, temperature, alarm |
| Timestamps | `protocol.rs` 373-400, 555-624 | none | RFC 3339 to seconds, age |
| LAN discovery and AT commands | `lan.rs`, `main.rs` 351-364 and 553-627 | one socket per session; what was found | broadcast once or again and again, probe one address, send commands in turn, configure, save, reboot |
| BLE provisioning | `ble.rs`, `protocol.rs` 32-68 | connection, step, attempt, notification stream | scan, frame and write a step, wait for its answer, retry, disconnect |
| `local set-alarm` | `main.rs` 868-965 | its socket | learn the id, send one or two setpoints, listen for five seconds |
| Other commands of the CLI | `main.rs` | none | print |
| Home Assistant add-on | `run.sh`, `config.yaml` | none | options to arguments |

How they interact: the UDP loop and the publisher are two tasks of one process
with a bounded channel between them (`try_send`, 64 packets, new ones dropped).
Both send datagrams to the thermometer. Inside the publisher a third task reads
the broker's stream and hands commands over by a second bounded channel (16).
The main loop of each bridge is a `select!` over packets or polls, pings and
commands. The broker holds the retained topics and the last will. The alarm
file is the only state that outlives the process. The setup commands run on their own, one
after the other, against the WiFi module of the thermometer, which keeps settings in use and
settings in flash; `set-alarm` takes the port of the monitor while none runs.

What is hard: the order in which packets, pings, orders and acknowledgements
are taken; a broker connection that breaks anywhere, or is dead without anybody
noticing; setpoints held in four places (publisher, file, datagrams, firmware);
a thermometer that is switched off and on; datagrams lost or answered late;
channels at their limits; a branch that awaits an HTTP request and holds the
others back; a byte stream cut anywhere; answers of the WiFi module that carry no number and may
be late, lost or refused, on the way to settings that must be saved whole or not at all. `PROJECT.json` lists each hazard at its
line with the property that is about it.

What makes the parts correct:

* publisher: the availability topic tells the truth about the thermometer, in
  time; a dead connection is left and replaced; the alarms reach the right
  thermometer each time it comes back;
* UDP loops: every thermometer that is on is brought to send temperatures, and
  alarm packets do not go round for ever;
* local bridge: the setpoints that Home Assistant sees are those in force;
* cloud bridge: the same truth about availability, from timestamps; the broker
  is kept alive whatever the cloud does;
* framing: packets are found again in the byte stream, whatever the reads;
* `set-alarm`: what it says is set is set;
* setup: a success that is reported is one, and every command comes back to the user;
* codec and timestamps: the bytes and strings mean what the models above take them for.

## 2. Modules

| Module | Models |
|---|---|
| `LocalIO` | the packet channel, datagrams to the thermometer, what a packet carries |
| `Publisher` | the publisher task, its reader task, the reconnect loop, the alarm file; broker, clock, crash |
| `PublisherSpec` | the publisher in its most general surroundings, with its properties: the abstract side of the bridge |
| `PublisherTypes` | lemmas about the types of `Publisher` and its queues, shared by the proofs |
| `PublisherProofs` | theorems about `PublisherSpec` |
| `DeviceLink` | the UDP loops of both local modes, thermometers, network |
| `SetAlarm` | `local set-alarm`, on the port of the UDP loop |
| `DeviceLinkSpec` | the UDP side with a publisher that only drains the channel, and `SetAlarm`, with their properties |
| `PacketCodec` | the thermometer's packets as bytes: pure operators |
| `DeviceWire` | the bytes behind each packet on the way in `DeviceLinkSpec` |
| `LinkLemmas` | lemmas about the types of `DeviceLink` and about alarm packets in a queue, shared by the proofs |
| `DeviceLinkProofs` | theorems about `DeviceLinkSpec`, `DeviceWire` and `PacketCodec` |
| `LocalBridge` | `Publisher` and `DeviceLink` composed, with the properties that relate both, and the refinement to `PublisherSpec` |
| `LocalBridgeProofs` | theorems about `LocalBridge`: `Agreement`, and the refinement |
| `CloudBridge` | the task of `cloud monitor` with MQTT, its reader task and its reconnect loop |
| `CloudBridgeProofs` | theorems about `CloudBridge` and `CloudTime` |
| `Timestamps` | RFC 3339 timestamps, age, staleness: pure operators |
| `CloudTime` | the timestamps behind each age in `CloudBridge`, against a reference calendar |
| `CommandFeed` | what a reader task promises, packet by packet: abstract |
| `MqttFraming` | the reader task byte by byte, the length codec; refines `CommandFeed` |
| `MqttFramingProofs` | theorems about `MqttFraming`, the refinement among them |
| `AtModule` | the WiFi module: settings in use and in flash, AT mode, commands and answers on the way (external) |
| `Setup` | what the setup commands share: the one that runs, its wish, its report |
| `LanSession` | AT commands over UDP: probe, `device-info`, `configure` |
| `LanDiscovery` | the broadcast scan, once or again and again |
| `BleFrames`, `BleProvision` | framing of a command into writes; the nine steps of `local provision` |
| `DeviceSetup` | the three composed: a user sets up a module that may be switched off at any time |
| `DeviceSetupProofs` | theorems about `DeviceSetup` and `BleFrames` |
| `MCPublisher`, `MCLocalBridge`, `MCCloudTime`, `MCDeviceSetup` | constants and constraints that a `.cfg` cannot express |

### Correspondence

**Steps.** A task of tokio is interrupted only where it awaits. A branch of a
`select!` whose awaits are writes to a socket is one action; the failure of one
of its writes is a second action (`...Fails`) that leaves any prefix of the
branch's effects. Two places need more: the write of the alarm file, where a
crash leaves a trace (phase `saving`), and the HTTP requests of the cloud bridge,
which hold the loop for up to 20 s (phases `polling` and `ordering`).

**Publisher.** `phase` is the program counter of one connection: `connecting`,
`announcing`, `running`, `saving`, `backoff`; `unspawned` before the task exists.
`session` and `avail` are the broker's: a session is `live`, `orphan` (the
connection is gone and the broker does not know) or `none`; the will is published
when a session ends, and before a takeover by a new CONNECT with the same client
id. `Publish` writes a retained topic only while the session is live: a write on
a dead connection may succeed without reaching anybody. Each call of
`mqtt_proxy_publisher` starts with `FreshLocals(LoadAlarmState)`; each end is
`Dropped`. `HandlePacket` is the whole packet branch: `last_packet`,
`device_addr`, `device_id_bytes`, the noted setpoint of an alarm packet, then for
the first temperature report while offline `online` and the re-push of positive
setpoints. `Ping` is the ping branch with its staleness check. `TakeCmd` sends,
notes and goes on to `SaveAlarmState`.

**DeviceLink.** `FromThermometer` is the receive branch: hand-over by
`try_send`, echo where the mode echoes (`Echoed`), the proxy's `route`.
A datagram to a thermometer that is off waits for it until it is lost (`LostOnIt` in the bridge).
`LearnId` is the first receive of `local monitor` without `--mac`, which echoes
alarm packets too and hands nothing over. `Delivered` is the firmware: the echo
of a keepalive starts the temperatures, an alarm packet sets and acknowledges.

**SetAlarm.** `loop` has two more values, `setting` (waiting for the first packet) and
`confirming` (listening). `AskSent` is all of the code between the first packet and the loop.
A first packet that is noise (`AskMisled`) is taken for a thermometer of another id: the
setpoints reach nobody, and the model counts them among the lost alarm packets. `told` remembers
for each thermometer what the user was promised, until a later order or a power cycle changes it.

**Setup.** `LanSession.phase` follows `send_at_commands`: greeting, AT mode (with its 500 ms for an
acknowledgement), then the commands of `job`. Each datagram that comes is the answer to the latest
command, whatever it answers; `mixed` records that the module sent it for another command. A reboot is a session of
its own whose outcome nobody looks at. `BleProvision` numbers the steps 1 to 9 as `ProvisionStep`
orders them. A failed step disconnects (`Disconnect`), a failed write does not (`Abandon`).
A command on the way keeps whether its socket is still open: if not, nobody gets its answer, but the module
obeys all the same. `configure` sends its save whatever the answers before it were, because it judges them at the end.

**LocalBridge.** Both parts side by side; a crash stops both. Two history variables (`Observed`) remember what only the
model can see: `unnoticed`, that a thermometer was switched off and the publisher has not taken it for offline since, and
`dark`, how many ticks of this connection all thermometers have been off.

**Data.** A packet is its kind (keepalive, temperature, alarm, noise) with, for
an alarm, channel and temperature. A thermometer's id is the address it sends
from. Temperatures are small numbers; `Wire` is the saturating conversion to the
16-bit field. `-1`, `0` and values above `WireMax` stand for the edges. `DeviceWire` puts the bytes behind
the kinds: wherever a packet is on its way, each packet of that kind in bytes is parsed, echoed and
garbled by `PacketCodec`. In the same way `CloudTime` puts timestamps behind the age of a report. The
settings a user asks for are one value, `wish`: what matters is whether all of them arrive.

**CloudBridge.** `age` is how long ago the cloud heard the thermometer;
`Status` is `online() && !is_stale(60)`. Polls that were missed while a request
lasted are due at once afterwards (`polls_due`), as tokio's interval does by
default. `Tick` does not pass a branch that is ready, nor the timeout of a
request.

**MqttFraming.** `Decode` and `Encode` are the two codecs digit by digit over a
small radix; `Read` takes any prefix of the stream, as `read` may. `Parsed` keeps
every early return of `parse_incoming_publish` that a byte can trigger. The history
variable `pending` remembers which packets the broker has sent and the reader has
not cut off; it is also the state of `CommandFeed`.

## 3. Runs

| Run | Question | Outcome |
|---|---|---|
| `PublisherSafety` | Does the availability topic agree with what the task decides by, is it `online` only with a session and with a packet of somebody in time, and does each return get the setpoints? Two thermometers, every failure | holds |
| `PublisherLive` | Is a dead connection left, is the loop always reached again, is it noticed when nobody sends any more? | holds |
| `LinkMonitor` | Does every thermometer come to stream, does alarm traffic end (`local monitor`)? Is set what `set-alarm` says is set? Do the bytes on the wire mean what the loop takes them for, and is a garbled packet dropped? | holds |
| `LinkProxyLoop` | Does alarm traffic end in `local proxy`? | violated: `udp.rs` 126 echoes alarm packets as well |
| `BridgeAgree` | Once all is settled, is each alarm that Home Assistant shows in force? Is a thermometer that is off shown offline in time? | holds |
| `BridgeDelivers` | Do the latest orders end up in force, with acknowledgements of earlier ones still on their way, a lossy network and a full disk? Is the composed bridge a publisher as specified? | holds (with refinement) |
| `BridgePowerCycle` | Does a thermometer get its alarms back after a power cycle? | violated: a short one is not noticed |
| `CloudBridge` | Is a silent thermometer shown offline in time, is a reporting one shown online, is the loop always reached again? Is the age read out of a timestamp the time since the report? | holds |
| `CloudSilent` | Is a thermometer that stays silent shown offline in the end? | violated: error 101 leaves the topic as announced |
| `CloudKeepalive` | Does the broker always hear from the bridge in time? | violated: slow polls may win the `select!` again and again |
| `MqttFraming` | Are packets found in the byte stream, are lengths decoded, is every packet taken? | holds (with refinement) |
| `DeviceSetup` | As long as no answer is taken for another command's: is a reported success one, does provisioning save all or nothing? Does a mix-up take a wait in vain, does each command end, is a module found that answers? | holds |

### The violations

`LinkProxyLoop`. The monitor leaves alarm packets out of the echo, with a comment
that says why; the proxy echoes every framed packet. One acknowledgement is then
echoed, acknowledged, echoed for as long as no datagram is lost.

`BridgePowerCycle`. Setpoints are pushed only when `device_online` turns true.
A thermometer that is off for less than the stale timeout and a ping loses its
alarms, and the publisher, which never took it for offline, never sends them again.
`Agreement` therefore speaks of thermometers whose absence was noticed.

`CloudSilent`. The bridge says `online` when it connects. If by then the
thermometer has been silent beyond the cloud's cut-off, every poll is an error and
nothing is published. `OfflineBeforeCutoff` states what does hold: a thermometer
that falls silent while the bridge is connected and the cloud answers is shown offline
before the cut-off, provided the cut-off leaves room for it (`CutOffIsFar`): more than
`StaleLimit + (CmdCap + MaxOrders + 2) * HttpTimeout + PollPeriod`. With the code's
60 s, 16 and 20 s, a poll every 3 s and the ten minutes of the cloud that holds for
up to 8 setpoints between two reports of the thermometer. The condition is sufficient and
not tight: in the run, TLC finds the property to hold with a cut-off of 6 as well.

`CloudKeepalive`. The ping has a timer of its own, but it is served by the loop
that awaits polls. A poll takes up to 20 s, and with a poll interval below that the
next one is already due: `select!` chooses at random. Polls that fail publish nothing, and
the broker hears nothing for longer than the 90 s it grants.

### Where a property needs its premise

`ReportIsTrue` speaks of setups without `mixed`. The acknowledgement that some modules send when AT mode
is entered is awaited for 500 ms only (`lan.rs` 184). If it comes later it is read as the answer to the
first command, every answer counts for the command after its own, and the answer to the save is never read:
`configure` can report a success when the save was refused. Without the premise TLC finds this at
once. `InStep` states the other half: it takes a wait in vain, so a datagram that is there is always read in its turn.

`WholeUnlessMixed` has the same premise. All of `provision` reads one stream of notifications (`ble.rs` 302). An
answer to the SSID that comes later than 5 s is asked for again, so two answers `+ok` arrive and the
second is taken for the key's. If the key is then refused, its refusal counts for the server step, which is sent
again, and the save goes out with the key as it was. Without the premise TLC finds such a save within
seconds; with it, what a save of provisioning changes is all of the wish.

`OffIsShown` is about a thermometer that was heard on the connection, in `local monitor`. Any packet that is taken from
the channel refreshes `last_packet` (`main.rs` 1098), before the code looks at who sent it. In the monitor's runs only thermometers
send, so the age of the last packet bounds how long they can have been off: packets that waited while the broker was away,
or that were on their way, cannot stretch it, because by the next tick a running task has taken them (`QueuesEmpty`). In `local proxy`
the packets of the cloud, and in both modes those of a stranger or of another thermometer, do keep a silent one
`online`; there the code promises `OnlineNeedsTraffic` alone, which speaks of packets of anybody. `SilentIsNoticed`
likewise means that nobody sends any more.

`AskedIsSet`, `Agreement` and `OrdersArrive` hold as long as no alarm packet was lost: the code sends each once.

### Bounds and why they are enough

* `QueueCap`, `CmdCap`, `FlightCap` are 1 or 2 for 64, 16 and the network. With 1, a full
  queue, a dropped packet and a lost datagram occur at once, and every step is
  reached; with `FlightCap` 2 both datagrams of a re-push fit.
* One thermometer where setpoints matter (`BridgeAgree` and the others), two
  where the wrong address could be used (`PublisherSafety`, with symmetry; its
  properties are safety properties and treat addresses alike).
* `PublisherSafety` has no commands of Home Assistant: the setpoints come from
  acknowledgements and from the cloud. Orders are in `PublisherLive` and in all
  runs of the bridge.
* Temperatures `{-1, 0, 1}` on the wire's edge, `{0, 2}` with `WireMax = 1` in
  `BridgeAgree`: an alarm taken back and one the wire cannot carry. `BridgeDelivers` has `{0, 1}`, so that the acknowledgement
  of an earlier order carries another value than the newer order it overwrites.
* `CmdChannels`: orders go to both channels but in `BridgeDelivers`, which has those of channel 1 (a
  re-push or an acknowledgement never mixes channels; `Agreement` is checked and proved with both).
* Time: `PingPeriod` 1 and `StaleTimeout` 0 keep the order of the two and make
  both happen within few ticks; the theorems cover all values. In `CloudBridge` a unit is
  20 s (one HTTP timeout), in `CloudKeepalive` 10 s.
* `BridgeAgree` has two constraints. `NothingLost` cuts behaviours off where
  `Agreement` asks nothing any more (a lost alarm packet stays lost).
  `OneReport` lets a thermometer send its next regular packet only when the last one was read.
* `StaleLimit` in `CloudBridge` is 3 units of 20 s, the code's 60 s; `CutOff` is 9, the least for which
  `CutOffIsFar` holds there. The theorem `OfflineInTime` covers all values.
* `CmdTemps` is `{0}` in `CloudBridge`: no property of it looks at the temperature.
* `MissedCap` forgets polls beyond one (two in `CloudKeepalive`) that are due at once;
  `MaxOrders` bounds what Home Assistant sends, in `CloudBridge` between two reports of
  the thermometer.
* `StampsAgree` tries, at each age a run reaches, the timestamps of `EdgeDates` (month starts, the ends of
  leap years, of years and centuries from 1970 to 2101, the days around 29 February), three times of day and four offsets, `Z`,
  `+08:00` as the cloud sends it, `+05:45` and `-09:30`. The code is said to be valid for 1970 to 2099; it holds beyond, as
  the theorem `StampsAreRead` shows of all dates, times and offsets.
* `DeviceWire`: `Samples` are words at the edges of a byte and a word; `Garbage` has the delimiters, the letters that tell packets
  apart and the edges of a byte, put in the place of each byte in turn. `WireIsRead` and `GarbledDropped`
  cover all words and bytes.
* `SetAlarm`: one thermometer and `MaxOrders` 2, so that an order of the monitor comes before or after one
  of `set-alarm` and its acknowledgement is read late.
* `DeviceSetup`: one setup (`MaxSetups`) after any single command that an earlier one may have left on the
  way (`Remains`), which is all a later setup can see of an earlier one beside the settings. `FlightCap` 2 lets an
  answer be late by one command. `Wishes` are two, with the longest command that can be framed and one byte more; chunks have
  two bytes for 18 (the theorem `ChunksAreTheCommand` covers all sizes). Two modules answer a broadcast up to twice each.
* `MqttFraming`: radix 2 makes lengths of one to three bytes out of bodies of 0 to
  5 bytes, and `RoundTrip` goes through every length of up to four bytes; reads of
  up to 3 bytes, up to 3 packets on the way. The theorems cover every radix, so the code's 128, and every read size.

### Fairness

* `select!` polls its branches in random order, so a branch that is ready again
  and again is taken some time: strong fairness of `HandlePacket`, `Ping`,
  `TakeCmd`, `ReaderGone`, `Poll`.
* A sleeping loop wakes, a running task is scheduled, the clock goes on: weak
  fairness of `Wake`, `SaveAlarmState`, `Tick`, `Serve`. In `CloudBridge` the clock is
  strongly fair: it goes on however many setpoints arrive between its ticks.
* The broker lets one attempt in a while through: strong fairness of `Connect` and
  `Announce`. There is no timeout on these awaits, so this is an assumption
  about the broker, not a fact of the code.
* TCP reports a dead connection in the end: weak fairness of `ReaderExits`; the broker ends an
  orphaned session after its own timeout.
* A lossy network still delivers a keepalive that is sent again and again, or
  its echo (`KeepaliveHeard`, `EchoDelivered`).
* An HTTP request ends, by an answer or by the client's timeout.
* A BLE connect and a BLE write end, well or not (`BleStep`). The code has no timeout on either: that the
  operating system's stack ends them is an assumption about it.
* `set-alarm` and the setup commands are scheduled, and their timeouts expire: weak fairness of `AskStep`, `AskDone`,
  `LanStep`, `BleStep`, `ScanStep`, and of `GiveUp` with nothing to read. The module owes them nothing. For
  `Discovered` alone, a broadcast sent again and again is answered in the end (`SoundAnswer`), and
  the socket for it can be had (`Broadcast`).

Crashes, losses, switches, orders and packets of the cloud are never fair: they
may stop for good at any time, or go on for ever.

## 4. Proofs

`PublisherProofs`, on the lemmas of `PublisherTypes`, proves for all addresses, setpoints, capacities and timer values, from the
assumptions `IOAssumption`, `PublisherAssumption` and `OthersAssumption` alone:

| Theorem | Property | Argument |
|---|---|---|
| `TypeCorrect` | `TypeOK` | inductive as it stands; one step per action, lemmas for `Push`, `SendTo`, `Repush` |
| `OnlineByTraffic` | `OnlineNeedsTraffic` | strengthened by the ping timer: while online, the age of the last packet and the time to the next ping together stay within `StaleTimeout + PingPeriod` |
| `ShownAsHeld` | `AvailMatchesDevice` | inductive with the phase of the task |
| `WillAlwaysCovers` | `WillCovers` | inductive: only a live session can make the topic `online`, and every end of one publishes the will |
| `BackGetsSetpoints` | `RepushOnReturn` | an action property, from type correctness |

`CloudBridgeProofs` proves for all periods, timeouts and bounds:

| Theorem | Property | Argument |
|---|---|---|
| `TypeCorrect` | `TypeOK` | inductive as it stands |
| `WillAlwaysCovers` | `WillCovers` | inductive with type correctness, as for the publisher |
| `OfflineInTime` | `OfflineBeforeCutoff`, given `CutOffIsFar` | the invariant `InTime`, below |

`OfflineBeforeCutoff` is far from inductive: it says nothing of a bridge that is about
to be late. `Remaining` is the longest time until a poll is answered: the rest of the request
under way, a request for each setpoint queued or still to come before the next report, the
time to the next poll and its own request. `InTime` says that once a report is
older than `StaleLimit` and the topic is still `online`, its age and `Remaining` together
stay within `StaleLimit + AnswerTime`. A tick adds one to the age and takes one from
`Remaining` (`TickShrinks`); a setpoint that arrives or is taken leaves the sum as it is. Only
the end of a poll makes `Remaining` grow: an answer finds the report fresh or publishes
`offline`, and a failure ends what the property is about (`steady`).
With `CutOffIsFar` the age cannot reach the cut-off.

`LocalBridgeProofs` proves of the composed bridge, in both modes and under every fault (broker, crash, disk, loss,
power), for all addresses, setpoints and capacities:

| Theorem | Property | Argument |
|---|---|---|
| `BridgeTypeCorrect` | `BridgeTypeOK` | the publisher's part by the lemma its own proof uses (`PublisherTypeStep`), the link's by `LinkTypeStep` |
| `AlarmsAgree` | `Agreement`, given `OneThermometer` | the invariant `AgreementInv`, below |
| `BridgeImplementsPublisher` | `ImplementsPublisher` | every step of the bridge is one of `PublisherSpec` or a stutter, below |
| `BridgeShowsTheTruth` | the publisher's `OnlineNeedsTraffic`, `AvailMatchesDevice`, `WillCovers`, `RepushOnReturn` | the theorems of `PublisherProofs` through the refinement |
| `OffIsNeverLong` | `OffIsShown`, given `Mode = "monitor"` | the invariant `DarkInv` and `OnlineNeedsTraffic` from `BridgeShowsTheTruth`, below |

The refinement keeps the publisher's variables and gives `PublisherSpec` the most general thermometers
(`Others <- Body`). A step of the publisher's part is the same action there. For the link's part each step is matched
by what it does to the two queues they share: a packet taken from the network is an arrival in the packet channel
(`SamePackets`), with or without an echo in the queue of datagrams (`EchoDispatched`); a delivery or a loss is a departure; all
else stutters. That needs the types, since a queue at its capacity must be full on both sides. A crash of both parts is a crash there.

`OffIsShown` relates what only the model sees (who is on) to what the task sees (when it last took a packet). `DarkInv` says that once
the thermometers are off and a tick has passed, both queues towards the publisher are empty and stay so (`DarkLink`,
`DarkPublisher`), hence the task's own timer counts at least as far as the history variable `dark` (`TickWaits`: the clock waits until what is
queued was taken). That holds for any number of thermometers, all of them off.

`Agreement` speaks of the moment when all is settled. In between, an alarm packet on its way will overwrite what it
meets: a datagram to the thermometer the setpoint in force, the acknowledgement it causes what the publisher holds.
`Converges` orders the three queues by their distance from the thermometer. While a datagram is on its way down, nothing
need agree. Once there is none, the last acknowledgement on its way up carries the setpoint in force; without one there, the last one in
the packet channel does; without any, the publisher's setpoint is in force if it shows one and is online. There is one lemma for each action
(`...Converges`). `OneThermometer` is the mode and the number of thermometers of the run: the publisher keeps one setpoint per channel and
sends it to the thermometer heard last, so with two of them the setpoints of both cannot be those that it shows, and behind the proxy the cloud
may set an alarm, and the publisher note it, before the proxy knows where to relay it.

`DeviceLinkProofs` proves of the UDP side, with `set-alarm` on its port:

| Theorem | Property | Argument |
|---|---|---|
| `LinkTypeCorrect` | `TypeOK` | inductive as it stands, on the lemmas of `LinkLemmas` |
| `AskedAreSet` | `AskedIsSet` | the invariant `AskedInv`: while `set-alarm` listens, the last alarm packet on its way to the thermometer is the one promised, and once none is, the setpoint is in force; after it has ended, nothing is on the way in either direction that could change it |
| `AlarmRoundTrip`, `TempRoundTrip` | | for all ids and words a packet is parsed as what was built: the bytes of a sealed packet one by one (`SealedBytes`), then words from their bytes (`WordBytes`) |
| `OneByteGarbled` | | whatever the content and its length, a sealed packet with one byte replaced is neither a temperature nor a setpoint |
| `WireIsRead` | `WireAgrees` | each packet of each body, in bytes, is parsed as what it is, and its echo is the same content with the direction flipped and a checksum to match |
| `GarbledDropped` | `GarbledIsDropped` | from `OneByteGarbled` |

`OneByteGarbled` rests on the value of the checksum: two contents that differ in one byte have sums that differ by less than
256. The sum is a recursive function, and what is said of it at every length is shown through a
least counterexample (`WFMin`), which the provers can follow where induction over an operator is out of reach.

`DeviceSetupProofs` proves of the setup commands, for all modules, wishes, chunk sizes and capacities:

| Theorem | Property | Argument |
|---|---|---|
| `SetupTypes` | `TypeOK` | inductive with `Running`, which ties the phase of each command to the tool that runs |
| `ModulesFoundOnce` | `FoundOnce` | inductive: a module is listed only if it is not yet |
| `SetupInStep` | `InStep` | `OneAtATime`: as long as it never waited in vain, a session has one command on its way or one answer to read, and not both; `OfSession` says that both are of this session |
| `ReportsAreTrue` | `ReportIsTrue` | `Truth`, below |
| `SavesAreWholeUnlessMixed` | `WholeUnlessMixed` | an action property, from `Truth` |
| `ChunksAreTheCommand` | `ChunksMakeCommand` | the writes of a framed command are its bytes again (`FramedJoined`), and what is written stays that |

`Truth` follows a setting from the answer on its way to the report. What earlier commands left on the way is obeyed
before anything of this session (`LeftoversFirst`), so an answer is given when none of it is left. An answer that says a setting is set is given
with the setting in use, or with the module out of AT mode for the rest of the session (`Doomed`), where it cannot be saved; one
that says the settings are saved, with all of them in flash (`AnswersAreTrue`). `Kept` says the same of the answers that were read, up to
the report.

`MqttFramingProofs` proves of the reader task, for every radix, number of length bytes, read size and capacity:

| Theorem | Property | Argument |
|---|---|---|
| `ReaderTypes` | `TypeOK` | jointly inductive with `InStep`: what is queued is a setpoint because what is cut off is a packet that was sent |
| `ReaderInStep` | `InStep` | the same invariant: what is collected and what is to come are, byte for byte, the packets not yet taken |
| `LengthsComeBack` | `RoundTrip` | digit by digit, from what `Encode` and `Decode` do with a number in front of anything |
| `FeedImplemented` | `ImplementsFeed` | each packet cut off is one of `CommandFeed`; reading is a stutter |

`Encode`, `Decode` and `Multiplier` are recursive functions. That there is such a function is shown first
(`Recursion`, from a least bound up to which there would be none), then what it yields, through a least counterexample. The one assumption that binds is that the longest body
of the model has a length that can be told (`FramingAssumption`): the code's four bytes tell 268435455.

`CloudBridgeProofs` also proves `StampsAreRead`, which is `StampsAgree` for all dates from 1970 on, all times of day and
offsets (`TimeAssumption`). The code counts days by a loop over years and one over months, the reference calendar by eras of 400 years
that begin in March. Both are shown equal to a closed form: the loop over the years counts the days between two firsts of
March but for the leap day of the last one (`YearsAre`, on `NextMarch`), the one over the months a table (`MonthsAre`), and the formula of the reference
calendar yields the same table (`MarchMonths`).

The proofs follow the disjuncts of `Next`, one step per action. They rest on the named assumptions on the constants alone, which TLC evaluates in
the runs. TLC checks the same properties on the instances of section 3.

Every invariant and every action property that a passing run checks is stated by a theorem. Model-checked only are the
liveness properties, as fairness and ENABLED are beyond the prover, and the runs that find a violation.

## 5. What is not modelled

* The delay of the reconnect loops (5 s per attempt, never reset, at most 60 s):
  a wait of any length.
* Writes that block. A broker that accepts and then reads nothing would stop the
  publisher; the code has no timeout against it.
* The content of discovery and state messages, the console output, the display
  channel of `cloud monitor`.
* Noise other than one packet kind and a first packet that is too short or of somebody else; the CSV text packets of `try_parse`, which are printed.
* Login, device lists, binding: single requests.
* The text of AT commands and answers; the settings UART, version and TCP timeout, which are only read.
* The radio: the BLE scan is the guard of `Provision`, `local scan` only prints it.
* A timestamp that is empty or unparseable has no age and is never stale; the cloud of the model stamps every answer.
* How a timestamp's string is cut into its fields.
* The `online` flag of the cloud's answer: until the cut-off it is taken to be set, so `Status` is decided by the age alone.
* Framed packets with a wrong checksum as a kind of packet. `build_echo` computes the checksum anew (`protocol.rs` 241), so
  the loop would send such a packet back with a good one; `GarbledIsDropped` is about `try_parse` and says nothing of the echo.
* `run.sh` and the add-on's configuration.

## 6. Plan

Done: all modules of section 2 with their runs; a theorem for every invariant and action property that a passing run checks.

What is left, in this order:

1. `Agreement` behind `local proxy`, where the cloud sets alarms too: what its alarm packets leave true has to be stated first.
2. The growing delay of the reconnect loops (`main.rs` 682), with a bound on how long a broker that is back stays unused.
3. Setpoints that the cloud refuses (`cloud.rs` 189) and that start from zero with each connection (`mqtt.rs` 262).
