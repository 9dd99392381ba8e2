---------------------------- MODULE LanDiscovery ----------------------------
(***************************************************************************)
(* The broadcast that finds modules on the network (lan.rs): once for      *)
(* `local discover`, again and again for --autodiscover, whose first find  *)
(* names the thermometer for the rest of the process.                      *)
(***************************************************************************)
EXTENDS Setup

CONSTANTS
  Macs,         \* addresses of the modules on the network
  Copies        \* bound: how often a module's answer to one broadcast arrives

ASSUME DiscoveryAssumption == Copies \in Nat

VARIABLES
  scan,         \* off, ready, listening, pausing
  devices,      \* found so far, in the order of their answers
  asked,        \* [Macs -> 0 .. Copies]: answers to this broadcast that may yet come
  replies       \* answers not read yet

scanVars == <<scan, devices, asked, replies>>

Garbled == "garbled"   \* a datagram with less than three fields

ScanTypeOK ==
  /\ scan \in {"off", "ready", "listening", "pausing"}
  /\ devices \in Seq(Macs)
  /\ asked \in [Macs -> 0 .. Copies]
  /\ replies \in Seq(Macs \cup {Garbled})
  /\ Len(replies) <= FlightCap

NoReplies == replies' = <<>> /\ asked' = [m \in Macs |-> 0]

-----------------------------------------------------------------------------
Scan(t) ==
  /\ Begin(t, Factory)
  /\ scan' = "ready"
  /\ devices' = <<>>
  /\ UNCHANGED <<asked, replies>>

AskedOnce ==   \* mutant: the pause over, it listens without asking again
  /\ scan = "ready"
  /\ scan' = "listening"
  /\ devices' = <<>>
  /\ replies' = <<>>
  /\ asked' = [m \in Macs |-> IF tool = "scan" THEN Copies ELSE 0]
  /\ UNCHANGED toolVars
Broadcast ==
  /\ scan = "ready"
  /\ scan' = "listening"
  /\ devices' = <<>>
  /\ replies' = <<>>
  /\ asked' = [m \in Macs |-> Copies]
  /\ UNCHANGED toolVars

ScanOver(r) ==
  /\ End(r)
  /\ scan' = "off"
  /\ NoReplies
  /\ UNCHANGED <<mixed, timedOut>>

\* --autodiscover waits and tries again, after an error as well.
ScanFailed ==
  IF tool = "scan"
  THEN ScanOver("failed")
  ELSE scan' = "pausing" /\ NoReplies /\ UNCHANGED toolVars

BroadcastFails ==
  /\ scan = "ready"
  /\ ScanFailed
  /\ UNCHANGED devices

\* parse_discovery_response, and one entry for each address.
AddDevice(m) == Append(devices, m)   \* mutant: an entry for each answer
Add(m) == IF \E i \in DOMAIN devices : devices[i] = m THEN devices ELSE Append(devices, m)

Heard ==
  /\ scan = "listening"
  /\ replies # <<>>
  /\ replies' = Tail(replies)
  /\ devices' = IF Head(replies) = Garbled THEN devices ELSE Add(Head(replies))
  /\ UNCHANGED <<scan, asked, toolVars>>

\* Silence for the whole timeout, which every datagram starts anew, or an error.
Silence ==
  /\ scan = "listening"
  /\ replies = <<>>
  /\ IF tool = "scan" \/ devices # <<>> THEN ScanOver("done") ELSE ScanFailed
  /\ UNCHANGED devices

Pause ==
  /\ scan = "pausing"
  /\ scan' = "ready"
  /\ UNCHANGED <<devices, asked, replies, toolVars>>

-----------------------------------------------------------------------------
\* A module on the network answers; an answer may be garbled on the way.
Answered(m) ==
  /\ asked[m] > 0
  /\ Len(replies) < FlightCap
  /\ asked' = [asked EXCEPT ![m] = @ - 1]
  /\ \E r \in {m, Garbled} : replies' = Append(replies, r)
  /\ UNCHANGED <<scan, devices, toolVars>>

ScanInit ==
  /\ scan = "off"
  /\ devices = <<>>
  /\ asked = [m \in Macs |-> 0]
  /\ replies = <<>>

ScanStep == Broadcast \/ BroadcastFails \/ Heard \/ Silence \/ Pause
=============================================================================
