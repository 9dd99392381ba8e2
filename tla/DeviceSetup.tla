----------------------------- MODULE DeviceSetup -----------------------------
(***************************************************************************)
(* A user sets up a thermometer: commands of LanSession, BleProvision and  *)
(* LanDiscovery one after the other, on one module that may be switched    *)
(* off at any time.                                                        *)
(***************************************************************************)
EXTENDS LanSession, BleProvision, LanDiscovery, SequencesExt

CONSTANT MaxSetups   \* bound: commands the user starts

ASSUME SetupAssumption == MaxSetups \in Nat

VARIABLE setups      \* how many were started

vars == <<moduleVars, toolVars, lanVars, bleVars, scanVars, setups>>

TypeOK ==
  /\ ModuleTypeOK /\ ToolTypeOK
  /\ LanTypeOK /\ BleTypeOK /\ ScanTypeOK
  /\ setups \in 0 .. MaxSetups

-----------------------------------------------------------------------------
LanPart(A)  == A /\ UNCHANGED <<bleVars, scanVars>>
BlePart(A)  == A /\ UNCHANGED <<lanVars, scanVars>>
ScanPart(A) == A /\ UNCHANGED <<moduleVars, lanVars, bleVars>>

UserStarts ==
  /\ setups < MaxSetups
  /\ setups' = setups + 1
  /\ \/ LanPart(LanStarts)
     \/ BlePart(BleStarts)
     \/ ScanPart(Scan("scan") \/ Scan("autodiscover"))

Working == LanPart(LanStep \/ GiveUp) \/ BlePart(BleStep) \/ ScanPart(ScanStep)

\* The thermometer, and the network. A connection does not survive its end.
Surroundings ==
  \/ ModuleStep /\ UNCHANGED <<toolVars, lanVars, bleVars, scanVars>>
  \/ /\ PowerCycle
     /\ connected' = FALSE
     /\ UNCHANGED <<toolVars, lanVars, ble, step, attempt, mac_address, written, scanVars>>
  \/ ScanPart(\E m \in Macs : Answered(m))

Init == ModuleInit /\ ToolInit /\ LanInit /\ BleInit /\ ScanInit /\ setups = 0
Next == UserStarts \/ ((Working \/ Surroundings) /\ UNCHANGED setups)
Spec == Init /\ [][Next]_vars

\* A command that runs is scheduled and its clock runs; a module on the network that is
\* asked again and again answers in the end.
SoundAnswer(m) == Answered(m) /\ replies' = Append(replies, m) /\ scan = "listening"
Fairness ==
  /\ WF_vars(LanPart(LanStep) /\ UNCHANGED setups)
  /\ WF_vars(LanPart(GiveUp) /\ in = <<>> /\ phase # "attaching" /\ UNCHANGED setups)
  /\ WF_vars(BlePart(BleStep) /\ UNCHANGED setups)
  /\ WF_vars(ScanPart(ScanStep) /\ UNCHANGED setups)
  /\ SF_vars(ScanPart(Broadcast) /\ UNCHANGED setups)
  /\ SF_vars(ScanPart(\E m \in Macs : SoundAnswer(m)) /\ UNCHANGED setups)
FairSpec == Spec /\ Fairness

-----------------------------------------------------------------------------
(* Safety *)

Flashed == flash = [i \in Items |-> wish]

\* A success that is reported is one: if `configure` or `provision` ends well, the module
\* starts with all the user asked for, refused commands, lost answers and a power cycle
\* in between notwithstanding, and provisioning knows its address (lan.rs:285-291,
\* ble.rs:308-315). An answer taken for another one can deceive it, nothing else.
ReportIsTrue ==
  ~mixed => /\ report = "done" /\ wish # Factory => Flashed
            /\ tool = "provision" /\ step > 3 => mac_address

\* Answers carry no number; they are matched by their order alone. It can only go wrong
\* after a wait in vain, never because a datagram was left unread (lan.rs:183-184).
InStep == mixed => timedOut

\* The chunks of a command are numbered from one to at most MAX_CHUNKS, fit into a write
\* and make up the command again, whatever its length: the last chunk is short, or full to
\* the byte, and no chunk is empty (protocol.rs:35-41).
ChunksMakeCommand ==
  ble = "waiting" =>
    /\ Len(written) <= MAX_CHUNKS
    /\ \A i \in DOMAIN written :
         written[i].number = i /\ written[i].of = Len(written)
           /\ Len(written[i].data) \in 1 .. MAX_CHUNK_PAYLOAD
    /\ FlattenSeq([i \in DOMAIN written |-> written[i].data]) = Bytes(Request)

\* The list of found modules has each one once (lan.rs:50-53).
FoundOnce == \A i, j \in DOMAIN devices : devices[i] = devices[j] => i = j

-----------------------------------------------------------------------------
(* Action properties *)

\* Provisioning asks for each setting until it is accepted and saves after that: when a save
\* of its own changes the flash, either all of its wish is in it or an answer was taken for
\* another command's (ble.rs:276-334). The exception is real: an SSID answer later than
\* STEP_TIMEOUT is asked for again, two answers "+ok" arrive, the second is taken for the
\* key's (ble.rs:302), and a refused key is saved around; by InStep it takes a wait in vain.
\* `configure` promises neither, and a save left over from an earlier command is not its doing.
WholeUnlessMixed ==
  [][tool = "provision" /\ flash' # flash /\ Head(out).open
       => flash' = [i \in Items |-> wish] \/ mixed]_vars

-----------------------------------------------------------------------------
(* Liveness *)

\* A command that talks to one module comes back to the user, whatever the module does
\* and however long it is silent.
SetupEnds == tool \in Tools \ {"autodiscover"} ~> tool = "none"

\* --autodiscover keeps asking until it is answered: a module that answers in the end is
\* found, after errors, silence and garbled answers (lan.rs:107-111).
Discovered == tool = "autodiscover" ~> report = "done"
=============================================================================
