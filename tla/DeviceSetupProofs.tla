------------------------- MODULE DeviceSetupProofs -------------------------
(***************************************************************************)
(* What holds of setting up a thermometer, however many commands a user    *)
(* starts, whatever the wishes, the lengths of the settings, the number of *)
(* retries and the room for commands and answers on the way.               *)
(***************************************************************************)
EXTENDS DeviceSetup, TLAPS, SequenceTheorems, WellFoundedInduction

-----------------------------------------------------------------------------
(* Queues *)

Sending == [cmd : Command, open : BOOLEAN]

LEMMA FunctionSeq ==
  ASSUME NEW S, NEW m \in Nat, NEW f \in [1 .. m -> S]
  PROVE  f \in Seq(S) /\ Len(f) = m
<1>1. f \in Seq(S)
  BY SeqDef
<1>2. Len(f) \in Nat /\ DOMAIN f = 1 .. Len(f)
  BY <1>1, LenProperties
<1> QED BY <1>1, <1>2

LEMMA CarryType ==
  ASSUME NEW S, NEW q \in Seq(S), NEW e \in S, Len(q) <= FlightCap
  PROVE  Carry(q, e) \in Seq(S) /\ Len(Carry(q, e)) <= FlightCap
<1>1. CASE Len(q) < FlightCap
  <2>1. Append(q, e) \in Seq(S) /\ Len(Append(q, e)) = Len(q) + 1
    BY AppendProperties
  <2>2. Len(Append(q, e)) <= FlightCap
    BY <1>1, <2>1, LenProperties, ModuleAssumption
  <2> QED BY <1>1, <2>1, <2>2 DEF Carry
<1>2. CASE ~(Len(q) < FlightCap)
  BY <1>2 DEF Carry
<1> QED BY <1>1, <1>2

LEMMA SendType ==
  ASSUME NEW q \in Seq(Sending), Len(q) <= FlightCap, NEW c \in Command
  PROVE  Send(q, c) \in Seq(Sending) /\ Len(Send(q, c)) <= FlightCap
BY CarryType DEF Send, Sending

LEMMA ClosedType ==
  ASSUME NEW q \in Seq(Sending)
  PROVE  /\ Closed(q) \in Seq(Sending) /\ Len(Closed(q)) = Len(q)
         /\ \A k \in 1 .. Len(q) : Closed(q)[k].cmd = q[k].cmd /\ Closed(q)[k].open = FALSE
<1>1. Len(q) \in Nat /\ DOMAIN q = 1 .. Len(q) /\ \A k \in 1 .. Len(q) : q[k] \in Sending
  BY LenProperties, ElementOfSeq
<1>2. \A k \in 1 .. Len(q) :
        Closed(q)[k] \in Sending /\ Closed(q)[k].cmd = q[k].cmd /\ Closed(q)[k].open = FALSE
  BY <1>1 DEF Closed, Sending
<1>3. Closed(q) \in [1 .. Len(q) -> Sending]
  BY <1>1, <1>2 DEF Closed
<1>4. Closed(q) \in Seq(Sending)
  BY <1>1, <1>3, SeqDef
<1>5. Len(Closed(q)) = Len(q)
  BY <1>1, <1>3, <1>4, LenProperties
<1> QED BY <1>2, <1>4, <1>5

LEMMA TailType ==
  ASSUME NEW S, NEW q \in Seq(S), q # <<>>, Len(q) <= FlightCap
  PROVE  /\ Head(q) \in S
         /\ Tail(q) \in Seq(S)
         /\ Len(Tail(q)) <= FlightCap
BY HeadTailProperties, ModuleAssumption

LEMMA EmptyType ==
  ASSUME NEW S
  PROVE  <<>> \in Seq(S) /\ Len(<<>>) <= FlightCap
BY EmptySeq, ModuleAssumption

-----------------------------------------------------------------------------
(* The commands of a session *)

LEMMA StepsAre ==
  ASSUME NEW w
  PROVE  /\ Len(Steps(w)) = 9
         /\ Steps(w)[1] = Plain("plus") /\ Steps(w)[2] = Plain("confirm")
         /\ Steps(w)[3] = Plain("mac") /\ Steps(w)[4] = Set("ssid", w)
         /\ Steps(w)[5] = Set("key", w) /\ Steps(w)[6] = Set("server", w)
         /\ Steps(w)[7] = Set("mode", w) /\ Steps(w)[8] = Plain("save")
         /\ Steps(w)[9] = Plain("reboot")
BY DEF Steps

LEMMA CommandsAre ==
  /\ Commands("info") = <<Plain("mac"), Read("ssid"), Read("key"), Read("server"), Read("mode")>>
  /\ Commands("configure") = <<Set("ssid", wish), Set("key", wish), Set("server", wish),
                               Set("mode", wish), Plain("save")>>
  /\ Commands("reboot") = <<Plain("reboot")>>
BY DEF Commands

LEMMA PlainType ==
  ASSUME NEW o \in {"magic", "attach", "plus", "confirm", "mac", "save", "reboot"}
  PROVE  Plain(o) \in Command
BY DEF Plain, Command

LEMMA SetType ==
  ASSUME NEW i \in Items, NEW w \in Wishes
  PROVE  Set(i, w) \in Command /\ Read(i) \in Command
BY DEF Set, Read, Command

LEMMA StepsType ==
  ASSUME NEW w \in Wishes, NEW j \in 1 .. 9
  PROVE  Steps(w)[j] \in Command
<1>1. \A i \in Items : Set(i, w) \in Command
  BY SetType
<1> QED BY <1>1, StepsAre, PlainType DEF Items

LEMMA CommandsType ==
  ASSUME NEW j \in {"info", "configure", "reboot"}, j = "configure" => wish \in Wishes
  PROVE  /\ Len(Commands(j)) \in 1 .. 5
         /\ \A k \in 1 .. Len(Commands(j)) : Commands(j)[k] \in Command
<1>1. \A i \in Items : Read(i) \in Command
  BY DEF Read, Command
<1>2. j = "configure" => \A i \in Items : Set(i, wish) \in Command
  BY SetType
<1>3. CASE j = "info"
  BY <1>1, <1>3, CommandsAre, PlainType DEF Items
<1>4. CASE j = "configure"
  BY <1>2, <1>4, CommandsAre, PlainType DEF Items
<1>5. CASE j = "reboot"
  BY <1>5, CommandsAre, PlainType
<1> QED BY <1>3, <1>4, <1>5

-----------------------------------------------------------------------------
(* Types and control *)

\* At most one command of the user runs, and it has a wish if it sets something.
Running ==
  /\ phase # "idle" <=> tool \in {"probe", "info", "configure"}
  /\ ble # "off" <=> tool = "provision"
  /\ scan # "off" <=> tool \in {"scan", "autodiscover"}
  /\ report # "none" => tool = "none"
  /\ tool \in {"configure", "provision"} => wish \in Wishes
  /\ tool \in Tools \ {"configure", "provision"} => wish = Factory
  /\ phase # "idle" => (job = "info" <=> tool # "configure")
  /\ phase = "probing" => job = "info"
  /\ IF phase = "commanding" THEN Len(results) < Len(Commands(job)) ELSE results = <<>>

Types == ModuleTypeOK /\ ToolTypeOK /\ LanTypeOK /\ BleTypeOK /\ ScanTypeOK

\* What the current command is, if one is awaited.
LEMMA NextCommandType ==
  ASSUME Types, Running, phase = "commanding"
  PROVE  /\ Len(Commands(job)) \in 1 .. 5 /\ Len(results) \in Nat
         /\ Len(results) + 1 \in 1 .. Len(Commands(job))
         /\ \A k \in 1 .. Len(Commands(job)) : Commands(job)[k] \in Command
<1>1. job \in {"info", "configure", "reboot"} /\ (job = "configure" => wish \in Wishes)
  BY DEF Types, LanTypeOK, Running
<1>2. Len(results) \in Nat
  BY LenProperties DEF Types, LanTypeOK
<1>3. /\ Len(Commands(job)) \in 1 .. 5
      /\ \A k \in 1 .. Len(Commands(job)) : Commands(job)[k] \in Command
  BY <1>1, CommandsType
<1>4. Len(results) < Len(Commands(job))
  BY DEF Running
<1> QED BY <1>2, <1>3, <1>4

LEMMA RequestType ==
  ASSUME Types, Running, ble # "off"
  PROVE  Request \in Command /\ step \in 1 .. 9 /\ wish \in Wishes
BY StepsType DEF Types, BleTypeOK, Running, Request

\* A session that ends, and one that begins, leave the queues queues.
LEMMA ClosedOut ==
  ASSUME Types
  PROVE  /\ Closed(out) \in Seq(Sending) /\ Len(Closed(out)) <= FlightCap
         /\ Send(Closed(out), Plain("magic")) \in Seq(Sending)
         /\ Len(Send(Closed(out), Plain("magic"))) <= FlightCap
<1>1. out \in Seq(Sending) /\ Len(out) <= FlightCap
  BY DEF Types, ModuleTypeOK, Sending
<1>2. Closed(out) \in Seq(Sending) /\ Len(Closed(out)) <= FlightCap
  BY <1>1, ClosedType
<1> QED BY <1>2, SendType, PlainType

LEMMA LeaveTypes ==
  ASSUME Types, Running, UNCHANGED <<bleVars, scanVars, config, flash, at_mode>>,
         NEW r \in {"done", "failed"}, Leave(r), mixed' \in BOOLEAN, timedOut' \in BOOLEAN,
         tool \in {"probe", "info", "configure"}
  PROVE  Types' /\ Running'
<1>1. in' \in Seq(Answer) /\ Len(in') <= FlightCap
  BY EmptyType DEF Leave
<1>2. out' \in Seq(Sending) /\ Len(out') <= FlightCap
  BY ClosedOut DEF Leave
<1>3. results' \in Seq({a.text : a \in Answer}) /\ Len(results') <= 5
  BY EmptySeq DEF Leave
<1>4. Types'
  BY <1>1, <1>2, <1>3
  DEF Types, ModuleTypeOK, Sending, ToolTypeOK, LanTypeOK, BleTypeOK, ScanTypeOK, Leave, End,
      bleVars, scanVars
<1>5. Running'
  BY DEF Running, Leave, End, bleVars, scanVars, Tools
<1> QED BY <1>4, <1>5

LEMMA OpenTypes ==
  ASSUME Types, Running, UNCHANGED <<bleVars, scanVars, config, flash, at_mode>>,
         NEW j \in {"info", "configure", "reboot"}, OpenSession(j),
         mixed' \in BOOLEAN, timedOut' \in BOOLEAN,
         \/ tool' = tool /\ wish' = wish /\ report' = report /\ phase # "idle"
            /\ (j = "info" <=> tool # "configure")
         \/ tool = "none" /\ tool' = "configure" /\ wish' \in Wishes /\ report' = "none"
            /\ j = "configure"
  PROVE  Types' /\ Running'
<1>1. in' \in Seq(Answer) /\ Len(in') <= FlightCap
  BY EmptyType DEF OpenSession, NewSocket
<1>2. out' \in Seq(Sending) /\ Len(out') <= FlightCap
  BY ClosedOut DEF OpenSession, NewSocket
<1>3. results' \in Seq({a.text : a \in Answer}) /\ Len(results') <= 5
  BY EmptySeq DEF OpenSession
<1>4. Types'
  BY <1>1, <1>2, <1>3
  DEF Types, ModuleTypeOK, Sending, ToolTypeOK, LanTypeOK, BleTypeOK, ScanTypeOK, OpenSession,
      bleVars, scanVars, Values, Tools
<1>5. Running'
  BY DEF Running, OpenSession, bleVars, scanVars, Tools
<1> QED BY <1>4, <1>5

\* The head of what the session has to read is taken.
LEMMA AnswerTaken ==
  ASSUME Types, in # <<>>
  PROVE  /\ Head(in) \in Answer
         /\ Tail(in) \in Seq(Answer) /\ Len(Tail(in)) <= FlightCap
BY TailType DEF Types, ModuleTypeOK

LEMMA SentOut ==
  ASSUME Types, NEW c \in Command
  PROVE  Send(out, c) \in Seq(Sending) /\ Len(Send(out, c)) <= FlightCap
BY SendType DEF Types, ModuleTypeOK, Sending

LEMMA LanStartsTypes ==
  ASSUME Types, Running, LanPart(LanStarts)
  PROVE  Types' /\ Running'
<1>1. ASSUME NEW w \in Wishes, Configure(w) PROVE Types' /\ Running'
  BY <1>1, OpenTypes DEF Configure, Begin, LanPart
<1>2. ASSUME NEW t \in {"probe", "info"}, Probe(t) PROVE Types' /\ Running'
  <2>1. in' \in Seq(Answer) /\ Len(in') <= FlightCap
    BY <1>2, EmptyType DEF Probe, NewSocket
  <2>2. out' \in Seq(Sending) /\ Len(out') <= FlightCap
    BY <1>2, ClosedOut DEF Probe, NewSocket
  <2>3. Types'
    BY <1>2, <2>1, <2>2
    DEF Types, ModuleTypeOK, Sending, ToolTypeOK, LanTypeOK, BleTypeOK, ScanTypeOK, Probe,
        Begin, LanPart, bleVars, scanVars, Values, Tools
  <2>4. Running'
    BY <1>2 DEF Running, Probe, Begin, LanPart, bleVars, scanVars, Tools
  <2> QED BY <2>3, <2>4
<1> QED BY <1>1, <1>2 DEF LanStarts, LanPart

LEMMA LanStepTypes ==
  ASSUME Types, Running, LanPart(LanStep \/ GiveUp)
  PROVE  Types' /\ Running'
<1> USE DEF LanPart
<1>0. mixed \in BOOLEAN /\ timedOut \in BOOLEAN
  BY DEF Types, ToolTypeOK
<1>t. ASSUME NEW c, Taken(c) PROVE mixed' \in BOOLEAN
  BY <1>t DEF Taken
<1>1. CASE Probed
  <2>1. mixed' \in BOOLEAN /\ timedOut' \in BOOLEAN /\ UNCHANGED <<config, flash, at_mode>>
    BY <1>0, <1>1, <1>t DEF Probed
  <2>2. tool \in {"probe", "info", "configure"} /\ phase # "idle" /\ results = <<>>
    BY <1>1 DEF Probed, Running
  <2>3. ASSUME NEW r \in {"done", "failed"}, Leave(r) PROVE Types' /\ Running'
    BY <2>1, <2>2, <2>3, LeaveTypes
  <2>4. CASE tool = "info" /\ OpenSession("info") /\ UNCHANGED <<tool, wish, report>>
    BY <2>1, <2>2, <2>4, OpenTypes
  <2> QED BY <1>1, <2>3, <2>4 DEF Probed
<1>2. CASE Greeted
  <2>1. /\ in' \in Seq(Answer) /\ Len(in') <= FlightCap
        /\ out' \in Seq(Sending) /\ Len(out') <= FlightCap
    BY <1>2, AnswerTaken, SentOut, PlainType DEF Greeted
  <2>2. mixed' \in BOOLEAN /\ timedOut' \in BOOLEAN
    BY <1>0, <1>2, <1>t DEF Greeted
  <2> QED
    BY <1>2, <2>1, <2>2
    DEF Types, ModuleTypeOK, Sending, ToolTypeOK, LanTypeOK, BleTypeOK, ScanTypeOK, Greeted,
        Running, bleVars, scanVars
<1>3. CASE Attached \/ NoAck
  <2>1. job \in {"info", "configure", "reboot"} /\ (job = "configure" => wish \in Wishes)
    BY <1>3 DEF Types, LanTypeOK, Running, Attached, NoAck
  <2>2. /\ Len(Commands(job)) \in 1 .. 5 /\ Commands(job) # <<>>
        /\ Head(Commands(job)) \in Command
    BY <2>1, CommandsType, CommandsAre
  <2>3. out' \in Seq(Sending) /\ Len(out') <= FlightCap
    BY <1>3, <2>2, SentOut DEF Attached, NoAck, FirstCommand
  <2>4. in' \in Seq(Answer) /\ Len(in') <= FlightCap
    BY <1>3, AnswerTaken DEF Attached, NoAck, Types, ModuleTypeOK
  <2>5. mixed' \in BOOLEAN /\ timedOut' \in BOOLEAN
    BY <1>0, <1>3, <1>t DEF Attached, NoAck
  <2>6. Types'
    BY <1>3, <2>3, <2>4, <2>5
    DEF Types, ModuleTypeOK, Sending, ToolTypeOK, LanTypeOK, BleTypeOK, ScanTypeOK, Attached,
        NoAck, FirstCommand, bleVars, scanVars
  <2>7. results' = <<>> /\ job' = job /\ phase' = "commanding" /\ phase = "attaching"
    BY <1>3 DEF Attached, NoAck, FirstCommand, Running
  <2>8. Len(Commands(job))' = Len(Commands(job))
    BY <2>1, <2>7, CommandsAre DEF Commands
  <2>9. UNCHANGED <<tool, wish, report, job, bleVars, scanVars>>
    BY <1>3 DEF Attached, NoAck
  <2>10. Len(results') < Len(Commands(job))'
    BY <2>2, <2>7, <2>8, EmptySeq
  <2> QED BY <2>6, <2>7, <2>9, <2>10 DEF Running, bleVars, scanVars
<1>4. CASE Commanded
  <2> DEFINE rs == Append(results, Head(in).text)
  <2>1. mixed' \in BOOLEAN /\ timedOut' \in BOOLEAN /\ UNCHANGED <<config, flash, at_mode>>
    BY <1>0, <1>4, <1>t DEF Commanded
  <2>2. /\ tool \in {"probe", "info", "configure"} /\ phase = "commanding"
        /\ (job = "info" <=> tool # "configure")
    BY <1>4 DEF Commanded, Running
  <2>3. ASSUME NEW r \in {"done", "failed"}, Leave(r) PROVE Types' /\ Running'
    BY <2>1, <2>2, <2>3, LeaveTypes
  <2>4. CASE job = "configure" /\ OpenSession("reboot") /\ UNCHANGED <<tool, wish, report>>
    BY <2>1, <2>2, <2>4, OpenTypes
  <2>5. CASE ~(Len(rs) = Len(Commands(job)))
    <3>1. /\ Head(in) \in Answer /\ in' \in Seq(Answer) /\ Len(in') <= FlightCap
      BY <1>4, <2>5, AnswerTaken DEF Commanded
    <3>2. results \in Seq({a.text : a \in Answer}) /\ Head(in).text \in {a.text : a \in Answer}
      BY <3>1 DEF Types, LanTypeOK
    <3>3. rs \in Seq({a.text : a \in Answer}) /\ Len(rs) = Len(results) + 1
      BY <3>2, AppendProperties
    <3> HIDE DEF rs
    <3>4. Len(rs) < Len(Commands(job)) /\ Len(Commands(job)) \in 1 .. 5 /\ Len(rs) \in Nat
      BY <2>2, <2>5, <3>3, NextCommandType
    <3>5. Commands(job)[Len(rs) + 1] \in Command
      BY <2>2, <3>4, NextCommandType
    <3>6. /\ results' = rs /\ out' = Send(out, Commands(job)[Len(rs) + 1])
          /\ UNCHANGED <<phase, job, tool, wish, report>>
      BY <1>4, <2>5 DEF Commanded, rs
    <3>7. out' \in Seq(Sending) /\ Len(out') <= FlightCap
      BY <3>5, <3>6, SentOut
    <3>10. LanTypeOK'
      <4>1. \A n \in Nat, m \in 1 .. 5 : n < m => n <= 5
        OBVIOUS
      <4>2. Len(rs) <= 5
        BY <3>4, <4>1
      <4> QED BY <3>3, <3>6, <4>2 DEF Types, LanTypeOK
    <3>8. Types'
      BY <2>1, <3>1, <3>6, <3>7, <3>10
      DEF Types, ModuleTypeOK, Sending, ToolTypeOK, BleTypeOK, ScanTypeOK, bleVars, scanVars
    <3>9. Len(results') < Len(Commands(job))'
      BY <3>4, <3>6 DEF Commands
    <3> QED BY <2>2, <3>6, <3>8, <3>9 DEF Running, bleVars, scanVars
  <2>6. CASE Len(rs) = Len(Commands(job))
    <3>1. Concluded(rs)
      BY <1>4, <2>6 DEF Commanded
    <3> QED BY <2>3, <2>4, <3>1 DEF Concluded
  <2> QED BY <2>5, <2>6
<1>5. CASE GiveUp
  BY <1>0, <1>5, LeaveTypes DEF GiveUp, Running
<1> QED BY <1>1, <1>2, <1>3, <1>4, <1>5 DEF LanStep

-----------------------------------------------------------------------------
(* Chunks *)

\* The chunk numbered i, of n bytes, has at least one byte and at most MAX_CHUNK_PAYLOAD, and
\* ends where the next begins or with the last byte.
Ends(n, i) == IF i * MAX_CHUNK_PAYLOAD < n THEN i * MAX_CHUNK_PAYLOAD ELSE n

LEMMA ChunkBounds ==
  ASSUME NEW n \in Nat
  PROVE  /\ Chunks(n) \in Nat
         /\ n <= MAX_CHUNK_PAYLOAD * MAX_CHUNKS => Chunks(n) <= MAX_CHUNKS
         /\ n > 0 => Chunks(n) > 0 /\ Ends(n, Chunks(n)) = n
         /\ n = 0 => Chunks(n) = 0
         /\ \A i \in 1 .. Chunks(n) :
              /\ (i - 1) * MAX_CHUNK_PAYLOAD \in Nat /\ Ends(n, i) \in Nat
              /\ (i - 1) * MAX_CHUNK_PAYLOAD < Ends(n, i) /\ Ends(n, i) <= n
              /\ Ends(n, i) <= (i - 1) * MAX_CHUNK_PAYLOAD + MAX_CHUNK_PAYLOAD
              /\ i # 1 => Ends(n, i - 1) = (i - 1) * MAX_CHUNK_PAYLOAD
<1> DEFINE P == MAX_CHUNK_PAYLOAD
           a == n + P - 1
           c == a \div P
<1>0. P \in Nat \ {0} /\ MAX_CHUNKS \in Nat \ {0} /\ a \in Nat
  BY FramesAssumption
<1> HIDE DEF P, a
<1>1. c \in Nat /\ P * c <= a /\ a < P * c + P
  BY <1>0
<1>2. Chunks(n) = c
  BY DEF Chunks, c, a, P
<1> HIDE DEF c
<1>3. a = n + P - 1
  BY DEF a
<1>4. n <= P * c /\ P * c < n + P
  BY <1>0, <1>1, <1>3
<1>5. ASSUME NEW i \in Nat, NEW j \in Nat, i <= j PROVE P * i <= P * j
  BY <1>0, <1>5
<1>6. n <= P * MAX_CHUNKS => c <= MAX_CHUNKS
  <2> SUFFICES ASSUME n <= P * MAX_CHUNKS, MAX_CHUNKS + 1 <= c PROVE FALSE
    BY <1>0, <1>1
  <2>1. P * (MAX_CHUNKS + 1) <= P * c
    BY <1>0, <1>1, <1>5
  <2>2. P * (MAX_CHUNKS + 1) = P * MAX_CHUNKS + P
    BY <1>0
  <2>3. P * MAX_CHUNKS \in Nat /\ P * c \in Nat
    BY <1>0, <1>1
  <2> QED BY <1>0, <1>4, <2>1, <2>2, <2>3
<1>7. n > 0 => c > 0
  BY <1>0, <1>1, <1>4
<1>8. n = 0 => c = 0
  <2> SUFFICES ASSUME n = 0, 1 <= c PROVE FALSE
    BY <1>1
  <2>1. P * 1 <= P * c
    BY <1>1, <1>5
  <2> QED BY <1>0, <1>1, <1>4, <2>1
<1>9. Ends(n, c) = n
  <2>1. ~(c * P < n)
    BY <1>0, <1>1, <1>4
  <2> QED BY <2>1 DEF Ends, P
<1>10. ASSUME NEW i \in 1 .. c
       PROVE  /\ (i - 1) * P \in Nat /\ Ends(n, i) \in Nat
              /\ (i - 1) * P < Ends(n, i) /\ Ends(n, i) <= n
              /\ Ends(n, i) <= (i - 1) * P + P
              /\ i # 1 => Ends(n, i - 1) = (i - 1) * P
  <2>0. i \in Nat /\ i - 1 \in Nat /\ i <= c
    BY <1>1
  <2>1. P * i <= P * c /\ P * i = P * (i - 1) + P
    BY <1>0, <1>1, <1>5, <2>0
  <2>2. P * (i - 1) \in Nat /\ P * (i - 1) < n
    BY <1>0, <1>1, <1>4, <2>0, <2>1
  <2>3. (i - 1) * P = P * (i - 1) /\ i * P = P * i
    BY <1>0, <2>0
  <2>4. Ends(n, i) = (IF P * i < n THEN P * i ELSE n)
    BY <2>3 DEF Ends, P
  <2>5. i # 1 => Ends(n, i - 1) = (i - 1) * P
    BY <2>2, <2>3 DEF Ends, P
  <2> QED BY <1>0, <2>1, <2>2, <2>3, <2>4, <2>5
<1> QED BY <1>1, <1>2, <1>6, <1>7, <1>8, <1>9, <1>10 DEF P

LEMMA FramedAre ==
  ASSUME NEW bytes \in Seq(Nat)
  PROVE  LET w == frame_command(bytes) IN
         /\ w \in Seq([number : Nat, of : Nat, data : Seq(Nat)])
         /\ Len(w) = Chunks(Len(bytes)) /\ Len(w) \in Nat
         /\ \A i \in 1 .. Len(w) :
              /\ w[i].number = i /\ w[i].of = Len(w)
              /\ w[i].data = SubSeq(bytes, (i - 1) * MAX_CHUNK_PAYLOAD + 1, Ends(Len(bytes), i))
              /\ Len(w[i].data) \in 1 .. MAX_CHUNK_PAYLOAD
<1> DEFINE n == Len(bytes)
           w == frame_command(bytes)
           d(i) == SubSeq(bytes, (i - 1) * MAX_CHUNK_PAYLOAD + 1, Ends(n, i))
<1>0. n \in Nat /\ \A k \in 1 .. n : bytes[k] \in Nat
  BY LenProperties, ElementOfSeq
<1>1. /\ Chunks(n) \in Nat
      /\ \A i \in 1 .. Chunks(n) :
           /\ (i - 1) * MAX_CHUNK_PAYLOAD \in Nat /\ Ends(n, i) \in Nat
           /\ (i - 1) * MAX_CHUNK_PAYLOAD < Ends(n, i) /\ Ends(n, i) <= n
           /\ Ends(n, i) <= (i - 1) * MAX_CHUNK_PAYLOAD + MAX_CHUNK_PAYLOAD
  BY <1>0, ChunkBounds
<1>2. ASSUME NEW i \in 1 .. Chunks(n)
      PROVE  d(i) \in Seq(Nat) /\ Len(d(i)) \in 1 .. MAX_CHUNK_PAYLOAD
  <2> DEFINE f == (i - 1) * MAX_CHUNK_PAYLOAD
             t == Ends(n, i)
  <2>1. f \in Nat /\ t \in Nat /\ f < t /\ t <= n /\ t <= f + MAX_CHUNK_PAYLOAD
    BY <1>1
  <2> HIDE DEF f, t
  <2>2. \A k \in f + 1 .. t : bytes[k] \in Nat
    BY <1>0, <2>1
  <2>3. /\ SubSeq(bytes, f + 1, t) \in Seq(Nat)
        /\ Len(SubSeq(bytes, f + 1, t)) = t - (f + 1) + 1
    BY <2>1, <2>2, SubSeqProperties
  <2>4. Len(SubSeq(bytes, f + 1, t)) \in 1 .. MAX_CHUNK_PAYLOAD
    BY <2>1, <2>3, FramesAssumption
  <2> QED BY <2>3, <2>4 DEF f, t
<1>3. \A i \in 1 .. Chunks(n) :
        /\ w[i] = [number |-> i, of |-> Chunks(n), data |-> d(i)]
        /\ w[i] \in [number : Nat, of : Nat, data : Seq(Nat)]
  BY <1>1, <1>2 DEF frame_command, Chunk, Ends
<1>4. w \in [1 .. Chunks(n) -> [number : Nat, of : Nat, data : Seq(Nat)]]
  BY <1>3 DEF frame_command
<1>5. w \in Seq([number : Nat, of : Nat, data : Seq(Nat)]) /\ Len(w) = Chunks(n)
  <2> HIDE DEF w, n
  <2> QED BY <1>1, <1>4, FunctionSeq
<1> HIDE DEF w, d
<1>6. ASSUME NEW i \in 1 .. Len(w)
      PROVE  /\ w[i].number = i /\ w[i].of = Len(w)
             /\ w[i].data = d(i)
             /\ Len(w[i].data) \in 1 .. MAX_CHUNK_PAYLOAD
  <2>1. i \in 1 .. Chunks(n)
    BY <1>5
  <2>2. w[i] = [number |-> i, of |-> Chunks(n), data |-> d(i)]
    BY <1>3, <2>1
  <2> QED BY <1>2, <1>5, <2>1, <2>2
<1> QED BY <1>1, <1>5, <1>6 DEF w, d

-----------------------------------------------------------------------------
(* Types of provisioning, of discovery and of the module *)

LEMMA BytesType ==
  ASSUME NEW c \in Command
  PROVE  /\ Bytes(c) \in Seq(Nat)
         /\ \A i \in 1 .. Len(Bytes(c)) : Bytes(c)[i] = i
<1> DEFINE m == IF c.op = "set" /\ c.item # "mode" THEN Lengths[c.value] ELSE FixedLength
<1>1. m \in Nat
  <2>1. FixedLength \in Nat
    BY ProvisionAssumption
  <2>2. c.op = "set" => c.value \in Wishes
    BY DEF Command
  <2> QED BY <2>1, <2>2, ProvisionAssumption
<1>2. Bytes(c) = [i \in 1 .. m |-> i]
  BY DEF Bytes
<1> HIDE DEF m
<1>3. [i \in 1 .. m |-> i] \in [1 .. m -> Nat]
  BY <1>1
<1>4. Bytes(c) \in Seq(Nat) /\ Len(Bytes(c)) = m
  BY <1>1, <1>2, <1>3, FunctionSeq
<1> QED BY <1>2, <1>4

LEMMA WrittenType ==
  ASSUME NEW c \in Command
  PROVE  frame_command(Bytes(c)) \in Seq([number : Nat, of : Nat, data : Seq(Nat)])
BY BytesType, FramedAre

\* The command ends, its connection closed or left to break.
LEMMA BleEnds ==
  ASSUME Types, Running, UNCHANGED <<lanVars, scanVars, config, flash, at_mode>>,
         tool = "provision", NEW r \in {"done", "failed"}, End(r), ble' = "off",
         in' = <<>>, out' = Closed(out), UNCHANGED <<step, attempt, written>>,
         connected' \in BOOLEAN, mac_address' \in BOOLEAN,
         mixed' \in BOOLEAN, timedOut' \in BOOLEAN
  PROVE  Types' /\ Running'
<1>1. in' \in Seq(Answer) /\ Len(in') <= FlightCap
  BY EmptyType
<1>2. out' \in Seq(Sending) /\ Len(out') <= FlightCap
  BY ClosedOut
<1>3. Types'
  BY <1>1, <1>2
  DEF Types, ModuleTypeOK, Sending, ToolTypeOK, LanTypeOK, BleTypeOK, ScanTypeOK, End,
      lanVars, scanVars
<1>4. Running'
  BY DEF Running, End, lanVars, scanVars, Tools, Commands
<1> QED BY <1>3, <1>4

\* The command goes on.
LEMMA BleGoesOn ==
  ASSUME Types, Running, UNCHANGED <<lanVars, scanVars, config, flash, at_mode>>,
         UNCHANGED <<tool, wish, report>>, ble # "off",
         ble' \in {"writing", "waiting"}, connected' \in BOOLEAN, step' \in 1 .. 9,
         attempt' \in 1 .. STEP_RETRIES, mac_address' \in BOOLEAN,
         written' \in Seq([number : Nat, of : Nat, data : Seq(Nat)]),
         in' \in Seq(Answer), Len(in') <= FlightCap,
         out' \in Seq(Sending), Len(out') <= FlightCap,
         mixed' \in BOOLEAN, timedOut' \in BOOLEAN
  PROVE  Types' /\ Running'
<1>1. Types'
  BY DEF Types, ModuleTypeOK, Sending, ToolTypeOK, LanTypeOK, BleTypeOK, ScanTypeOK,
         lanVars, scanVars
<1>2. Running'
  BY DEF Running, lanVars, scanVars, Commands
<1> QED BY <1>1, <1>2

LEMMA FirstAttempt == 1 \in 1 .. STEP_RETRIES /\ 1 \in 1 .. 9
<1>1. STEP_RETRIES \in Nat /\ STEP_RETRIES # 0
  BY ProvisionAssumption
<1> QED BY <1>1

LEMMA BleStartsTypes ==
  ASSUME Types, Running, BlePart(BleStarts)
  PROVE  Types' /\ Running'
<1>1. PICK w \in Wishes : Provision(w) \/ Panic(w)
  BY DEF BlePart, BleStarts
<1>2. UNCHANGED <<lanVars, scanVars>>
  BY DEF BlePart
<1>3. CASE Provision(w)
  <2>1. in' \in Seq(Answer) /\ Len(in') <= FlightCap
    BY <1>3, EmptyType DEF Provision
  <2>2. written' \in Seq([number : Nat, of : Nat, data : Seq(Nat)])
    BY <1>3, EmptyType DEF Provision
  <2>3. Types'
    BY <1>2, <1>3, <2>1, <2>2, FirstAttempt
    DEF Types, ModuleTypeOK, ToolTypeOK, LanTypeOK, BleTypeOK, ScanTypeOK, Provision, Begin,
        lanVars, scanVars, Values, Tools
  <2>4. Running'
    BY <1>2, <1>3 DEF Running, Provision, Begin, lanVars, scanVars, Tools, Commands
  <2> QED BY <2>3, <2>4
<1>4. CASE Panic(w)
  <2>1. Types'
    BY <1>2, <1>4
    DEF Types, ModuleTypeOK, ToolTypeOK, LanTypeOK, BleTypeOK, ScanTypeOK, Panic,
        moduleVars, bleVars, lanVars, scanVars, Values
  <2>2. Running'
    BY <1>2, <1>4 DEF Running, Panic, bleVars, lanVars, scanVars, Tools, Commands
  <2> QED BY <2>1, <2>2
<1> QED BY <1>1, <1>3, <1>4

LEMMA BleStepTypes ==
  ASSUME Types, Running, BlePart(BleStep)
  PROVE  Types' /\ Running'
<1>0. /\ mixed \in BOOLEAN /\ timedOut \in BOOLEAN /\ UNCHANGED <<lanVars, scanVars>>
      /\ mac_address \in BOOLEAN /\ connected \in BOOLEAN /\ step \in 1 .. 9
      /\ attempt \in 1 .. STEP_RETRIES
      /\ written \in Seq([number : Nat, of : Nat, data : Seq(Nat)])
      /\ in \in Seq(Answer) /\ Len(in) <= FlightCap
      /\ out \in Seq(Sending) /\ Len(out) <= FlightCap
  BY DEF Types, ModuleTypeOK, ToolTypeOK, BleTypeOK, BlePart, Sending
<1>1. ble # "off" /\ tool = "provision" /\ ~(tool = "none")
  BY DEF Running, BlePart, BleStep, Connected, NotConnected, Write, WriteFails, Notified, Unanswered
<1>2. CASE Connected
  BY <1>0, <1>1, <1>2, BleGoesOn DEF Connected, moduleVars, toolVars
<1>3. CASE NotConnected \/ WriteFails
  BY <1>0, <1>1, <1>3, BleEnds DEF NotConnected, WriteFails, Abandon
<1>4. CASE Write
  <2>1. Request \in Command
    BY <1>1, RequestType
  <2>2. written' \in Seq([number : Nat, of : Nat, data : Seq(Nat)])
    BY <1>4, <2>1, WrittenType DEF Write
  <2>3. out' \in Seq(Sending) /\ Len(out') <= FlightCap
    BY <1>4, <2>1, SentOut DEF Write
  <2> QED BY <1>0, <1>1, <1>4, <2>2, <2>3, BleGoesOn DEF Write, toolVars
<1>5. CASE Notified
  <2>1. /\ mixed' \in BOOLEAN /\ timedOut' \in BOOLEAN /\ mac_address' \in BOOLEAN
        /\ UNCHANGED <<written, config, flash, at_mode>>
    BY <1>0, <1>5 DEF Notified, Taken
  <2>2. Tail(in) \in Seq(Answer) /\ Len(Tail(in)) <= FlightCap
    BY <1>5, AnswerTaken DEF Notified
  <2>3. ASSUME NEW r \in {"done", "failed"}, Disconnect(r) PROVE Types' /\ Running'
    BY <1>0, <1>1, <2>1, <2>3, BleEnds DEF Disconnect
  <2>4. CASE UNCHANGED <<step, connected, out, tool, wish, report>>
             /\ attempt' = attempt + 1 /\ ble' = "writing" /\ attempt < STEP_RETRIES
    <3>1. in' = Tail(in)
      BY <1>5, <2>4 DEF Notified
    <3>2. attempt' \in 1 .. STEP_RETRIES
      BY <1>0, <2>4, ProvisionAssumption
    <3> QED BY <1>0, <1>1, <2>1, <2>2, <2>4, <3>1, <3>2, BleGoesOn
  <2>5. CASE UNCHANGED <<connected, out, tool, wish, report>>
             /\ step' = step + 1 /\ attempt' = 1 /\ ble' = "writing"
             /\ step < Len(Steps(wish))
    <3>1. in' = Tail(in)
      BY <1>5, <2>5 DEF Notified
    <3>2. step < 9
      BY <2>5, StepsAre
    <3>3. step' \in 1 .. 9 /\ attempt' \in 1 .. STEP_RETRIES
      BY <1>0, <2>5, <3>2, FirstAttempt
    <3> QED BY <1>0, <1>1, <2>1, <2>2, <2>5, <3>1, <3>3, BleGoesOn
  <2> QED BY <1>5, <2>3, <2>4, <2>5 DEF Notified, NextStep, Retry
<1>6. CASE Unanswered
  <2>1. /\ mixed' \in BOOLEAN /\ timedOut' \in BOOLEAN
        /\ UNCHANGED <<written, config, flash, at_mode, mac_address>>
    BY <1>0, <1>6 DEF Unanswered
  <2>2. CASE Disconnect("failed")
    BY <1>0, <1>1, <2>1, <2>2, BleEnds DEF Disconnect
  <2>3. CASE UNCHANGED <<step, connected, out, tool, wish, report>>
             /\ attempt' = attempt + 1 /\ ble' = "writing" /\ attempt < STEP_RETRIES
    <3>1. in' = in
      BY <1>6, <2>3 DEF Unanswered
    <3>2. attempt' \in 1 .. STEP_RETRIES
      BY <1>0, <2>3, ProvisionAssumption
    <3> QED BY <1>0, <1>1, <2>1, <2>3, <3>1, <3>2, BleGoesOn
  <2> QED BY <1>6, <2>2, <2>3 DEF Unanswered, Retry
<1> QED BY <1>2, <1>3, <1>4, <1>5, <1>6 DEF BlePart, BleStep

\* Discovery changes neither queues nor settings.
LEMMA ScanTypes ==
  ASSUME Types, Running,
         ScanPart(Scan("scan") \/ Scan("autodiscover") \/ ScanStep \/ \E m \in Macs : Answered(m))
  PROVE  Types' /\ Running'
<1>0. UNCHANGED <<moduleVars, lanVars, bleVars>>
  BY DEF ScanPart
<1> SUFFICES /\ ToolTypeOK' /\ ScanTypeOK'
             /\ scan' # "off" <=> tool' \in {"scan", "autodiscover"}
             /\ report' # "none" => tool' = "none"
             /\ \/ tool' = tool /\ wish' = wish
                \/ /\ tool \in {"none", "scan", "autodiscover"}
                   /\ tool' \in {"none", "scan", "autodiscover"}
                   /\ (tool' # "none" => wish' = Factory)
  <2>1. Types'
    BY <1>0 DEF Types, ModuleTypeOK, LanTypeOK, BleTypeOK, moduleVars, lanVars, bleVars
  <2>2. Running'
    BY <1>0 DEF Running, lanVars, bleVars, Tools, Commands
  <2> QED BY <2>1, <2>2
<1>1. [m \in Macs |-> 0] \in [Macs -> 0 .. Copies] /\ [m \in Macs |-> Copies] \in [Macs -> 0 .. Copies]
  BY DiscoveryAssumption
<1>2. <<>> \in Seq(Macs) /\ <<>> \in Seq(Macs \cup {Garbled}) /\ Len(<<>>) <= FlightCap
  BY EmptyType
<1>3. CASE Scan("scan") \/ Scan("autodiscover")
  BY <1>2, <1>3
  DEF Types, ToolTypeOK, ScanTypeOK, Running, Scan, Begin, Tools, Values
<1>4. ASSUME NEW r \in {"done", "failed"}, ScanOver(r), UNCHANGED devices, scan # "off"
      PROVE  /\ ToolTypeOK' /\ ScanTypeOK' /\ scan' = "off" /\ tool' = "none"
             /\ tool \in {"scan", "autodiscover"}
  BY <1>1, <1>2, <1>4
  DEF Types, ToolTypeOK, ScanTypeOK, Running, ScanOver, End, NoReplies
<1>5. ASSUME ScanFailed, UNCHANGED devices, scan # "off"
      PROVE  /\ ToolTypeOK' /\ ScanTypeOK' /\ tool \in {"scan", "autodiscover"}
             /\ \/ scan' = "off" /\ tool' = "none"
                \/ scan' = "pausing" /\ UNCHANGED toolVars
  BY <1>1, <1>2, <1>4, <1>5
  DEF Types, ToolTypeOK, ScanTypeOK, Running, ScanFailed, NoReplies, toolVars
<1>6. CASE Broadcast
  BY <1>1, <1>2, <1>6 DEF Types, ToolTypeOK, ScanTypeOK, Running, Broadcast, toolVars
<1>7. CASE BroadcastFails
  BY <1>5, <1>7 DEF BroadcastFails, Running, toolVars
<1>8. CASE Heard
  <2>1. /\ replies \in Seq(Macs \cup {Garbled}) /\ replies # <<>> /\ Len(replies) <= FlightCap
        /\ devices \in Seq(Macs) /\ replies' = Tail(replies)
        /\ devices' = IF Head(replies) = Garbled THEN devices ELSE Add(Head(replies))
        /\ UNCHANGED <<scan, asked, toolVars>>
    BY <1>8 DEF Heard, Types, ScanTypeOK
  <2>2. /\ Head(replies) \in Macs \cup {Garbled}
        /\ replies' \in Seq(Macs \cup {Garbled}) /\ Len(replies') <= FlightCap
    BY <2>1, TailType
  <2>3. ASSUME NEW m \in Macs PROVE Add(m) \in Seq(Macs)
    BY <2>1, AppendProperties DEF Add
  <2>4. devices' \in Seq(Macs)
    BY <2>1, <2>2, <2>3
  <2> QED BY <2>1, <2>2, <2>4 DEF Types, ToolTypeOK, ScanTypeOK, Running, toolVars
<1>9. CASE Silence
  BY <1>4, <1>5, <1>9 DEF Silence, Running, toolVars
<1>10. CASE Pause
  BY <1>10 DEF Types, ToolTypeOK, ScanTypeOK, Running, Pause, toolVars
<1>11. ASSUME NEW m \in Macs, Answered(m)
       PROVE  ToolTypeOK' /\ ScanTypeOK' /\ UNCHANGED <<toolVars, scan>>
  <2>1. asked' \in [Macs -> 0 .. Copies]
    BY <1>11, DiscoveryAssumption DEF Answered, Types, ScanTypeOK
  <2>2. PICK r \in {m, Garbled} : replies' = Append(replies, r)
    BY <1>11 DEF Answered
  <2>3. replies' \in Seq(Macs \cup {Garbled}) /\ Len(replies') = Len(replies) + 1
    BY <2>2, AppendProperties DEF Types, ScanTypeOK
  <2>4. Len(replies') <= FlightCap
    BY <1>11, <2>3, LenProperties, ModuleAssumption DEF Answered, Types, ScanTypeOK
  <2> QED
    BY <1>11, <2>1, <2>3, <2>4 DEF Answered, Types, ToolTypeOK, ScanTypeOK, toolVars
<1>12. CASE \E m \in Macs : Answered(m)
  BY <1>11, <1>12 DEF Running, toolVars
<1> QED
  BY <1>3, <1>6, <1>7, <1>8, <1>9, <1>10, <1>12 DEF ScanPart, ScanStep

\* The module, and a power cycle, leave the commands of the user alone.
LEMMA ModuleTypes ==
  ASSUME Types, Running,
         UNCHANGED <<toolVars, lanVars, ble, step, attempt, mac_address, written, scanVars>>,
         \/ ModuleStep /\ UNCHANGED connected
         \/ PowerCycle /\ connected' = FALSE
  PROVE  Types' /\ Running'
<1>1. Running'
  BY DEF Running, toolVars, lanVars, scanVars, Commands
<1>2. ToolTypeOK' /\ LanTypeOK' /\ BleTypeOK' /\ ScanTypeOK'
  <2>1. connected' \in BOOLEAN
    BY DEF Types, BleTypeOK
  <2>2. BleTypeOK'
    BY <2>1 DEF Types, BleTypeOK
  <2> QED
    BY <2>2 DEF Types, ToolTypeOK, LanTypeOK, ScanTypeOK, toolVars, lanVars, scanVars
<1>3. ModuleTypeOK'
  <2>1. CASE PowerCycle
    BY <2>1, EmptyType DEF PowerCycle, Types, ModuleTypeOK
  <2>2. CASE ModuleStep
    <3>1. /\ Head(out) \in Sending
          /\ out' \in Seq(Sending) /\ Len(out') <= FlightCap
      BY <2>2, TailType DEF ModuleStep, Obey, Refuse, Ignore, Types, ModuleTypeOK, Sending
    <3>2. Head(out).cmd \in Command
      BY <3>1 DEF Sending
    <3>3. ASSUME NEW c \in Command,
                 NEW t \in {"ip,mac,model", "a", "+ok", "+ok=", "+ERR"}, Reply(c, t)
          PROVE  in' \in Seq(Answer) /\ Len(in') <= FlightCap
      <4>1. [to |-> c, text |-> t] \in Answer
        BY DEF Answer
      <4> QED BY <3>3, <4>1, CarryType DEF Reply, Types, ModuleTypeOK
    <3>4. Text(Head(out).cmd) \in {"ip,mac,model", "a", "+ok", "+ok=", "+ERR"}
      BY DEF Text
    <3>5. in' \in Seq(Answer) /\ Len(in') <= FlightCap
      BY <2>2, <3>2, <3>3, <3>4 DEF ModuleStep, Obey, Refuse, Ignore, Types, ModuleTypeOK
    <3>6. config' \in [Items -> Values] /\ flash' \in [Items -> Values] /\ at_mode' \in BOOLEAN
      <4>1. CASE Obey
        <5> DEFINE c == Head(out).cmd
        <5>1. c.op = "set" => c.item \in Items /\ c.value \in Values
          BY <3>2 DEF Command, Values
        <5>2. config \in [Items -> Values] /\ flash \in [Items -> Values] /\ at_mode \in BOOLEAN
          BY DEF Types, ModuleTypeOK
        <5>3. /\ config' = CASE c.op = "set"    -> [config EXCEPT ![c.item] = c.value]
                             [] c.op = "reboot" -> flash
                             [] OTHER           -> config
              /\ flash' = IF c.op = "save" THEN config ELSE flash
              /\ at_mode' \in BOOLEAN
          BY <4>1 DEF Obey
        <5> HIDE DEF c
        <5> QED BY <5>1, <5>2, <5>3
      <4>2. CASE Refuse \/ Ignore
        BY <4>2 DEF Refuse, Ignore, Types, ModuleTypeOK
      <4> QED BY <2>2, <4>1, <4>2 DEF ModuleStep
    <3> QED BY <3>1, <3>5, <3>6 DEF ModuleTypeOK, Sending
  <2> QED BY <2>1, <2>2
<1> QED BY <1>1, <1>2, <1>3 DEF Types

\* Every step keeps the types and the control.
LEMMA TypesStep == TypeOK /\ Running /\ [Next]_vars => TypeOK' /\ Running'
<1> SUFFICES ASSUME TypeOK, Running, [Next]_vars PROVE TypeOK' /\ Running'
  OBVIOUS
<1>0. Types /\ setups \in 0 .. MaxSetups /\ (Types' /\ setups' \in 0 .. MaxSetups => TypeOK')
  BY DEF TypeOK, Types
<1>1. CASE UserStarts
  <2>1. setups' \in 0 .. MaxSetups
    BY <1>0, <1>1, SetupAssumption DEF UserStarts
  <2> QED
    BY <1>0, <1>1, <2>1, LanStartsTypes, BleStartsTypes, ScanTypes
    DEF UserStarts, LanPart, BlePart, ScanPart
<1>2. CASE Working /\ UNCHANGED setups
  BY <1>0, <1>2, LanStepTypes, BleStepTypes, ScanTypes DEF Working, ScanPart
<1>3. CASE Surroundings /\ UNCHANGED setups
  <2>1. CASE ModuleStep /\ UNCHANGED <<toolVars, lanVars, bleVars, scanVars>>
    BY <1>0, <1>3, <2>1, ModuleTypes DEF bleVars
  <2>2. CASE ScanPart(\E m \in Macs : Answered(m))
    BY <1>0, <1>3, <2>2, ScanTypes DEF ScanPart
  <2> QED BY <1>0, <1>3, <2>1, <2>2, ModuleTypes DEF Surroundings
<1>4. CASE UNCHANGED vars
  <2>1. Running'
    BY <1>4 DEF vars, toolVars, lanVars, bleVars, scanVars, Running, Commands
  <2>2. TypeOK'
    BY <1>4 DEF vars, moduleVars, toolVars, lanVars, bleVars, scanVars, TypeOK, ModuleTypeOK,
                ToolTypeOK, LanTypeOK, BleTypeOK, ScanTypeOK
  <2> QED BY <2>1, <2>2
<1> QED BY <1>1, <1>2, <1>3, <1>4 DEF Next

LEMMA TypesInit == Init => TypeOK /\ Running
<1> SUFFICES ASSUME Init PROVE TypeOK /\ Running
  OBVIOUS
<1>1. ModuleTypeOK
  <2>1. [i \in Items |-> Factory] \in [Items -> Values]
    BY DEF Values
  <2>2. out \in Seq([cmd : Command, open : BOOLEAN]) /\ Len(out) <= FlightCap
    <3>1. CASE out = <<>>
      BY <3>1, EmptyType
    <3>2. CASE out # <<>>
      <4>1. PICK c \in {Plain("save")} \cup {Set(i, w) : i \in Items, w \in Wishes} :
              out = <<[cmd |-> c, open |-> FALSE]>>
        BY <3>2 DEF Init, ModuleInit, Remains
      <4>2. c \in Command
        BY <4>1, PlainType, SetType
      <4> QED BY <4>1, <4>2, ModuleAssumption
    <3> QED BY <3>1, <3>2
  <2> QED BY <2>1, <2>2, EmptyType DEF Init, ModuleInit, ModuleTypeOK
<1>2. ToolTypeOK
  BY DEF Init, ToolInit, ToolTypeOK, Values
<1>6. LanTypeOK
  BY EmptySeq DEF Init, LanInit, LanTypeOK
<1>4. BleTypeOK
  BY EmptySeq, FirstAttempt DEF Init, BleInit, BleTypeOK
<1>5. ScanTypeOK
  BY EmptyType, DiscoveryAssumption DEF Init, ScanInit, ScanTypeOK
<1>3. Running
  BY DEF Init, ToolInit, LanInit, BleInit, ScanInit, Running, Tools
<1> QED BY <1>1, <1>2, <1>3, <1>4, <1>5, <1>6, SetupAssumption DEF Init, TypeOK

\* Whatever the user starts and the module does, every variable stays within its type, the
\* commands and answers on the way within the room for them, and the attempts of a step
\* within STEP_RETRIES.
THEOREM SetupTypes == Spec => [](TypeOK /\ Running)
BY TypesInit, TypesStep, PTL DEF Spec

-----------------------------------------------------------------------------
(* Discovery *)

\* Every step keeps the list without repetition.
LEMMA FoundOnceStep ==
  TypeOK /\ FoundOnce /\ [Next]_vars => FoundOnce'
<1> SUFFICES ASSUME TypeOK, FoundOnce, [Next]_vars PROVE FoundOnce'
  OBVIOUS
<1>1. devices \in Seq(Macs)
  BY DEF TypeOK, ScanTypeOK
<1>2. ASSUME NEW m, devices' = Add(m), m \in Macs PROVE FoundOnce'
  <2>1. CASE \E i \in DOMAIN devices : devices[i] = m
    BY <1>2, <2>1 DEF Add, FoundOnce
  <2>2. CASE ~ \E i \in DOMAIN devices : devices[i] = m
    <3>1. devices' = Append(devices, m)
      BY <1>2, <2>2 DEF Add
    <3>2. /\ Len(devices) \in Nat /\ DOMAIN devices = 1 .. Len(devices)
          /\ DOMAIN devices' = 1 .. Len(devices) + 1
          /\ \A i \in 1 .. Len(devices) : devices'[i] = devices[i]
          /\ devices'[Len(devices) + 1] = m
      BY <1>1, <1>2, <3>1, AppendProperties, LenProperties
    <3> QED BY <2>2, <3>2 DEF FoundOnce
  <2> QED BY <2>1, <2>2
<1>3. devices' = <<>> => FoundOnce'
  BY EmptySeq DEF FoundOnce
<1>4. UNCHANGED devices => FoundOnce'
  BY DEF FoundOnce
<1>5. CASE ScanPart(Scan("scan") \/ Scan("autodiscover"))
  BY <1>3, <1>5 DEF ScanPart, Scan
<1>6. CASE ScanPart(ScanStep)
  <2>1. CASE Heard
    <3>1. Head(replies) \in Macs \cup {Garbled}
      BY <2>1, HeadTailProperties DEF Heard, TypeOK, ScanTypeOK
    <3> QED BY <1>2, <1>4, <2>1, <3>1 DEF Heard
  <2> QED
    BY <1>3, <1>4, <1>6, <2>1
    DEF ScanPart, ScanStep, Broadcast, BroadcastFails, Silence, Pause
<1>7. CASE ScanPart(\E m \in Macs : Answered(m))
  BY <1>4, <1>7 DEF ScanPart, Answered
<1> QED
  BY <1>4, <1>5, <1>6, <1>7
  DEF Next, UserStarts, Working, Surroundings, LanPart, BlePart, scanVars, vars

\* A discovery lists each module that answered once, however often its answer arrives
\* (lan.rs:50-53).
THEOREM ModulesFoundOnce == Spec => []FoundOnce
<1>1. Init => FoundOnce
  BY EmptySeq DEF Init, ScanInit, FoundOnce
<1> QED BY <1>1, FoundOnceStep, SetupTypes, PTL DEF Spec

-----------------------------------------------------------------------------
(* Queues, place by place *)

LEMMA CarryIs ==
  ASSUME NEW S, NEW q \in Seq(S), NEW e \in S
  PROVE  /\ Len(q) \in Nat /\ Len(Carry(q, e)) \in {Len(q), Len(q) + 1}
         /\ \A k \in 1 .. Len(Carry(q, e)) :
              IF k <= Len(q) THEN Carry(q, e)[k] = q[k]
              ELSE k = Len(q) + 1 /\ Carry(q, e)[k] = e
<1>0. Len(q) \in Nat
  BY LenProperties
<1>1. CASE Len(q) < FlightCap
  <2>1. /\ Len(Append(q, e)) = Len(q) + 1 /\ Append(q, e)[Len(q) + 1] = e
        /\ \A k \in 1 .. Len(q) : Append(q, e)[k] = q[k]
    BY AppendProperties
  <2> QED BY <1>0, <1>1, <2>1 DEF Carry
<1>2. CASE ~(Len(q) < FlightCap)
  BY <1>0, <1>2 DEF Carry
<1> QED BY <1>1, <1>2

LEMMA TailIs ==
  ASSUME NEW S, NEW q \in Seq(S), q # <<>>
  PROVE  /\ Len(q) \in Nat /\ Len(q) > 0 /\ Head(q) = q[1] /\ Len(Tail(q)) = Len(q) - 1
         /\ \A k \in 1 .. Len(Tail(q)) : k + 1 \in 1 .. Len(q) /\ Tail(q)[k] = q[k + 1]
<1>1. /\ Len(q) \in Nat /\ Head(q) = q[1] /\ Len(Tail(q)) = Len(q) - 1
      /\ \A k \in 1 .. Len(Tail(q)) : Tail(q)[k] = q[k + 1]
  BY HeadTailProperties, LenProperties
<1>2. Len(q) # 0
  BY EmptySeq
<1> QED BY <1>1, <1>2

LEMMA SendIs ==
  ASSUME NEW q \in Seq(Sending), NEW c \in Command
  PROVE  /\ Len(q) \in Nat /\ Len(Send(q, c)) \in {Len(q), Len(q) + 1}
         /\ \A k \in 1 .. Len(Send(q, c)) :
              IF k <= Len(q) THEN Send(q, c)[k] = q[k]
              ELSE k = Len(q) + 1 /\ Send(q, c)[k].cmd = c /\ Send(q, c)[k].open = TRUE
<1> DEFINE e == [cmd |-> c, open |-> TRUE]
<1>1. e \in Sending /\ e.cmd = c /\ e.open = TRUE /\ Send(q, c) = Carry(q, e)
  BY DEF Sending, Send
<1> HIDE DEF e
<1>2. /\ Len(q) \in Nat /\ Len(Carry(q, e)) \in {Len(q), Len(q) + 1}
      /\ \A k \in 1 .. Len(Carry(q, e)) :
           IF k <= Len(q) THEN Carry(q, e)[k] = q[k]
           ELSE k = Len(q) + 1 /\ Carry(q, e)[k] = e
  BY <1>1, CarryIs
<1> QED BY <1>1, <1>2

-----------------------------------------------------------------------------
(* Questions and answers *)

\* The commands this session may have sent.
Sent ==
  IF ble # "off" THEN {Steps(wish)[j] : j \in 1 .. step}
  ELSE CASE phase = "idle"                    -> {}
         [] phase \in {"probing", "greeting"} -> {Plain("magic")}
         [] phase = "attaching"               -> {Plain("magic"), Plain("attach")}
         [] phase = "commanding"              -> {Plain("magic"), Plain("attach")}
              \cup {Commands(job)[j] : j \in 1 .. Len(results) + 1}

Open(k) == out[k].open
Nobody  == \A k \in 1 .. Len(out) : ~Open(k)

\* What can be answered, and what was answered, is of this session.
OfSession ==
  /\ \A k \in 1 .. Len(out) : Open(k) => out[k].cmd \in Sent
  /\ \A k \in 1 .. Len(in) : in[k].to \in Sent

\* The command whose answer comes next, unless there was a timeout.
Awaited ==
  IF ble # "off" THEN Request
  ELSE CASE phase \in {"idle", "probing", "greeting"} -> Plain("magic")
         [] phase = "attaching"                       -> Plain("attach")
         [] phase = "commanding"                      -> Commands(job)[Len(results) + 1]

\* As long as it never waited in vain, a session has one command on its way or one answer
\* to read, and not both.
OneAtATime ==
  ~timedOut =>
    /\ ~mixed
    /\ \A k \in 1 .. Len(out) : Open(k) => out[k].cmd = Awaited
    /\ \A j, k \in 1 .. Len(out) : Open(j) /\ Open(k) => j = k
    /\ \A k \in 1 .. Len(in) : in[k].to = Awaited
    /\ Len(in) <= 1
    /\ in # <<>> => Nobody
    /\ ble \in {"connecting", "writing"} => Nobody /\ in = <<>>

LEMMA Queues ==
  ASSUME Types
  PROVE  /\ out \in Seq(Sending) /\ in \in Seq(Answer) /\ Len(out) \in Nat /\ Len(in) \in Nat
         /\ in # <<>> => Len(in) > 0
         /\ in # <<>> /\ Len(in) <= 1 => Len(in) = 1
         /\ out # <<>> => Len(out) > 0
         /\ \A k \in 1 .. Len(out) : out[k] \in Sending
         /\ \A k \in 1 .. Len(in) : in[k] \in Answer
<1>1. out \in Seq(Sending) /\ in \in Seq(Answer)
  BY DEF Types, ModuleTypeOK, Sending
<1>2. (in # <<>> => Len(in) \in Nat \ {0}) /\ (out # <<>> => Len(out) \in Nat \ {0})
  BY <1>1, EmptySeq
<1>3. \A n \in Nat \ {0} : n > 0 /\ (n <= 1 => n = 1)
  OBVIOUS
<1> QED BY <1>1, <1>2, <1>3, LenProperties, ElementOfSeq

\* The answer that is read is the one that was waited for, and the only one.
LEMMA OneAnswer ==
  ASSUME Types, OneAtATime, ~timedOut, in # <<>>
  PROVE  Head(in).to = Awaited /\ Tail(in) = <<>> /\ Nobody /\ ~mixed
<1>1. Len(in) = 1
  <2>1. Len(in) <= 1
    BY DEF OneAtATime
  <2> QED BY <2>1, Queues
<1>2. Head(in) = in[1] /\ Tail(in) \in Seq(Answer) /\ Len(Tail(in)) = 0
  BY <1>1, Queues, HeadTailProperties
<1>3. Tail(in) = <<>>
  BY <1>2, EmptySeq
<1> QED BY <1>1, <1>2, <1>3 DEF OneAtATime

LEMMA SessionEnds ==
  ASSUME Types, phase' = "idle", ble' = "off", in' = <<>>, out' = Closed(out),
         ~timedOut' => ~mixed'
  PROVE  OfSession' /\ OneAtATime'
<1>1. Nobody' /\ Len(in') = 0
  BY Queues, ClosedType, EmptySeq DEF Nobody, Open
<1> QED BY <1>1 DEF OfSession, OneAtATime, Nobody

LEMMA SentAfresh ==
  ASSUME NEW q \in Seq(Sending)
  PROVE  LET r == Send(Closed(q), Plain("magic")) IN
         \A j, k \in 1 .. Len(r) :
           /\ r[k].open => r[k].cmd = Plain("magic")
           /\ r[j].open /\ r[k].open => j = k
           /\ j < k /\ ~r[k].open => ~r[j].open
<1> DEFINE c == Plain("magic")
           d == Closed(q)
           r == Send(d, c)
<1>1. d \in Seq(Sending) /\ \A k \in 1 .. Len(d) : d[k].open = FALSE
  BY ClosedType
<1>2. c \in Command
  BY PlainType
<1> HIDE DEF c, d
<1>3. /\ Len(d) \in Nat /\ Len(r) \in {Len(d), Len(d) + 1}
      /\ \A k \in 1 .. Len(r) :
           IF k <= Len(d) THEN r[k] = d[k]
           ELSE k = Len(d) + 1 /\ r[k].cmd = c /\ r[k].open = TRUE
  BY <1>1, <1>2, SendIs
<1> HIDE DEF r
<1>4. \A k \in 1 .. Len(r) :
        \/ k <= Len(d) /\ r[k].open = FALSE
        \/ k = Len(d) + 1 /\ r[k].cmd = c /\ r[k].open = TRUE
  BY <1>1, <1>3
<1>5. \A j, k \in 1 .. Len(r) :
        /\ r[k].open => r[k].cmd = c
        /\ r[j].open /\ r[k].open => j = k
        /\ j < k /\ ~r[k].open => ~r[j].open
  BY <1>3, <1>4
<1> QED BY <1>5 DEF c, d, r

LEMMA SessionOpens ==
  ASSUME Types, phase' \in {"probing", "greeting"}, ble' = "off", in' = <<>>,
         out' = Send(Closed(out), Plain("magic")), ~timedOut' => ~mixed'
  PROVE  OfSession' /\ OneAtATime'
<1>1. Len(in') = 0
  BY EmptySeq
<1>2. out \in Seq(Sending)
  BY Queues
<1>3. \A j, k \in 1 .. Len(out') :
        /\ Open(k)' => out'[k].cmd = Plain("magic")
        /\ Open(j)' /\ Open(k)' => j = k
  BY <1>2, SentAfresh DEF Open
<1>4. Awaited' = Plain("magic") /\ Sent' = {Plain("magic")}
  BY DEF Awaited, Sent
<1> QED BY <1>1, <1>3, <1>4 DEF OfSession, OneAtATime

\* A step of the session that takes an answer or is tired of waiting, and sends or not.
LEMMA SessionGoesOn ==
  ASSUME Types, OfSession, OneAtATime, Sent \subseteq Sent',
         \/ out' = out
         \/ \E c \in Command : /\ out' = Send(out, c) /\ c \in Sent' /\ c = Awaited'
                               /\ ble' \notin {"connecting", "writing"},
         in' = in \/ (in # <<>> /\ in' = Tail(in)),
         ~timedOut' => Nobody /\ in' = <<>> /\ ~mixed'
  PROVE  OfSession' /\ OneAtATime'
<1>1. /\ \A k \in 1 .. Len(in') : \E j \in 1 .. Len(in) : in'[k] = in[j]
  BY Queues, TailIs
<1>2. CASE out' = out
  BY <1>1, <1>2, EmptySeq DEF OfSession, OneAtATime, Nobody, Open
<1>3. ASSUME NEW c \in Command, out' = Send(out, c), c \in Sent', c = Awaited',
             ble' \notin {"connecting", "writing"}
      PROVE  OfSession' /\ OneAtATime'
  <2>1. \A k \in 1 .. Len(out') :
          \/ k \in 1 .. Len(out) /\ out'[k] = out[k]
          \/ k = Len(out) + 1 /\ out'[k].cmd = c /\ out'[k].open = TRUE
    <3>1. out \in Seq(Sending)
      BY Queues
    <3>2. /\ Len(out) \in Nat
          /\ \A k \in 1 .. Len(out') :
               IF k <= Len(out) THEN out'[k] = out[k]
               ELSE k = Len(out) + 1 /\ out'[k].cmd = c /\ out'[k].open = TRUE
      BY <1>3, <3>1, SendIs
    <3> QED BY <3>2
  <2>2. OfSession'
    BY <1>1, <1>3, <2>1 DEF OfSession, Open
  <2>3. OneAtATime'
    BY <1>3, <2>1, EmptySeq DEF OneAtATime, Nobody, Open
  <2> QED BY <2>2, <2>3
<1> QED BY <1>2, <1>3

\* An answer that is taken for the awaited one is the awaited one.
LEMMA TakenInStep ==
  ASSUME Types, OneAtATime, in # <<>>, Taken(Awaited), UNCHANGED timedOut
  PROVE  ~timedOut' => ~mixed' /\ Nobody /\ Tail(in) = <<>>
BY OneAnswer DEF Taken

LEMMA LanStartsSession ==
  ASSUME Types, Running, LanPart(LanStarts)
  PROVE  OfSession' /\ OneAtATime'
<1>1. ble' = "off"
  BY DEF LanPart, LanStarts, Probe, Configure, Begin, bleVars, Running
<1> QED
  BY <1>1, SessionOpens
  DEF LanPart, LanStarts, Probe, Configure, Begin, OpenSession, NewSocket

LEMMA LanStepSession ==
  ASSUME Types, Running, OfSession, OneAtATime, LanPart(LanStep \/ GiveUp)
  PROVE  OfSession' /\ OneAtATime'
<1>0. ble = "off" /\ ble' = "off" /\ tool \in {"probe", "info", "configure"}
  BY DEF LanPart, LanStep, GiveUp, Probed, Greeted, Attached, NoAck, Commanded, bleVars, Running
<1>1. ASSUME NEW r \in {"done", "failed"}, Leave(r), ~timedOut' => ~mixed'
      PROVE  OfSession' /\ OneAtATime'
  BY <1>0, <1>1, SessionEnds DEF Leave
<1>2. ASSUME NEW j, OpenSession(j), ~timedOut' => ~mixed'
      PROVE  OfSession' /\ OneAtATime'
  BY <1>0, <1>2, SessionOpens DEF OpenSession, NewSocket
<1>3. CASE Probed
  <2>1. Awaited = Plain("magic")
    BY <1>0, <1>3 DEF Probed, Awaited
  <2>2. ~timedOut' => ~mixed'
    BY <1>3, <2>1, TakenInStep DEF Probed
  <2> QED BY <1>1, <1>2, <1>3, <2>2 DEF Probed
<1>4. CASE Greeted
  <2>1. Awaited = Plain("magic") /\ Awaited' = Plain("attach")
    BY <1>0, <1>4 DEF Greeted, Awaited
  <2>2. Sent \subseteq Sent' /\ Plain("attach") \in Sent'
    BY <1>0, <1>4 DEF Greeted, Sent
  <2>3. ~timedOut' => ~mixed' /\ Nobody /\ in' = <<>>
    BY <1>4, <2>1, TakenInStep DEF Greeted
  <2>4. /\ out' = Send(out, Plain("attach")) /\ Plain("attach") \in Command
        /\ in' = Tail(in) /\ in # <<>>
    BY <1>4, PlainType DEF Greeted
  <2> QED BY <1>0, <2>1, <2>2, <2>3, <2>4, SessionGoesOn
<1>5. CASE Attached \/ NoAck
  <2> DEFINE c == Head(Commands(job))
  <2>0. /\ out' = Send(out, c) /\ phase = "attaching" /\ phase' = "commanding"
        /\ UNCHANGED <<job, wish, results>> /\ results = <<>>
        /\ \/ in # <<>> /\ in' = Tail(in)
           \/ in' = in
    BY <1>5 DEF Attached, NoAck, FirstCommand, Running
  <2>1. job \in {"info", "configure", "reboot"} /\ (job = "configure" => wish \in Wishes)
    BY <2>0 DEF Types, LanTypeOK, Running
  <2>2. Len(results') + 1 = 1 /\ Commands(job)' = Commands(job) /\ c = Commands(job)[1]
    BY <2>0, <2>1, EmptySeq, CommandsAre DEF Commands
  <2>3. c \in Command
    <3>1. 1 \in 1 .. Len(Commands(job))
      BY <2>1, CommandsType
    <3> QED BY <2>1, <2>2, <3>1, CommandsType
  <2>4. Awaited = Plain("attach") /\ Awaited' = c
    BY <1>0, <2>0, <2>2 DEF Awaited
  <2>5. Sent \subseteq Sent' /\ c \in Sent'
    BY <1>0, <2>0, <2>2 DEF Sent
  <2>6. ~timedOut' => ~mixed' /\ Nobody /\ in' = <<>>
    BY <1>5, <2>4, TakenInStep DEF Attached, NoAck
  <2> HIDE DEF c
  <2> QED BY <1>0, <2>0, <2>3, <2>4, <2>5, <2>6, SessionGoesOn
<1>6. CASE Commanded
  <2> DEFINE rs == Append(results, Head(in).text)
             c == Commands(job)[Len(rs) + 1]
  <2>0. phase = "commanding" /\ Awaited = Commands(job)[Len(results) + 1] /\ in # <<>>
    BY <1>0, <1>6 DEF Commanded, Awaited
  <2>1. ~timedOut' => ~mixed' /\ Nobody /\ Tail(in) = <<>>
    BY <1>6, <2>0, TakenInStep DEF Commanded
  <2>2. CASE Len(rs) = Len(Commands(job))
    BY <1>1, <1>2, <1>6, <2>1, <2>2 DEF Commanded, Concluded
  <2>3. CASE Len(rs) # Len(Commands(job))
    <3>1. /\ results' = rs /\ in' = Tail(in) /\ out' = Send(out, c)
          /\ UNCHANGED <<phase, job, wish>>
      BY <1>6, <2>3 DEF Commanded
    <3>2. results \in Seq({a.text : a \in Answer}) /\ Head(in).text \in {a.text : a \in Answer}
      BY <2>0, AnswerTaken DEF Types, LanTypeOK
    <3>3. Len(rs) = Len(results) + 1 /\ Len(results) \in Nat
      BY <3>2, AppendProperties, LenProperties
    <3>4. Commands(job)' = Commands(job)
      BY <3>1 DEF Commands
    <3> HIDE DEF rs
    <3>5. c \in Command
      <4>1. Len(rs) + 1 \in 1 .. Len(Commands(job))
        BY <2>0, <2>3, <3>3, NextCommandType
      <4> QED BY <2>0, <4>1, NextCommandType
    <3>6. Awaited' = c
      BY <1>0, <2>0, <3>1, <3>4 DEF Awaited
    <3>7. Sent \subseteq Sent' /\ c \in Sent'
      BY <1>0, <2>0, <3>1, <3>3, <3>4 DEF Sent
    <3> HIDE DEF c
    <3> QED BY <1>0, <2>0, <2>1, <3>1, <3>5, <3>6, <3>7, SessionGoesOn
  <2> QED BY <2>2, <2>3
<1>7. CASE GiveUp
  <2>1. ~timedOut' => ~mixed'
    BY <1>7 DEF GiveUp, OneAtATime
  <2> QED BY <1>1, <1>7, <2>1 DEF GiveUp
<1> QED BY <1>3, <1>4, <1>5, <1>6, <1>7 DEF LanPart, LanStep

LEMMA BleStartsSession ==
  ASSUME Types, Running, OfSession, OneAtATime, BlePart(BleStarts)
  PROVE  OfSession' /\ OneAtATime'
<1>1. PICK w \in Wishes : Provision(w) \/ Panic(w)
  BY DEF BlePart, BleStarts
<1>2. UNCHANGED phase /\ phase = "idle" /\ ble = "off"
  BY <1>1 DEF BlePart, lanVars, Provision, Panic, Begin, Running
<1>3. Nobody /\ Len(in) = 0
  <2>1. Sent = {}
    BY <1>2 DEF Sent
  <2>2. Len(in) \in Nat /\ ~(1 \in 1 .. Len(in))
    BY <2>1, Queues DEF OfSession
  <2> QED BY <2>1, <2>2 DEF OfSession, Nobody
<1>4. CASE Provision(w)
  <2>1. in' = <<>> /\ out' = out /\ ~mixed' /\ Len(in') = 0
    BY <1>4, EmptySeq DEF Provision, Begin
  <2> QED BY <1>3, <2>1 DEF OfSession, OneAtATime, Nobody, Open
<1>5. CASE Panic(w)
  <2>1. in' = in /\ out' = out /\ ble' = "off" /\ UNCHANGED <<mixed, timedOut>>
    BY <1>2, <1>5 DEF Panic, moduleVars, bleVars
  <2> QED BY <1>2, <1>3, <2>1 DEF OfSession, OneAtATime, Nobody, Open, Sent, Awaited
<1> QED BY <1>1, <1>4, <1>5

LEMMA BleStepSession ==
  ASSUME Types, Running, OfSession, OneAtATime, BlePart(BleStep)
  PROVE  OfSession' /\ OneAtATime'
<1>0. /\ ble # "off" /\ phase = "idle" /\ phase' = "idle"
      /\ Request \in Command /\ Awaited = Request
      /\ Sent = {Steps(wish)[j] : j \in 1 .. step} /\ step \in 1 .. 9
  <2>1. ble # "off" /\ phase = "idle" /\ phase' = phase
    BY DEF Running, BlePart, BleStep, Connected, NotConnected, Write, WriteFails, Notified,
           Unanswered, lanVars
  <2> QED BY <2>1, RequestType DEF Awaited, Sent
<1>1. ASSUME in' = <<>>, out' = Closed(out), ble' = "off", ~timedOut' => ~mixed'
      PROVE  OfSession' /\ OneAtATime'
  BY <1>0, <1>1, SessionEnds
<1>2. CASE Connected
  BY <1>2 DEF Connected, moduleVars, toolVars, OfSession, OneAtATime, Sent, Awaited, Request,
              Nobody, Open
<1>3. CASE NotConnected \/ WriteFails
  BY <1>1, <1>3 DEF NotConnected, WriteFails, Abandon, OneAtATime
<1>4. CASE Write
  <2>1. /\ out' = Send(out, Request) /\ in' = in /\ ble' = "waiting"
        /\ Sent' = Sent /\ Awaited' = Request
    BY <1>4 DEF Write, Sent, Awaited, Request, toolVars
  <2>2. Request \in Sent
    BY <1>0 DEF Request
  <2>3. ~timedOut' => Nobody /\ in' = <<>> /\ ~mixed'
    BY <1>4 DEF Write, OneAtATime, toolVars
  <2> QED BY <1>0, <2>1, <2>2, <2>3, SessionGoesOn
<1>5. CASE Notified
  <2>1. ~timedOut' => ~mixed' /\ Nobody /\ Tail(in) = <<>>
    BY <1>0, <1>5, TakenInStep DEF Notified
  <2>2. ASSUME NEW r \in {"done", "failed"}, Disconnect(r) PROVE OfSession' /\ OneAtATime'
    BY <1>1, <2>1, <2>2 DEF Disconnect
  <2>3. ASSUME out' = out, UNCHANGED <<tool, wish>>, ble' = "writing", step' \in {step, step + 1}
        PROVE  OfSession' /\ OneAtATime'
    <3>1. in' = Tail(in) /\ in # <<>>
      BY <1>5, <2>3 DEF Notified
    <3>2. Sent' = {Steps(wish)[j] : j \in 1 .. step'}
      BY <2>3 DEF Sent
    <3>3. Sent \subseteq Sent'
      BY <1>0, <2>3, <3>2
    <3> QED BY <2>1, <2>3, <3>1, <3>3, SessionGoesOn
  <2> QED BY <1>5, <2>2, <2>3 DEF Notified, NextStep, Retry
<1>6. CASE Unanswered
  <2>1. CASE Disconnect("failed")
    BY <1>1, <1>6, <2>1 DEF Disconnect, Unanswered
  <2>2. CASE /\ attempt' = attempt + 1
             /\ ble' = "writing"
             /\ UNCHANGED <<step, connected, out, tool, wish, report>>
    <3>1. in' = in /\ timedOut' = TRUE /\ Sent' = Sent
      BY <1>0, <1>6, <2>2 DEF Unanswered, Sent
    <3> QED BY <2>2, <3>1, SessionGoesOn
  <2> QED BY <1>6, <2>1, <2>2 DEF Unanswered, Retry
<1> QED BY <1>2, <1>3, <1>4, <1>5, <1>6 DEF BlePart, BleStep

Texts == {"ip,mac,model", "a", "+ok", "+ok=", "+ERR"}

LEMMA AnswerCarried ==
  ASSUME NEW q \in Seq(Answer), NEW c \in Command, NEW t \in Texts
  PROVE  LET r == Carry(q, [to |-> c, text |-> t]) IN
         /\ Len(r) \in {Len(q), Len(q) + 1}
         /\ \A k \in 1 .. Len(r) :
              \/ k \in 1 .. Len(q) /\ r[k] = q[k]
              \/ k = Len(q) + 1 /\ r[k].to = c /\ r[k].text = t
<1> DEFINE a == [to |-> c, text |-> t]
<1>1. a \in Answer /\ a.to = c /\ a.text = t
  BY DEF Answer, Texts
<1> HIDE DEF a
<1>2. /\ Len(q) \in Nat /\ Len(Carry(q, a)) \in {Len(q), Len(q) + 1}
      /\ \A k \in 1 .. Len(Carry(q, a)) :
           IF k <= Len(q) THEN Carry(q, a)[k] = q[k]
           ELSE k = Len(q) + 1 /\ Carry(q, a)[k] = a
  BY <1>1, CarryIs
<1>3. \A k \in 1 .. Len(Carry(q, a)) :
        \/ k \in 1 .. Len(q) /\ Carry(q, a)[k] = q[k]
        \/ k = Len(q) + 1 /\ Carry(q, a)[k].to = c /\ Carry(q, a)[k].text = t
  BY <1>1, <1>2
<1> QED BY <1>2, <1>3 DEF a

\* What a step of the module does to the two queues.
LEMMA ModuleQueues ==
  ASSUME Types, ModuleStep
  PROVE  /\ Len(out) \in Nat /\ 1 \in 1 .. Len(out) /\ Head(out) = out[1] /\ out[1] \in Sending
         /\ Len(out') = Len(out) - 1
         /\ \A k \in 1 .. Len(out') :
              k + 1 \in 1 .. Len(out) /\ k + 1 # 1 /\ out'[k] = out[k + 1]
         /\ \/ in' = in
            \/ /\ out[1].open
               /\ Len(in') \in {Len(in), Len(in) + 1}
               /\ \A k \in 1 .. Len(in') :
                    \/ k \in 1 .. Len(in) /\ in'[k] = in[k]
                    \/ /\ k = Len(in) + 1 /\ in'[k].to = out[1].cmd
                       /\ \/ in'[k].text = "+ERR" /\ Refuse
                          \/ in'[k].text = Text(out[1].cmd) /\ Obey
<1>1. /\ out # <<>> /\ out' = Tail(out)
      /\ \/ in' = in
         \/ /\ Head(out).open
            /\ \/ in' = Carry(in, [to |-> Head(out).cmd, text |-> "+ERR"]) /\ Refuse
               \/ in' = Carry(in, [to |-> Head(out).cmd, text |-> Text(Head(out).cmd)]) /\ Obey
  BY DEF ModuleStep, Obey, Refuse, Ignore, Reply
<1>2. /\ Len(out) \in Nat /\ Len(out) > 0 /\ Head(out) = out[1] /\ Len(out') = Len(out) - 1
      /\ \A k \in 1 .. Len(out') : k + 1 \in 1 .. Len(out) /\ out'[k] = out[k + 1]
  BY <1>1, Queues, TailIs
<1>3. 1 \in 1 .. Len(out) /\ out[1] \in Sending /\ out[1].cmd \in Command
  BY <1>2, Queues DEF Sending
<1>4. \A k \in 1 .. Len(out') : k + 1 # 1
  OBVIOUS
<1>5. "+ERR" \in Texts /\ Text(out[1].cmd) \in Texts
  BY DEF Text, Texts
<1>6. in \in Seq(Answer)
  BY Queues
<1>7. ASSUME NEW t \in Texts, in' = Carry(in, [to |-> out[1].cmd, text |-> t])
      PROVE  /\ Len(in') \in {Len(in), Len(in) + 1}
             /\ \A k \in 1 .. Len(in') :
                  \/ k \in 1 .. Len(in) /\ in'[k] = in[k]
                  \/ k = Len(in) + 1 /\ in'[k].to = out[1].cmd /\ in'[k].text = t
  BY <1>3, <1>6, <1>7, AnswerCarried
<1>8. CASE in' = Carry(in, [to |-> out[1].cmd, text |-> "+ERR"]) /\ Refuse /\ out[1].open
  BY <1>2, <1>3, <1>4, <1>5, <1>7, <1>8
<1>9. CASE in' = Carry(in, [to |-> out[1].cmd, text |-> Text(out[1].cmd)]) /\ Obey /\ out[1].open
  BY <1>2, <1>3, <1>4, <1>5, <1>7, <1>9
<1>10. CASE in' = in
  BY <1>2, <1>3, <1>4, <1>10
<1> QED BY <1>1, <1>2, <1>8, <1>9, <1>10

\* The module answers what is open; what it has handled is off the way.
LEMMA ModuleSession ==
  ASSUME Types, OfSession, OneAtATime,
         UNCHANGED <<toolVars, lanVars, ble, step>>, ModuleStep \/ PowerCycle
  PROVE  OfSession' /\ OneAtATime'
<1>1. Sent' = Sent /\ Awaited' = Awaited
  BY DEF Sent, Awaited, Request, Commands, toolVars, lanVars
<1>2. UNCHANGED <<mixed, timedOut, ble>>
  BY DEF toolVars
<1>3. CASE PowerCycle
  <2>1. out' = <<>> /\ in' = in /\ Len(out') = 0
    BY <1>3, EmptySeq DEF PowerCycle
  <2> QED BY <1>1, <1>2, <2>1 DEF OfSession, OneAtATime, Nobody, Open
<1>4. CASE ModuleStep
  <2>2. /\ Len(out) \in Nat /\ 1 \in 1 .. Len(out) /\ out[1] \in Sending
        /\ Len(out') = Len(out) - 1
        /\ \A k \in 1 .. Len(out') :
             k + 1 \in 1 .. Len(out) /\ k + 1 # 1 /\ out'[k] = out[k + 1]
    BY <1>4, ModuleQueues
  <2>7. \A k \in 1 .. Len(out') :
          /\ k + 1 \in 1 .. Len(out) /\ (Open(k)' <=> Open(k + 1)) /\ out'[k].cmd = out[k + 1].cmd
          /\ Open(k)' => out'[k].cmd \in Sent
    BY <2>2 DEF OfSession, Open
  <2>8. Nobody => Nobody'
    BY <2>7 DEF Nobody
  <2>9. ASSUME ~timedOut, NEW j \in 1 .. Len(out'), NEW k \in 1 .. Len(out'), Open(j)', Open(k)'
        PROVE  j = k /\ out'[k].cmd = Awaited
    <3>1. /\ j + 1 \in 1 .. Len(out) /\ Open(j + 1) /\ k + 1 \in 1 .. Len(out) /\ Open(k + 1)
          /\ out'[k].cmd = out[k + 1].cmd
      BY <2>7, <2>9
    <3>2. j + 1 = k + 1 /\ out[k + 1].cmd = Awaited
      BY <2>9, <3>1 DEF OneAtATime
    <3> QED BY <3>1, <3>2
  <2>5. CASE in' = in
    <3>1. OfSession'
      BY <1>1, <2>5, <2>7 DEF OfSession
    <3>2. OneAtATime'
      BY <1>1, <1>2, <2>5, <2>8, <2>9 DEF OneAtATime
    <3> QED BY <3>1, <3>2
  <2>6. ASSUME out[1].open, Len(in') \in {Len(in), Len(in) + 1},
               \A k \in 1 .. Len(in') :
                 \/ k \in 1 .. Len(in) /\ in'[k] = in[k]
                 \/ k = Len(in) + 1 /\ in'[k].to = out[1].cmd
        PROVE  OfSession' /\ OneAtATime'
    <3>1. Open(1) /\ out[1].cmd \in Sent
      BY <2>2, <2>6 DEF Open, OfSession
    <3>2. \A k \in 1 .. Len(in') : in'[k].to \in Sent
      BY <2>6, <3>1 DEF OfSession
    <3>3. OfSession'
      BY <1>1, <2>7, <3>2 DEF OfSession
    <3>4. ASSUME ~timedOut PROVE OneAtATime'
      <4>1. in = <<>> /\ Len(in) = 0 /\ out[1].cmd = Awaited
        BY <2>2, <3>1, <3>4, EmptySeq DEF OneAtATime, Nobody
      <4>2. Nobody'
        BY <2>2, <2>7, <3>1, <3>4 DEF OneAtATime, Nobody
      <4>3. Len(in') <= 1 /\ \A k \in 1 .. Len(in') : in'[k].to = Awaited
        BY <2>6, <4>1
      <4>4. ble \notin {"connecting", "writing"}
        BY <2>2, <3>1, <3>4 DEF OneAtATime, Nobody
      <4> QED
        BY <1>1, <1>2, <2>9, <3>4, <4>2, <4>3, <4>4 DEF OneAtATime
    <3> QED BY <1>2, <3>3, <3>4 DEF OneAtATime
  <2> QED BY <1>4, <2>5, <2>6, ModuleQueues
<1> QED BY <1>3, <1>4

\* Between commands, and during a discovery, nothing can be answered.
LEMMA AtRest ==
  ASSUME Types, OfSession, phase = "idle", ble = "off"
  PROVE  Nobody /\ in = <<>> /\ Len(in) = 0
<1>1. Sent = {}
  BY DEF Sent
<1>2. ~(1 \in 1 .. Len(in))
  BY <1>1 DEF OfSession
<1>3. in = <<>> /\ Len(in) = 0
  BY <1>2, Queues
<1> QED BY <1>1, <1>3 DEF OfSession, Nobody

LEMMA ScanSession ==
  ASSUME Types, Running, OfSession, OneAtATime,
         ScanPart(Scan("scan") \/ Scan("autodiscover") \/ ScanStep \/ \E m \in Macs : Answered(m))
  PROVE  OfSession' /\ OneAtATime'
<1>0. UNCHANGED <<moduleVars, lanVars, bleVars>>
  BY DEF ScanPart
<1>1. CASE Scan("scan") \/ Scan("autodiscover")
  <2>1. phase = "idle" /\ ble = "off" /\ ~mixed' /\ UNCHANGED <<in, out, phase, ble>>
    BY <1>0, <1>1 DEF Scan, Begin, Running, moduleVars, lanVars, bleVars
  <2>2. Nobody /\ Len(in) = 0 /\ in = <<>>
    BY <2>1, AtRest
  <2> QED BY <2>1, <2>2 DEF OfSession, OneAtATime, Nobody, Open
<1>2. CASE ScanStep \/ \E m \in Macs : Answered(m)
  <2>1. UNCHANGED <<wish, mixed, timedOut>>
    BY <1>2
    DEF ScanStep, Answered, Broadcast, BroadcastFails, Heard, Silence, Pause, ScanFailed,
        ScanOver, End, toolVars
  <2>2. Sent' = Sent /\ Awaited' = Awaited
    BY <1>0, <2>1 DEF Sent, Awaited, Request, Commands, lanVars, bleVars
  <2> QED
    BY <1>0, <2>1, <2>2 DEF OfSession, OneAtATime, Nobody, Open, moduleVars, bleVars
<1> QED BY <1>1, <1>2 DEF ScanPart

\* Every step keeps a session to its own commands and, without a wait in vain, to one at a time.
LEMMA SessionStep ==
  TypeOK /\ Running /\ OfSession /\ OneAtATime /\ [Next]_vars => OfSession' /\ OneAtATime'
<1> SUFFICES ASSUME TypeOK, Running, OfSession, OneAtATime, [Next]_vars
             PROVE  OfSession' /\ OneAtATime'
  OBVIOUS
<1>0. Types
  BY DEF TypeOK, Types
<1>1. CASE UserStarts
  BY <1>0, <1>1, LanStartsSession, BleStartsSession, ScanSession
  DEF UserStarts, LanPart, BlePart, ScanPart
<1>2. CASE Working
  BY <1>0, <1>2, LanStepSession, BleStepSession, ScanSession DEF Working, ScanPart
<1>3. CASE Surroundings
  BY <1>0, <1>3, ModuleSession, ScanSession DEF Surroundings, ScanPart, bleVars
<1>4. CASE UNCHANGED vars
  BY <1>4 DEF vars, moduleVars, toolVars, lanVars, bleVars, OfSession, OneAtATime, Nobody, Open,
              Sent, Awaited, Request, Commands
<1> QED BY <1>1, <1>2, <1>3, <1>4 DEF Next

LEMMA SessionInit == Init => OfSession /\ OneAtATime
<1> SUFFICES ASSUME Init PROVE OfSession /\ OneAtATime
  OBVIOUS
<1>1. Nobody
  <2>1. CASE out = <<>>
    BY <2>1, EmptySeq DEF Nobody
  <2>2. CASE \E c : out = <<[cmd |-> c, open |-> FALSE]>>
    BY <2>2 DEF Nobody, Open
  <2> QED BY <2>1, <2>2 DEF Init, ModuleInit, Remains
<1>2. Len(in) = 0 /\ in = <<>> /\ ~mixed
  BY EmptySeq DEF Init, ModuleInit, ToolInit
<1> QED BY <1>1, <1>2 DEF OfSession, OneAtATime, Nobody

\* An answer is taken for the answer to another command only after the running command has
\* gone on without waiting for one (lan.rs:183-184): until then what it reads is the answer
\* to what it sent last, whatever is left on the way from earlier commands.
THEOREM SetupInStep == Spec => []InStep
<1>1. OneAtATime => InStep
  BY DEF OneAtATime, InStep
<1> QED BY <1>1, SessionInit, SessionStep, SetupTypes, PTL DEF Spec

-----------------------------------------------------------------------------
(* What an answer is worth *)

\* What earlier commands left on the way is handled before what the session sends, so that
\* once there is an answer nothing of it is left.
LeftoversFirst ==
  /\ \A j, k \in 1 .. Len(out) : j < k /\ ~Open(k) => ~Open(j)
  /\ (\E k \in 1 .. Len(out) : ~Open(k)) =>
       in = <<>> /\ results = <<>> /\ (ble # "off" => step = 1)

\* A module that left AT mode does not come back to it in this session.
Doomed == ~at_mode /\ \A k \in 1 .. Len(out) : out[k].cmd.op \notin {"attach", "confirm"}

\* The setting is what the user asked for, or can be saved no more.
InUse(i) == config[i] = wish \/ Doomed

\* Everything the user asked for is in flash, and nothing else is on the way.
Sealed ==
  /\ Flashed
  /\ config = flash
  /\ \A k \in 1 .. Len(out) : out[k].cmd.op = "set" => out[k].cmd.value = wish

\* The settings this command was told are set, and whether it was told so of all.
Accepted ==
  IF ble # "off" THEN {Steps(wish)[j].item : j \in {x \in 4 .. 7 : x < step}}
  ELSE IF phase = "commanding" /\ job = "configure"
  THEN {Commands(job)[j].item : j \in {x \in 1 .. Len(results) : Good(results[x])}}
  ELSE {}
AllAccepted == IF ble # "off" THEN TRUE ELSE AllGood(results)

AnswerIsTrue(a) ==
  /\ a.to.op = "mac" => a.text # "+ok"
  /\ ~mixed /\ Good(a.text) /\ a.to.op = "set" => InUse(a.to.item)
  /\ ~mixed /\ Good(a.text) /\ a.to.op = "save" /\ AllAccepted => Sealed
AnswersAreTrue == \A k \in 1 .. Len(in) : AnswerIsTrue(in[k])

\* What follows from the answers that were read.
Kept ==
  ~mixed =>
    /\ \A i \in Accepted : InUse(i)
    /\ tool = "provision" /\ step > 3 => mac_address
    /\ tool = "provision" /\ step > 8 => Sealed
    /\ phase # "idle" /\ job = "reboot" => Sealed
    /\ report = "done" /\ wish # Factory => Sealed

Truth == LeftoversFirst /\ AnswersAreTrue /\ Kept

LEMMA FieldsAre ==
  ASSUME NEW o, NEW i, NEW w
  PROVE  /\ Plain(o).op = o /\ Read(i).op = "read"
         /\ Set(i, w).op = "set" /\ Set(i, w).item = i /\ Set(i, w).value = w
BY DEF Plain, Read, Set

LEMMA StepKinds ==
  ASSUME NEW w, NEW j \in 1 .. 9
  PROVE  LET c == Steps(w)[j] IN
         /\ c.op = "set" <=> j \in 4 .. 7
         /\ c.op = "set" => c.value = w /\ c.item \in Items
         /\ c.op = "save" <=> j = 8
         /\ c.op = "reboot" <=> j = 9
         /\ c.op = "mac" <=> j = 3
         /\ c.op = "confirm" <=> j = 2
         /\ c.op # "attach"
<1>0. /\ Steps(w)[1] = Plain("plus") /\ Steps(w)[2] = Plain("confirm")
      /\ Steps(w)[3] = Plain("mac") /\ Steps(w)[4] = Set("ssid", w)
      /\ Steps(w)[5] = Set("key", w) /\ Steps(w)[6] = Set("server", w)
      /\ Steps(w)[7] = Set("mode", w) /\ Steps(w)[8] = Plain("save")
      /\ Steps(w)[9] = Plain("reboot")
  BY StepsAre
<1>1. CASE j = 1
  BY <1>0, <1>1, FieldsAre DEF Items
<1>2. CASE j = 2
  BY <1>0, <1>2, FieldsAre DEF Items
<1>3. CASE j = 3
  BY <1>0, <1>3, FieldsAre DEF Items
<1>4. CASE j = 4
  BY <1>0, <1>4, FieldsAre DEF Items
<1>5. CASE j = 5
  BY <1>0, <1>5, FieldsAre DEF Items
<1>6. CASE j = 6
  BY <1>0, <1>6, FieldsAre DEF Items
<1>7. CASE j = 7
  BY <1>0, <1>7, FieldsAre DEF Items
<1>8. CASE j = 8
  BY <1>0, <1>8, FieldsAre DEF Items
<1>9. CASE j = 9
  BY <1>0, <1>9, FieldsAre DEF Items
<1> QED BY <1>1, <1>2, <1>3, <1>4, <1>5, <1>6, <1>7, <1>8, <1>9

LEMMA InfoKinds ==
  ASSUME NEW j \in 1 .. 5
  PROVE  Commands("info")[j].op \in {"mac", "read"}
<1>0. /\ Commands("info")[1] = Plain("mac") /\ Commands("info")[2] = Read("ssid")
      /\ Commands("info")[3] = Read("key") /\ Commands("info")[4] = Read("server")
      /\ Commands("info")[5] = Read("mode")
  BY CommandsAre
<1>1. CASE j = 1
  BY <1>0, <1>1, FieldsAre
<1>2. CASE j = 2
  BY <1>0, <1>2, FieldsAre
<1>3. CASE j = 3
  BY <1>0, <1>3, FieldsAre
<1>4. CASE j = 4
  BY <1>0, <1>4, FieldsAre
<1>5. CASE j = 5
  BY <1>0, <1>5, FieldsAre
<1> QED BY <1>1, <1>2, <1>3, <1>4, <1>5

LEMMA ConfigureKinds ==
  ASSUME NEW j \in 1 .. 5
  PROVE  LET c == Commands("configure")[j] IN
         /\ c.op \in {"set", "save"}
         /\ c.op = "set" => c.value = wish /\ c.item \in Items
         /\ c.op = "save" <=> j = 5
<1>0. /\ Commands("configure")[1] = Set("ssid", wish)
      /\ Commands("configure")[2] = Set("key", wish)
      /\ Commands("configure")[3] = Set("server", wish)
      /\ Commands("configure")[4] = Set("mode", wish)
      /\ Commands("configure")[5] = Plain("save")
  BY CommandsAre
<1>1. CASE j = 1
  BY <1>0, <1>1, FieldsAre DEF Items
<1>2. CASE j = 2
  BY <1>0, <1>2, FieldsAre DEF Items
<1>3. CASE j = 3
  BY <1>0, <1>3, FieldsAre DEF Items
<1>4. CASE j = 4
  BY <1>0, <1>4, FieldsAre DEF Items
<1>5. CASE j = 5
  BY <1>0, <1>5, FieldsAre DEF Items
<1> QED BY <1>1, <1>2, <1>3, <1>4, <1>5

\* A command of a session says how far the session is.
LEMMA SentAre ==
  ASSUME Types, Running, NEW c \in Sent
  PROVE  /\ c.op = "set" => /\ c.value = wish /\ c.item \in Items
                            /\ \/ ble # "off" /\ step >= 4
                               \/ ble = "off" /\ phase = "commanding" /\ job = "configure"
         /\ c.op = "save" => \/ ble # "off" /\ step >= 8
                             \/ /\ ble = "off" /\ phase = "commanding" /\ job = "configure"
                                /\ Len(results) >= 4
         /\ c.op = "reboot" => \/ ble # "off" /\ step > 8
                               \/ ble = "off" /\ phase = "commanding" /\ job = "reboot"
         /\ c.op = "confirm" => ble # "off" /\ step >= 2
<1>1. CASE ble # "off"
  <2>1. PICK j \in 1 .. step : c = Steps(wish)[j]
    BY <1>1 DEF Sent
  <2>2. step \in 1 .. 9
    BY DEF Types, BleTypeOK
  <2>3. j \in 1 .. 9 /\ j <= step
    BY <2>2
  <2> QED BY <1>1, <2>1, <2>2, <2>3, StepKinds
<1>2. CASE ble = "off"
  <2>1. CASE phase = "commanding"
    <3>1. CASE c \in {Plain("magic"), Plain("attach")}
      BY <3>1 DEF Plain
    <3>2. ASSUME NEW j \in 1 .. Len(results) + 1, c = Commands(job)[j]
          PROVE  /\ c.op = "set" => c.value = wish /\ c.item \in Items /\ job = "configure"
                 /\ c.op = "save" => job = "configure" /\ Len(results) >= 4
                 /\ c.op = "reboot" => job = "reboot"
                 /\ c.op # "confirm"
      <4>1. Len(results) \in Nat /\ Len(results) + 1 \in 1 .. Len(Commands(job))
        BY <2>1, NextCommandType
      <4>2. job \in {"info", "configure", "reboot"}
        BY DEF Types, LanTypeOK
      <4>3. CASE job = "info"
        <5>1. j \in 1 .. 5
          <6>1. Len(Commands(job)) = 5
            BY <4>3, CommandsAre
          <6> QED BY <4>1, <6>1
        <5> QED BY <3>2, <4>3, <5>1, InfoKinds
      <4>4. CASE job = "configure"
        <5>1. j \in 1 .. 5 /\ j <= Len(results) + 1
          <6>1. Len(Commands(job)) = 5
            BY <4>4, CommandsAre
          <6> QED BY <4>1, <6>1
        <5> QED BY <3>2, <4>1, <4>4, <5>1, ConfigureKinds
      <4>5. CASE job = "reboot"
        BY <3>2, <4>1, <4>5, CommandsAre DEF Plain
      <4> QED BY <4>2, <4>3, <4>4, <4>5
    <3>3. Sent = {Plain("magic"), Plain("attach")}
                   \cup {Commands(job)[j] : j \in 1 .. Len(results) + 1}
      BY <1>2, <2>1 DEF Sent
    <3> QED BY <1>2, <2>1, <3>1, <3>2, <3>3
  <2>2. CASE phase # "commanding"
    <3>1. c \in {Plain("magic"), Plain("attach")}
      BY <1>2, <2>2 DEF Sent, Types, LanTypeOK
    <3> QED BY <3>1 DEF Plain
  <2> QED BY <2>1, <2>2
<1> QED BY <1>1, <1>2

\* What is in flash stays there whatever the module still obeys.
LEMMA SealedStays ==
  ASSUME Sealed, UNCHANGED <<config, flash, wish>>,
         \A k \in 1 .. Len(out') :
           \/ \E j \in 1 .. Len(out) : out'[k].cmd = out[j].cmd
           \/ out'[k].cmd.op = "set" => out'[k].cmd.value = wish
  PROVE  Sealed'
<1>1. Flashed' /\ config' = flash'
  BY DEF Sealed, Flashed
<1>2. \A k \in 1 .. Len(out') : out'[k].cmd.op = "set" => out'[k].cmd.value = wish'
  BY DEF Sealed
<1> QED BY <1>1, <1>2 DEF Sealed

\* A module out of AT mode stays out.
LEMMA DoomedStays ==
  ASSUME Doomed, ~at_mode',
         \A k \in 1 .. Len(out') :
           \/ \E j \in 1 .. Len(out) : out'[k].cmd = out[j].cmd
           \/ out'[k].cmd.op \notin {"attach", "confirm"}
  PROVE  Doomed'
BY DEF Doomed

\* The commands on the way when a session is over, and when another one has begun.
LEMMA CmdsClosed ==
  ASSUME Types
  PROVE  \A k \in 1 .. Len(Closed(out)) :
           /\ ~Closed(out)[k].open
           /\ \E j \in 1 .. Len(out) : Closed(out)[k].cmd = out[j].cmd
BY Queues, ClosedType

LEMMA CmdsAfresh ==
  ASSUME Types
  PROVE  \A k \in 1 .. Len(Send(Closed(out), Plain("magic"))) :
           \/ \E j \in 1 .. Len(out) : Send(Closed(out), Plain("magic"))[k].cmd = out[j].cmd
           \/ Send(Closed(out), Plain("magic"))[k].cmd.op = "magic"
<1> DEFINE c == Plain("magic")
           d == Closed(out)
<1>1. d \in Seq(Sending) /\ \A k \in 1 .. Len(d) : \E j \in 1 .. Len(out) : d[k].cmd = out[j].cmd
  BY Queues, ClosedType
<1>2. c \in Command /\ c.op = "magic"
  BY PlainType, FieldsAre
<1> HIDE DEF c, d
<1>3. /\ Len(d) \in Nat
      /\ \A k \in 1 .. Len(Send(d, c)) :
           IF k <= Len(d) THEN Send(d, c)[k] = d[k]
           ELSE k = Len(d) + 1 /\ Send(d, c)[k].cmd = c /\ Send(d, c)[k].open = TRUE
  BY <1>1, <1>2, SendIs
<1>4. ASSUME NEW k \in 1 .. Len(Send(d, c))
      PROVE  \/ \E j \in 1 .. Len(out) : Send(d, c)[k].cmd = out[j].cmd
             \/ Send(d, c)[k].cmd.op = "magic"
  <2>1. CASE k <= Len(d)
    <3>1. k \in 1 .. Len(d) /\ Send(d, c)[k] = d[k]
      BY <1>3, <2>1
    <3> QED BY <1>1, <3>1
  <2>2. CASE ~(k <= Len(d))
    BY <1>2, <1>3, <2>2
  <2> QED BY <2>1, <2>2
<1> QED BY <1>4 DEF c, d

\* A command ends; if it reports a success, that is one.
LEMMA TruthEnds ==
  ASSUME Types, in' = <<>>, results' = <<>>, phase' = "idle", ble' = "off", tool' = "none",
         out' = Closed(out), UNCHANGED <<config, flash, wish>>,
         ~mixed' /\ report' = "done" /\ wish # Factory => Sealed
  PROVE  Truth'
<1>1. Len(in') = 0
  BY EmptySeq
<1>2. \A k \in 1 .. Len(out') :
        ~Open(k)' /\ \E j \in 1 .. Len(out) : out'[k].cmd = out[j].cmd
  BY CmdsClosed DEF Open
<1>3. LeftoversFirst'
  BY <1>2 DEF LeftoversFirst
<1>4. AnswersAreTrue'
  BY <1>1 DEF AnswersAreTrue
<1>5. Accepted' = {}
  BY DEF Accepted
<1>6. ~mixed' /\ report' = "done" /\ wish' # Factory => Sealed'
  BY <1>2, SealedStays
<1>7. Kept'
  BY <1>5, <1>6 DEF Kept
<1> QED BY <1>3, <1>4, <1>7 DEF Truth

\* A session begins on a socket of its own.
LEMMA TruthOpens ==
  ASSUME Types, in' = <<>>, results' = <<>>, phase' \in {"probing", "greeting"}, ble' = "off",
         tool' # "provision", report' = "none",
         out' = Send(Closed(out), Plain("magic")),
         job' = "reboot" /\ ~mixed' => Sealed /\ UNCHANGED <<config, flash, wish>>
  PROVE  Truth'
<1>1. Len(in') = 0
  BY EmptySeq
<1>2. \A j, k \in 1 .. Len(out') : j < k /\ ~Open(k)' => ~Open(j)'
  BY Queues, SentAfresh DEF Open
<1>3. \A k \in 1 .. Len(out') :
        \/ \E j \in 1 .. Len(out) : out'[k].cmd = out[j].cmd
        \/ out'[k].cmd.op = "magic"
  BY CmdsAfresh
<1>4. LeftoversFirst'
  BY <1>2 DEF LeftoversFirst
<1>5. AnswersAreTrue'
  BY <1>1 DEF AnswersAreTrue
<1>6. Accepted' = {}
  BY DEF Accepted
<1>7. job' = "reboot" /\ ~mixed' => Sealed'
  BY <1>3, SealedStays
<1>8. Kept'
  BY <1>6, <1>7 DEF Kept
<1> QED BY <1>4, <1>5, <1>8 DEF Truth

\* A session goes on: it takes an answer or not, and sends a command or not.
LEMMA TruthGoesOn ==
  ASSUME Types, OfSession, Truth,
         UNCHANGED <<config, flash, at_mode, wish, tool, report, job>>, ~mixed' => ~mixed,
         in' = in \/ (in # <<>> /\ in' = Tail(in)),
         \/ out' = out
         \/ \E c \in Command :
              /\ out' = Send(out, c)
              /\ c.op = "set" => c.value = wish
              /\ c.op \in {"attach", "confirm"} => Accepted' = {} /\ \A d \in Sent : d.op # "set",
         AllAccepted' => AllAccepted,
         ~mixed' => \A i \in Accepted' : i \in Accepted \/ InUse(i),
         ~mixed' /\ tool = "provision" /\ step' > 3 => mac_address',
         ~mixed' /\ tool = "provision" /\ step' > 8 => Sealed,
         phase' # "idle" => phase # "idle",
         (\E k \in 1 .. Len(out) : ~Open(k)) =>
           in' = <<>> /\ results' = <<>> /\ (ble' # "off" => step' = 1)
  PROVE  Truth'
<1> DEFINE back == Accepted' = {} /\ \A d \in Sent : d.op # "set"
<1>1. \A k \in 1 .. Len(in') : \E j \in 1 .. Len(in) : in'[k] = in[j]
  BY Queues, TailIs
<1>2. /\ \A k \in 1 .. Len(out') :
           \/ \E j \in 1 .. Len(out) : out'[k].cmd = out[j].cmd
           \/ /\ out'[k].cmd.op = "set" => out'[k].cmd.value = wish
              /\ out'[k].cmd.op \in {"attach", "confirm"} => back
      /\ \A j, k \in 1 .. Len(out') : j < k /\ ~Open(k)' => ~Open(j)'
      /\ (\E k \in 1 .. Len(out') : ~Open(k)') => \E k \in 1 .. Len(out) : ~Open(k)
  <2>1. CASE out' = out
    BY <2>1 DEF Truth, LeftoversFirst, Open
  <2>2. ASSUME NEW c \in Command, out' = Send(out, c), c.op = "set" => c.value = wish,
               c.op \in {"attach", "confirm"} => back
        PROVE  <1>2!1 /\ <1>2!2 /\ <1>2!3
    <3> HIDE DEF back
    <3>1. out \in Seq(Sending)
      BY Queues
    <3>2. /\ Len(out) \in Nat
          /\ \A k \in 1 .. Len(out') :
               IF k <= Len(out) THEN out'[k] = out[k]
               ELSE k = Len(out) + 1 /\ out'[k].cmd = c /\ out'[k].open = TRUE
      BY <2>2, <3>1, SendIs
    <3>3. \A k \in 1 .. Len(out') :
            \/ k \in 1 .. Len(out) /\ out'[k] = out[k]
            \/ k = Len(out) + 1 /\ out'[k].cmd = c /\ out'[k].open
      BY <3>2
    <3>4. \A k \in 1 .. Len(out') : ~Open(k)' => k \in 1 .. Len(out) /\ ~Open(k)
      BY <3>3 DEF Open
    <3>5. ASSUME NEW j \in 1 .. Len(out'), NEW k \in 1 .. Len(out'), j < k, ~Open(k)'
          PROVE  ~Open(j)'
      <4>1. k \in 1 .. Len(out) /\ ~Open(k)
        BY <3>4, <3>5
      <4>2. j \in 1 .. Len(out) /\ out'[j] = out[j]
        BY <3>2, <3>3, <3>5, <4>1
      <4> QED BY <3>5, <4>1, <4>2 DEF Truth, LeftoversFirst, Open
    <3>6. <1>2!1
      BY <2>2, <3>3
    <3> QED BY <3>4, <3>5, <3>6
  <2> QED BY <2>1, <2>2
<1>3. LeftoversFirst'
  BY <1>2 DEF LeftoversFirst
<1>4. Sealed => Sealed'
  <2>1. \A k \in 1 .. Len(out') :
          \/ \E j \in 1 .. Len(out) : out'[k].cmd = out[j].cmd
          \/ out'[k].cmd.op = "set" => out'[k].cmd.value = wish
    BY <1>2
  <2> QED BY <2>1, SealedStays
<1>5. ASSUME NEW i, InUse(i), ~back PROVE InUse(i)'
  <2> HIDE DEF back
  <2>1. CASE config[i] = wish
    BY <2>1 DEF InUse
  <2>2. CASE Doomed
    <3>1. \A k \in 1 .. Len(out') :
            \/ \E j \in 1 .. Len(out) : out'[k].cmd = out[j].cmd
            \/ out'[k].cmd.op \notin {"attach", "confirm"}
      BY <1>2, <1>5
    <3>2. ~at_mode'
      BY <2>2 DEF Doomed
    <3> QED BY <2>2, <3>1, <3>2, DoomedStays DEF InUse
  <2> QED BY <1>5, <2>1, <2>2 DEF InUse
<1>6. AnswersAreTrue'
  <2> SUFFICES ASSUME NEW k \in 1 .. Len(in') PROVE AnswerIsTrue(in[k])'
    BY DEF AnswersAreTrue
  <2>1. PICK a : a = in'[k]
    OBVIOUS
  <2>2. AnswerIsTrue(a) /\ a.to \in Sent
    BY <1>1, <2>1 DEF Truth, AnswersAreTrue, OfSession
  <2>3. a.to.op = "set" => ~back
    BY <2>2
  <2> HIDE DEF back
  <2>4. ASSUME ~mixed', Good(a.text), a.to.op = "set" PROVE InUse(a.to.item)'
    <3>1. InUse(a.to.item) /\ ~back
      BY <2>2, <2>3, <2>4 DEF AnswerIsTrue
    <3> QED BY <1>5, <3>1
  <2>5. ASSUME ~mixed', Good(a.text), a.to.op = "save", AllAccepted' PROVE Sealed'
    BY <1>4, <2>2, <2>5 DEF AnswerIsTrue
  <2>6. a.to.op = "mac" => a.text # "+ok"
    BY <2>2 DEF AnswerIsTrue
  <2>7. AnswerIsTrue(a)'
    BY <2>4, <2>5, <2>6 DEF AnswerIsTrue
  <2> QED BY <2>1, <2>7
<1>7. Kept'
  <2> SUFFICES ASSUME ~mixed' PROVE Kept'
    BY DEF Kept
  <2>1. ASSUME NEW i \in Accepted' PROVE InUse(i)'
    <3>1. InUse(i)
      BY <2>1 DEF Truth, Kept
    <3>2. ~back
      BY <2>1
    <3> QED BY <1>5, <3>1, <3>2
  <2>2. /\ phase' # "idle" /\ job' = "reboot" => Sealed'
        /\ report' = "done" /\ wish' # Factory => Sealed'
    BY <1>4 DEF Truth, Kept
  <2>3. /\ tool' = "provision" /\ step' > 3 => mac_address'
        /\ tool' = "provision" /\ step' > 8 => Sealed'
    BY <1>4
  <2> QED BY <2>1, <2>2, <2>3 DEF Kept
<1> QED BY <1>3, <1>6, <1>7 DEF Truth

LEMMA LanStartsTruth ==
  ASSUME Types, Running, LanPart(LanStarts)
  PROVE  Truth'
<1>1. ble' = "off" /\ results = <<>>
  BY DEF LanPart, LanStarts, Probe, Configure, Begin, bleVars, Running
<1> QED
  BY <1>1, TruthOpens
  DEF LanPart, LanStarts, Probe, Configure, Begin, OpenSession, NewSocket

LEMMA CommandKinds ==
  ASSUME Types, Running, phase # "idle", NEW j \in 1 .. Len(Commands(job))
  PROVE  LET c == Commands(job)[j] IN
         /\ c.op = "set" => c.value = wish
         /\ c.op \notin {"attach", "confirm"}
         /\ job = "configure" => /\ c.op \in {"set", "save"}
                                 /\ c.op = "save" <=> j = 5
                                 /\ Len(Commands(job)) = 5
<1>1. job \in {"info", "configure", "reboot"}
  BY DEF Types, LanTypeOK
<1>2. CASE job = "info"
  <2>1. j \in 1 .. 5
    BY <1>2, CommandsAre
  <2> QED BY <1>2, <2>1, InfoKinds
<1>3. CASE job = "configure"
  <2>1. j \in 1 .. 5 /\ Len(Commands(job)) = 5
    BY <1>3, CommandsAre
  <2> QED BY <1>3, <2>1, ConfigureKinds
<1>4. CASE job = "reboot"
  <2>1. Commands(job)[j] = Plain("reboot")
    BY <1>4, CommandsAre
  <2> QED BY <1>4, <2>1, FieldsAre
<1> QED BY <1>1, <1>2, <1>3, <1>4

\* If all leftovers are handled before the first answer, an answer means there are none.
LEMMA AnswerMeansFirst ==
  ASSUME Types, Truth, in # <<>>
  PROVE  /\ \A k \in 1 .. Len(out) : Open(k)
         /\ AnswerIsTrue(Head(in)) /\ Head(in) = in[1] /\ 1 \in 1 .. Len(in)
         /\ \A c : Taken(c) /\ ~mixed' => ~mixed /\ Head(in).to = c
<1>1. 1 \in 1 .. Len(in) /\ Head(in) = in[1]
  BY Queues, TailIs
<1> QED BY <1>1 DEF Truth, LeftoversFirst, AnswersAreTrue, Taken

LEMMA LanStepTruth ==
  ASSUME Types, Running, OfSession, Truth, LanPart(LanStep \/ GiveUp)
  PROVE  Truth'
<1>0. /\ ble = "off" /\ UNCHANGED bleVars /\ ble' = "off" /\ phase # "idle"
      /\ tool \in {"probe", "info", "configure"} /\ report = "none"
      /\ job = "info" => wish = Factory
  BY DEF LanPart, LanStep, GiveUp, Probed, Greeted, Attached, NoAck, Commanded, bleVars, Running,
         Tools
<1>1. ASSUME NEW r \in {"done", "failed"}, Leave(r), UNCHANGED <<config, flash>>,
             ~mixed' /\ r = "done" /\ wish # Factory => Sealed
      PROVE  Truth'
  BY <1>0, <1>1, TruthEnds DEF Leave, End
<1>2. ASSUME NEW j \in {"info", "reboot"}, OpenSession(j),
             UNCHANGED <<config, flash, tool, wish, report>>,
             j = "reboot" /\ ~mixed' => Sealed
      PROVE  Truth'
  BY <1>0, <1>2, TruthOpens DEF OpenSession, NewSocket
<1>3. CASE Probed
  <2>1. wish = Factory
    BY <1>0, <1>3 DEF Running, Probed
  <2> QED BY <1>1, <1>2, <1>3, <2>1 DEF Probed
<1>4. CASE Greeted
  <2>1. Accepted' = {} /\ Sent = {Plain("magic")} /\ AllAccepted' = AllAccepted
    BY <1>0, <1>4 DEF Greeted, Accepted, Sent, AllAccepted
  <2>2. \A d \in Sent : d.op # "set"
    BY <2>1, FieldsAre
  <2>3. Plain("attach") \in Command /\ Plain("attach").op = "attach"
    BY PlainType, FieldsAre
  <2>4. \A k \in 1 .. Len(out) : Open(k)
    BY <1>4, AnswerMeansFirst DEF Greeted
  <2>5. out' = Send(out, Plain("attach")) /\ (~mixed' => ~mixed)
    BY <1>4 DEF Greeted, Taken
  <2>6. \E c \in Command :
          /\ out' = Send(out, c)
          /\ c.op = "set" => c.value = wish
          /\ c.op \in {"attach", "confirm"} => Accepted' = {} /\ \A d \in Sent : d.op # "set"
    BY <2>1, <2>2, <2>3, <2>5
  <2>7. /\ UNCHANGED <<config, flash, at_mode, wish, tool, report, job>>
        /\ in # <<>> /\ in' = Tail(in) /\ phase # "idle" /\ tool # "provision"
    BY <1>0, <1>4 DEF Greeted
  <2> QED BY <2>1, <2>4, <2>5, <2>6, <2>7, TruthGoesOn
<1>5. CASE Attached \/ NoAck
  <2> DEFINE c == Head(Commands(job))
  <2>0. /\ out' = Send(out, c) /\ phase = "attaching" /\ phase' = "commanding"
        /\ UNCHANGED <<job, wish, results, config, flash, at_mode, tool, report>>
        /\ results = <<>>
        /\ \/ in # <<>> /\ in' = Tail(in)
           \/ in' = in /\ in = <<>>
    BY <1>5 DEF Attached, NoAck, FirstCommand, Running
  <2>8. ~mixed' => ~mixed
    BY <1>5 DEF Attached, NoAck, Taken
  <2>1. job \in {"info", "configure", "reboot"} /\ (job = "configure" => wish \in Wishes)
    BY <2>0 DEF Types, LanTypeOK, Running
  <2>2. c = Commands(job)[1] /\ 1 \in 1 .. Len(Commands(job))
    BY <2>1, CommandsAre, CommandsType
  <2>3. c \in Command
    BY <2>1, <2>2, CommandsType
  <2>4. (c.op = "set" => c.value = wish) /\ c.op \notin {"attach", "confirm"}
    BY <1>0, <2>2, CommandKinds
  <2> HIDE DEF c
  <2>5. Accepted' = {} /\ AllAccepted' = AllAccepted
    <3>1. Len(results') = 0
      BY <2>0, EmptySeq
    <3> QED BY <1>0, <2>0, <3>1 DEF Accepted, AllAccepted
  <2>6. (\E k \in 1 .. Len(out) : ~Open(k)) => in' = <<>> /\ results' = <<>>
    BY <2>0, AnswerMeansFirst
  <2>7. \E d \in Command :
          /\ out' = Send(out, d)
          /\ d.op = "set" => d.value = wish
          /\ d.op \in {"attach", "confirm"} => Accepted' = {} /\ \A e \in Sent : e.op # "set"
    BY <2>0, <2>3, <2>4
  <2> QED BY <1>0, <2>0, <2>5, <2>6, <2>7, <2>8, TruthGoesOn
<1>6. CASE Commanded
  <2> DEFINE rs == Append(results, Head(in).text)
             n == Len(results) + 1
             a == Head(in)
  <2>0. phase = "commanding" /\ in # <<>> /\ Taken(Commands(job)[n])
        /\ UNCHANGED <<config, flash, at_mode>> /\ results \in Seq({b.text : b \in Answer})
    BY <1>6 DEF Commanded, Types, LanTypeOK
  <2>1. /\ \A k \in 1 .. Len(out) : Open(k)
        /\ AnswerIsTrue(a)
        /\ ~mixed' => ~mixed /\ a.to = Commands(job)[n]
    BY <2>0, AnswerMeansFirst
  <2>2. /\ n \in 1 .. Len(Commands(job)) /\ n - 1 = Len(results) /\ Len(results) \in Nat
        /\ \A k \in 1 .. Len(Commands(job)) : Commands(job)[k] \in Command
    BY <2>0, NextCommandType
  <2>3. /\ Len(rs) = n /\ rs[n] = a.text /\ \A k \in 1 .. Len(results) : rs[k] = results[k]
        /\ DOMAIN rs = 1 .. n /\ DOMAIN results = 1 .. Len(results)
    <3>1. a.text \in {b.text : b \in Answer}
      BY <2>0, AnswerTaken
    <3> QED BY <2>0, <3>1, AppendProperties, LenProperties
  <2>k. /\ job = "configure" => /\ Commands(job)[n].op \in {"set", "save"}
                                /\ Commands(job)[n].op = "save" <=> n = 5
                                /\ Len(Commands(job)) = 5
    BY <1>0, <2>2, CommandKinds
  <2> HIDE DEF rs, n, a
  <2>4. AllGood(rs) => AllGood(results) /\ Good(a.text)
    BY <2>2, <2>3 DEF AllGood
  <2>5. CASE Len(rs) = Len(Commands(job))
    <3>1. Concluded(rs)
      BY <1>6, <2>5 DEF Commanded, rs
    <3>2. job = "configure" /\ AllGood(rs) /\ ~mixed' => Sealed
      <4> SUFFICES ASSUME job = "configure", AllGood(rs), ~mixed' PROVE Sealed
        OBVIOUS
      <4>1. a.to.op = "save" /\ Good(a.text) /\ AllAccepted
        BY <1>0, <2>1, <2>3, <2>4, <2>5, <2>k DEF AllAccepted
      <4> QED BY <2>1, <4>1 DEF AnswerIsTrue
    <3>3. job = "reboot" /\ ~mixed' => Sealed
      BY <1>0, <2>1 DEF Truth, Kept
    <3>4. job \in {"info", "configure", "reboot"}
      BY DEF Types, LanTypeOK
    <3> QED BY <1>0, <1>1, <1>2, <2>0, <3>1, <3>2, <3>3, <3>4 DEF Concluded
  <2>6. CASE Len(rs) # Len(Commands(job))
    <3>1. /\ results' = rs /\ in' = Tail(in) /\ out' = Send(out, Commands(job)[n + 1])
          /\ UNCHANGED <<phase, job, wish, tool, report>>
      BY <1>6, <2>3, <2>6 DEF Commanded, rs
    <3>2. n + 1 \in 1 .. Len(Commands(job))
      <4>1. Len(Commands(job)) \in 1 .. 5
        BY <2>0, NextCommandType
      <4> QED BY <2>2, <2>3, <2>6, <4>1
    <3> DEFINE c == Commands(job)[n + 1]
    <3>3. c \in Command /\ (c.op = "set" => c.value = wish) /\ c.op \notin {"attach", "confirm"}
      BY <1>0, <2>2, <3>2, CommandKinds
    <3> HIDE DEF c
    <3>4. \E d \in Command :
            /\ out' = Send(out, d)
            /\ d.op = "set" => d.value = wish
            /\ d.op \in {"attach", "confirm"} => Accepted' = {} /\ \A e \in Sent : e.op # "set"
      BY <3>1, <3>3 DEF c
    <3>5. AllAccepted' => AllAccepted
      BY <1>0, <2>4, <3>1 DEF AllAccepted
    <3>6. ASSUME ~mixed', NEW i \in Accepted' PROVE i \in Accepted \/ InUse(i)
      <4>1. job = "configure" /\ Commands(job)' = Commands(job)
        BY <1>0, <3>1, <3>6 DEF Accepted, Commands
      <4>2. PICK x \in 1 .. Len(rs) : Good(rs[x]) /\ i = Commands(job)[x].item
        BY <1>0, <2>0, <3>1, <3>6, <4>1 DEF Accepted
      <4>3. CASE x = n
        <5>1. Commands(job)[n].op = "set"
          BY <2>2, <2>3, <2>6, <2>k, <4>1
        <5> QED BY <2>1, <2>3, <3>6, <4>2, <4>3, <5>1 DEF AnswerIsTrue
      <4>4. CASE x # n
        <5>1. x \in 1 .. Len(results) /\ rs[x] = results[x]
          BY <2>2, <2>3, <4>2, <4>4
        <5> QED BY <1>0, <2>0, <4>1, <4>2, <5>1 DEF Accepted
      <4> QED BY <4>3, <4>4
    <3>7. ~mixed' => ~mixed
      BY <2>1
    <3>8. tool # "provision" /\ phase # "idle"
      BY <1>0
    <3> QED BY <2>0, <2>1, <3>1, <3>4, <3>5, <3>6, <3>7, <3>8, TruthGoesOn
  <2> QED BY <2>5, <2>6
<1>7. CASE GiveUp
  <2>1. job = "reboot" /\ ~mixed' => Sealed
    BY <1>0, <1>7 DEF GiveUp, Truth, Kept
  <2> QED BY <1>1, <1>7, <2>1 DEF GiveUp
<1> QED BY <1>3, <1>4, <1>5, <1>6, <1>7 DEF LanPart, LanStep

LEMMA BleStartsTruth ==
  ASSUME Types, Running, OfSession, Truth, BlePart(BleStarts)
  PROVE  Truth'
<1>1. PICK w \in Wishes : Provision(w) \/ Panic(w)
  BY DEF BlePart, BleStarts
<1>2. UNCHANGED lanVars /\ phase = "idle" /\ ble = "off" /\ results = <<>>
  BY <1>1 DEF BlePart, Provision, Panic, Begin, Running
<1>3. in = <<>> /\ Len(in) = 0
  BY <1>2, AtRest
<1>4. CASE Provision(w)
  <2>1. /\ out' = out /\ in' = in /\ step' = 1 /\ report' = "none" /\ ble' = "connecting"
        /\ phase' = "idle" /\ results' = <<>>
    BY <1>2, <1>3, <1>4 DEF Provision, Begin, lanVars
  <2>2. Accepted' = {}
    BY <2>1 DEF Accepted
  <2>3. LeftoversFirst'
    BY <1>3, <2>1 DEF Truth, LeftoversFirst, Open
  <2>4. AnswersAreTrue'
    BY <1>3, <2>1 DEF AnswersAreTrue
  <2> QED BY <2>1, <2>2, <2>3, <2>4 DEF Truth, Kept
<1>5. CASE Panic(w)
  <2>1. /\ out' = out /\ in' = in /\ report' = "failed" /\ ble' = "off" /\ tool' = "none"
        /\ phase' = "idle" /\ results' = <<>>
    BY <1>2, <1>5 DEF Panic, lanVars, moduleVars, bleVars
  <2>2. Accepted' = {}
    BY <2>1 DEF Accepted
  <2>3. LeftoversFirst'
    BY <1>3, <2>1 DEF Truth, LeftoversFirst, Open
  <2>4. AnswersAreTrue'
    BY <1>3, <2>1 DEF AnswersAreTrue
  <2> QED BY <2>1, <2>2, <2>3, <2>4 DEF Truth, Kept
<1> QED BY <1>1, <1>4, <1>5

LEMMA BleStepTruth ==
  ASSUME Types, Running, OfSession, Truth, BlePart(BleStep)
  PROVE  Truth'
<1>0. /\ ble # "off" /\ phase = "idle" /\ phase' = "idle" /\ UNCHANGED lanVars
      /\ Request \in Command /\ step \in 1 .. 9 /\ results = <<>> /\ results' = <<>> /\ job' = job
      /\ tool = "provision" /\ report = "none" /\ Len(Steps(wish)) = 9
  <2>1. ble # "off" /\ phase = "idle" /\ UNCHANGED lanVars /\ results = <<>>
        /\ tool = "provision" /\ report = "none"
    BY DEF Running, BlePart, BleStep, Connected, NotConnected, Write, WriteFails, Notified,
           Unanswered
  <2> QED BY <2>1, RequestType, StepsAre DEF lanVars
<1>1. ASSUME in' = <<>>, out' = Closed(out), ble' = "off", tool' = "none",
             UNCHANGED <<config, flash, wish>>,
             ~mixed' /\ report' = "done" => Sealed
      PROVE  Truth'
  BY <1>0, <1>1, TruthEnds
<1>2. ASSUME out' = out, in' = in, UNCHANGED <<config, flash, at_mode, wish, tool, report>>,
             ble' # "off", step' = step, UNCHANGED <<mac_address, mixed>>
      PROVE  Truth'
  <2>1. AllAccepted' = AllAccepted /\ Accepted' = Accepted
    BY <1>0, <1>2 DEF AllAccepted, Accepted
  <2>2. ~mixed' => /\ step' > 3 => mac_address'
                   /\ step' > 8 => Sealed
    BY <1>0, <1>2 DEF Truth, Kept
  <2>3. (\E k \in 1 .. Len(out) : ~Open(k)) => in' = <<>> /\ step' = 1
    BY <1>0, <1>2 DEF Truth, LeftoversFirst
  <2> QED BY <1>0, <1>2, <2>1, <2>2, <2>3, TruthGoesOn
<1>3. CASE Connected
  BY <1>2, <1>3 DEF Connected, moduleVars, toolVars
<1>4. CASE NotConnected \/ WriteFails
  BY <1>1, <1>4 DEF NotConnected, WriteFails, Abandon, End
<1>5. CASE Write
  <2>1. /\ out' = Send(out, Request) /\ in' = in /\ ble' = "waiting"
        /\ UNCHANGED <<config, flash, at_mode, wish, tool, report, step, mac_address, mixed>>
    BY <1>5 DEF Write, toolVars
  <2>2. AllAccepted' = AllAccepted /\ Accepted' = Accepted
    BY <1>0, <2>1 DEF AllAccepted, Accepted
  <2>3. ~mixed' => /\ step' > 3 => mac_address'
                   /\ step' > 8 => Sealed
    BY <1>0, <2>1 DEF Truth, Kept
  <2>4. (\E k \in 1 .. Len(out) : ~Open(k)) => in' = <<>> /\ step' = 1
    BY <1>0, <2>1 DEF Truth, LeftoversFirst
  <2>5. /\ Request.op = "set" => Request.value = wish
        /\ Request.op # "attach" /\ (Request.op = "confirm" => step = 2)
    BY <1>0, StepKinds DEF Request
  <2>6. ASSUME step = 2 PROVE Accepted' = {} /\ \A d \in Sent : d.op # "set"
    <3>1. Accepted = {}
      <4>1. \A x \in 4 .. 7 : ~(x < step)
        BY <2>6
      <4> QED BY <1>0, <4>1 DEF Accepted
    <3>2. ASSUME NEW d \in Sent PROVE d.op # "set"
      <4>1. d.op = "set" => step >= 4
        BY <1>0, SentAre
      <4> QED BY <2>6, <4>1
    <3> QED BY <2>2, <3>1, <3>2
  <2>7. \E c \in Command :
          /\ out' = Send(out, c)
          /\ c.op = "set" => c.value = wish
          /\ c.op \in {"attach", "confirm"} => Accepted' = {} /\ \A d \in Sent : d.op # "set"
    BY <1>0, <2>1, <2>5, <2>6
  <2> QED BY <1>0, <2>1, <2>2, <2>3, <2>4, <2>7, TruthGoesOn
<1>6. CASE Notified
  <2> DEFINE a == Head(in)
  <2>0. /\ in # <<>> /\ Taken(Request)
        /\ UNCHANGED <<config, flash, at_mode>>
        /\ tool' = tool => in' = Tail(in)
    BY <1>6 DEF Notified
  <2>1. /\ \A k \in 1 .. Len(out) : Open(k)
        /\ AnswerIsTrue(a)
        /\ ~mixed' => ~mixed /\ a.to = Request
    BY <2>0, AnswerMeansFirst
  <2>2. CASE Succeeds(a.text) /\ NextStep /\ mac_address' = IF step = 3 THEN a.text = "+ok=" ELSE mac_address
    <3>1. ~mixed' => /\ step >= 3 => mac_address'
                     /\ step >= 8 => Sealed
                     /\ step \in 4 .. 7 => InUse(Request.item)
      <4> SUFFICES ASSUME ~mixed'
                   PROVE  /\ step >= 3 => mac_address'
                          /\ step >= 8 => Sealed
                          /\ step \in 4 .. 7 => InUse(Request.item)
        OBVIOUS
      <4>1. ~mixed /\ a.to = Request /\ (step # 1 => Good(a.text))
        BY <2>1, <2>2 DEF Succeeds, Good
      <4>2. /\ Request.op = "mac" <=> step = 3
            /\ Request.op = "save" <=> step = 8
            /\ Request.op = "set" <=> step \in 4 .. 7
        BY <1>0, StepKinds DEF Request
      <4>3. AllAccepted
        BY <1>0 DEF AllAccepted
      <4>4. step > 3 => mac_address
        BY <1>0, <4>1 DEF Truth, Kept
      <4>5. step > 8 => Sealed
        BY <1>0, <4>1 DEF Truth, Kept
      <4> HIDE DEF a
      <4>6. step = 3 => mac_address'
        <5>1. step = 3 => a.text = "+ok="
          BY <2>1, <4>1, <4>2 DEF AnswerIsTrue, Good
        <5>2. step = 3 => mac_address' = (a.text = "+ok=")
          BY <2>2
        <5> QED BY <5>1, <5>2
      <4>7. step = 8 => Sealed
        BY <2>1, <4>1, <4>2, <4>3 DEF AnswerIsTrue
      <4>8. step \in 4 .. 7 => InUse(Request.item)
        BY <2>1, <4>1, <4>2 DEF AnswerIsTrue
      <4>9. step > 3 => mac_address'
        BY <2>2, <4>4
      <4> QED BY <1>0, <4>5, <4>6, <4>7, <4>8, <4>9
    <3>2. CASE step < 9
      <4>1. /\ step' = step + 1 /\ ble' = "writing" /\ out' = out /\ in' = Tail(in)
            /\ UNCHANGED <<tool, wish, report>>
        BY <1>0, <2>0, <2>2, <3>2 DEF NextStep
      <4>2. ~mixed' => \A i \in Accepted' : i \in Accepted \/ InUse(i)
        <5> SUFFICES ASSUME ~mixed', NEW i \in Accepted' PROVE i \in Accepted \/ InUse(i)
          OBVIOUS
        <5>1. PICK x \in 4 .. 7 : x < step' /\ i = Steps(wish)[x].item
          BY <1>0, <4>1 DEF Accepted
        <5>2. CASE x < step
          BY <1>0, <5>1, <5>2 DEF Accepted
        <5>3. CASE x = step
          BY <3>1, <5>1, <5>3 DEF Request
        <5> QED BY <1>0, <4>1, <5>1, <5>2, <5>3
      <4>3. ~mixed' => /\ step' > 3 => mac_address'
                       /\ step' > 8 => Sealed
        BY <1>0, <3>1, <4>1
      <4>4. AllAccepted' => AllAccepted
        BY <1>0 DEF AllAccepted
      <4>5. ~mixed' => ~mixed
        BY <2>1
      <4> QED BY <1>0, <2>0, <2>1, <4>1, <4>2, <4>3, <4>4, <4>5, TruthGoesOn
    <3>3. CASE ~(step < 9)
      <4>1. Disconnect("done")
        BY <1>0, <2>2, <3>3 DEF NextStep
      <4>2. ~mixed' => Sealed
        BY <1>0, <3>1, <3>3
      <4> QED BY <1>1, <2>0, <4>1, <4>2 DEF Disconnect, End
    <3> QED BY <3>2, <3>3
  <2>3. CASE Retry /\ UNCHANGED mac_address
    <3>1. CASE Disconnect("failed")
      BY <1>1, <2>0, <3>1 DEF Disconnect, End
    <3>2. CASE /\ ble' = "writing" /\ step' = step /\ out' = out
               /\ UNCHANGED <<tool, wish, report>>
      <4>1. in' = Tail(in)
        BY <2>0, <3>2
      <4>2. AllAccepted' = AllAccepted /\ Accepted' = Accepted
        BY <1>0, <3>2 DEF AllAccepted, Accepted
      <4>3. ~mixed' => /\ step' > 3 => mac_address'
                       /\ step' > 8 => Sealed
        BY <1>0, <2>1, <2>3, <3>2 DEF Truth, Kept
      <4>4. ~mixed' => ~mixed
        BY <2>1
      <4> QED BY <1>0, <2>0, <2>1, <3>2, <4>1, <4>2, <4>3, <4>4, TruthGoesOn
    <3> QED BY <2>3, <3>1, <3>2 DEF Retry
  <2> QED BY <1>6, <2>2, <2>3 DEF Notified
<1>7. CASE Unanswered
  BY <1>0, <1>1, <1>2, <1>7 DEF Unanswered, Retry, Disconnect, End
<1> QED BY <1>3, <1>4, <1>5, <1>6, <1>7 DEF BlePart, BleStep

\* A setting is accepted only once the leftovers are handled.
LEMMA AcceptedMeansFirst ==
  ASSUME Types, Running, Truth, NEW i \in Accepted
  PROVE  i \in Items /\ \A k \in 1 .. Len(out) : Open(k)
<1>1. CASE ble # "off"
  <2>1. PICK x \in 4 .. 7 : x < step /\ i = Steps(wish)[x].item
    BY <1>1 DEF Accepted
  <2>2. x \in 1 .. 9 /\ step # 1
    BY <2>1 DEF Types, BleTypeOK
  <2>3. i \in Items
    BY <2>1, <2>2, StepKinds
  <2> QED BY <1>1, <2>2, <2>3 DEF Truth, LeftoversFirst
<1>2. CASE ble = "off"
  <2>1. phase = "commanding" /\ job = "configure"
    BY <1>2 DEF Accepted
  <2>2. PICK x \in 1 .. Len(results) : i = Commands(job)[x].item /\ Good(results[x])
    BY <1>2, <2>1 DEF Accepted
  <2>3. results # <<>>
    BY <2>2, EmptySeq
  <2>4. /\ Len(results) \in Nat /\ Len(results) + 1 \in 1 .. Len(Commands(job))
    BY <2>1, NextCommandType
  <2>5. Len(Commands(job)) = 5
    BY <2>1, CommandsAre
  <2>6. x \in 1 .. 5 /\ x # 5
    BY <2>4, <2>5
  <2>7. Commands(job)[x].op = "set"
    BY <2>1, <2>6, ConfigureKinds
  <2>8. i \in Items
    BY <2>1, <2>2, <2>6, <2>7, ConfigureKinds
  <2> QED BY <2>3, <2>8 DEF Truth, LeftoversFirst
<1> QED BY <1>1, <1>2

\* Who may save has all four settings accepted.
LEMMA SaveMeansAll ==
  ASSUME Types, Running, NEW c \in Sent, c.op = "save", AllAccepted
  PROVE  Items \subseteq Accepted
<1>1. CASE ble # "off"
  <2>1. step \in 1 .. 9 /\ step >= 8
    BY <1>1, SentAre DEF Types, BleTypeOK
  <2>2. \A x \in 4 .. 7 : Steps(wish)[x].item \in Accepted
    BY <1>1, <2>1 DEF Accepted
  <2>3. /\ Steps(wish)[4].item = "ssid" /\ Steps(wish)[5].item = "key"
        /\ Steps(wish)[6].item = "server" /\ Steps(wish)[7].item = "mode"
    BY StepsAre, FieldsAre
  <2> QED BY <2>2, <2>3 DEF Items
<1>2. CASE ble = "off"
  <2>1. phase = "commanding" /\ job = "configure" /\ Len(results) >= 4 /\ Len(results) \in Nat
    <3>1. phase = "commanding" /\ job = "configure" /\ Len(results) >= 4
      BY <1>2, SentAre
    <3> QED BY <3>1, LenProperties DEF Types, LanTypeOK
  <2>2. \A x \in 1 .. Len(results) : Good(results[x])
    <3>1. DOMAIN results = 1 .. Len(results)
      BY LenProperties DEF Types, LanTypeOK
    <3> QED BY <1>2, <3>1 DEF AllAccepted, AllGood
  <2>3. \A x \in 1 .. 4 : Commands(job)[x].item \in Accepted
    BY <1>2, <2>1, <2>2 DEF Accepted
  <2>4. /\ Commands("configure")[1].item = "ssid" /\ Commands("configure")[2].item = "key"
        /\ Commands("configure")[3].item = "server" /\ Commands("configure")[4].item = "mode"
    BY CommandsAre, FieldsAre
  <2> QED BY <2>1, <2>3, <2>4 DEF Items
<1> QED BY <1>1, <1>2

\* Switched off and on, the module knows what is in flash, and takes no setting any more.
LEMMA PowerCycleTruth ==
  ASSUME Types, Truth, UNCHANGED <<toolVars, lanVars, ble, step, mac_address>>, PowerCycle
  PROVE  Truth'
<1>0. /\ out' = <<>> /\ Len(out') = 0 /\ in' = in /\ config' = flash /\ flash' = flash /\ ~at_mode'
      /\ UNCHANGED <<wish, tool, report, mixed, phase, job, results, ble, step, mac_address>>
  BY EmptySeq DEF PowerCycle, toolVars, lanVars
<1>1. Accepted' = Accepted /\ AllAccepted' = AllAccepted
  BY <1>0 DEF Accepted, AllAccepted, Commands
<1>2. \A i : InUse(i)'
  BY <1>0 DEF InUse, Doomed
<1>3. Sealed => Sealed'
  BY <1>0 DEF Sealed, Flashed
<1>4. LeftoversFirst'
  BY <1>0 DEF LeftoversFirst
<1>5. AnswersAreTrue'
  <2> SUFFICES ASSUME NEW k \in 1 .. Len(in) PROVE AnswerIsTrue(in[k])'
    BY <1>0 DEF AnswersAreTrue
  <2>1. PICK a : a = in[k]
    OBVIOUS
  <2>2. AnswerIsTrue(a)
    BY <2>1 DEF Truth, AnswersAreTrue
  <2>3. AnswerIsTrue(a)'
    BY <1>0, <1>1, <1>2, <1>3, <2>2 DEF AnswerIsTrue
  <2> QED BY <1>0, <2>1, <2>3
<1>6. Kept'
  BY <1>0, <1>1, <1>2, <1>3 DEF Truth, Kept
<1> QED BY <1>4, <1>5, <1>6 DEF Truth

\* What a command does to the settings.
LEMMA Settings ==
  ASSUME Types, ModuleStep
  PROVE  LET c == out[1].cmd IN
         \/ UNCHANGED <<config, flash, at_mode>>
         \/ /\ Obey /\ Understood(c)
            /\ \A i \in Items : config'[i] = IF c.op = "set" /\ c.item = i THEN c.value
                                             ELSE IF c.op = "reboot" THEN flash[i]
                                             ELSE config[i]
            /\ config' = (CASE c.op = "set"    -> [config EXCEPT ![c.item] = c.value]
                            [] c.op = "reboot" -> flash
                            [] OTHER           -> config)
            /\ flash' = IF c.op = "save" THEN config ELSE flash
            /\ at_mode' => at_mode \/ c.op \in {"attach", "confirm"}
<1> DEFINE c == out[1].cmd
<1>1. CASE Refuse \/ Ignore
  BY <1>1 DEF Refuse, Ignore
<1>2. CASE Obey
  <2>1. Head(out) = out[1] /\ c \in Command
    BY ModuleQueues DEF Sending
  <2>2. /\ Understood(c)
        /\ config' = (CASE c.op = "set"    -> [config EXCEPT ![c.item] = c.value]
                        [] c.op = "reboot" -> flash
                        [] OTHER           -> config)
        /\ flash' = IF c.op = "save" THEN config ELSE flash
        /\ at_mode' = ((at_mode \/ c.op \in {"attach", "confirm"}) /\ c.op # "reboot")
    BY <1>2, <2>1 DEF Obey
  <2>3. c.op = "set" => c.item \in Items
    BY <2>1 DEF Command
  <2>4. config \in [Items -> Values]
    BY DEF Types, ModuleTypeOK
  <2> HIDE DEF c
  <2>5. \A i \in Items : config'[i] = IF c.op = "set" /\ c.item = i THEN c.value
                                      ELSE IF c.op = "reboot" THEN flash[i]
                                      ELSE config[i]
    BY <2>2, <2>3, <2>4
  <2> QED BY <1>2, <2>2, <2>5 DEF c
<1> QED BY <1>1, <1>2 DEF ModuleStep

LEMMA SealedHolds ==
  ASSUME Types, Sealed, ModuleStep, UNCHANGED wish
  PROVE  Sealed'
<1> DEFINE c == out[1].cmd
<1>0. /\ 1 \in 1 .. Len(out)
      /\ \A k \in 1 .. Len(out') : k + 1 \in 1 .. Len(out) /\ out'[k] = out[k + 1]
  BY ModuleQueues
<1>1. c.op = "set" => c.value = wish
  BY <1>0 DEF Sealed
<1>2. \A k \in 1 .. Len(out') : out'[k].cmd.op = "set" => out'[k].cmd.value = wish
  BY <1>0 DEF Sealed
<1>3. config = flash /\ flash = [i \in Items |-> wish]
  BY DEF Sealed, Flashed
<1>4. flash' = flash /\ config' = config
  <2> HIDE DEF c
  <2>1. [config EXCEPT ![c.item] = wish] = config
    BY <1>3
  <2> QED BY <1>1, <1>3, <2>1, Settings DEF c
<1> QED BY <1>2, <1>3, <1>4 DEF Sealed, Flashed

\* A setting in use stays so, once the leftovers are handled.
LEMMA InUseHolds ==
  ASSUME Types, Running, OfSession, Truth, ModuleStep, UNCHANGED wish, ~mixed, Open(1),
         NEW i \in Items, InUse(i)
  PROVE  InUse(i)'
<1> DEFINE c == out[1].cmd
<1>0. /\ 1 \in 1 .. Len(out)
      /\ \A k \in 1 .. Len(out') : k + 1 \in 1 .. Len(out) /\ out'[k] = out[k + 1]
  BY ModuleQueues
<1>1. c \in Sent
  BY <1>0 DEF OfSession
<1> HIDE DEF c
<1>2. c.op = "set" => c.value = wish
  BY <1>1, SentAre
<1>3. c.op = "reboot" => Sealed
  <2>1. c.op = "reboot" => \/ tool = "provision" /\ step > 8
                           \/ phase = "commanding" /\ job = "reboot"
    BY <1>1, SentAre DEF Running
  <2> QED BY <2>1 DEF Truth, Kept
<1>4. CASE config[i] = wish
  <2>1. Sealed => flash[i] = wish
    BY DEF Sealed, Flashed
  <2>2. config'[i] = wish
    BY <1>2, <1>3, <1>4, <2>1, Settings DEF c
  <2> QED BY <2>2 DEF InUse
<1>5. CASE Doomed
  <2>1. c.op \notin {"attach", "confirm"} /\ ~at_mode
    BY <1>0, <1>5 DEF Doomed, c
  <2>2. ~at_mode'
    BY <2>1, Settings DEF c
  <2>3. \A k \in 1 .. Len(out') : \E j \in 1 .. Len(out) : out'[k].cmd = out[j].cmd
    BY <1>0
  <2>4. Doomed'
    BY <1>5, <2>2, <2>3, DoomedStays
  <2> QED BY <2>4 DEF InUse
<1> QED BY <1>4, <1>5 DEF InUse

\* A save that is obeyed, after all settings were accepted, saves them all.
LEMMA SaveSeals ==
  ASSUME Types, Running, OfSession, Truth, Obey, UNCHANGED wish, ~mixed, Open(1),
         out[1].cmd.op = "save", AllAccepted
  PROVE  Sealed'
<1> DEFINE c == out[1].cmd
<1>q. ModuleStep
  BY DEF ModuleStep
<1>0. /\ 1 \in 1 .. Len(out) /\ Head(out) = out[1]
      /\ \A k \in 1 .. Len(out') : k + 1 \in 1 .. Len(out) /\ out'[k] = out[k + 1]
  BY <1>q, ModuleQueues
<1>1. c \in Sent
  BY <1>0 DEF OfSession
<1>2. Items \subseteq Accepted
  BY <1>1, SaveMeansAll
<1>3. at_mode /\ config' = config /\ flash' = config
  BY <1>0 DEF Obey, Understood
<1>4. \A i \in Items : config[i] = wish
  BY <1>2, <1>3 DEF Truth, Kept, InUse, Doomed
<1>5. config = [i \in Items |-> wish]
  BY <1>4 DEF Types, ModuleTypeOK
<1>6. \A k \in 1 .. Len(out) : Open(k)
  <2>1. "ssid" \in Accepted
    BY <1>2 DEF Items
  <2> QED BY <2>1, AcceptedMeansFirst
<1>7. ASSUME NEW k \in 1 .. Len(out'), out'[k].cmd.op = "set" PROVE out'[k].cmd.value = wish
  <2>1. out'[k].cmd \in Sent
    BY <1>0, <1>6 DEF OfSession
  <2> QED BY <1>7, <2>1, SentAre
<1> QED BY <1>3, <1>5, <1>7 DEF Sealed, Flashed

LEMMA ModuleTruth ==
  ASSUME Types, Running, OfSession, Truth,
         UNCHANGED <<toolVars, lanVars, ble, step, mac_address>>, ModuleStep
  PROVE  Truth'
<1>c. PICK c : c = out[1].cmd
  OBVIOUS
<1>0. /\ UNCHANGED <<wish, tool, report, mixed, phase, job, results, ble, step, mac_address>>
      /\ Accepted' = Accepted /\ AllAccepted' = AllAccepted
  BY DEF toolVars, lanVars, Accepted, AllAccepted, Commands
<1>q. /\ Len(out) \in Nat /\ 1 \in 1 .. Len(out) /\ Head(out) = out[1] /\ out[1] \in Sending
      /\ \A k \in 1 .. Len(out') : k + 1 \in 1 .. Len(out) /\ k + 1 # 1 /\ out'[k] = out[k + 1]
      /\ \/ in' = in
         \/ /\ out[1].open
            /\ \A k \in 1 .. Len(in') :
                 \/ k \in 1 .. Len(in) /\ in'[k] = in[k]
                 \/ /\ k = Len(in) + 1 /\ in'[k].to = c
                    /\ \/ in'[k].text = "+ERR" /\ Refuse
                       \/ in'[k].text = Text(c) /\ Obey
  BY <1>c, ModuleQueues
<1>1. Sealed => Sealed'
  BY <1>0, SealedHolds
<1>2. LeftoversFirst'
  <2>1. \A k \in 1 .. Len(out') : k + 1 \in 1 .. Len(out) /\ k + 1 # 1 /\ (Open(k)' <=> Open(k + 1))
    BY <1>q DEF Open
  <2>2. ASSUME NEW j \in 1 .. Len(out'), NEW k \in 1 .. Len(out'), j < k, ~Open(k)'
        PROVE  ~Open(j)'
    <3>1. j + 1 < k + 1 /\ ~Open(k + 1) /\ j + 1 \in 1 .. Len(out) /\ k + 1 \in 1 .. Len(out)
      BY <2>1, <2>2
    <3>2. ~Open(j + 1)
      BY <3>1 DEF Truth, LeftoversFirst
    <3> QED BY <2>1, <3>2
  <2>3. ASSUME NEW k \in 1 .. Len(out'), ~Open(k)'
        PROVE  in' = <<>> /\ results' = <<>> /\ (ble' # "off" => step' = 1)
    <3>1. k + 1 \in 1 .. Len(out) /\ ~Open(k + 1) /\ 1 < k + 1
      BY <2>1, <2>3
    <3>2. ~Open(1) /\ in = <<>> /\ results = <<>> /\ (ble # "off" => step = 1)
      BY <1>q, <3>1 DEF Truth, LeftoversFirst
    <3> QED BY <1>0, <1>q, <3>2 DEF Open
  <2> QED BY <2>2, <2>3 DEF LeftoversFirst
<1>3. AnswersAreTrue'
  <2> SUFFICES ASSUME NEW k \in 1 .. Len(in') PROVE AnswerIsTrue(in[k])'
    BY DEF AnswersAreTrue
  <2>1. PICK a : a = in'[k]
    OBVIOUS
  <2>2. CASE \E j \in 1 .. Len(in) : a = in[j]
    <3>1. AnswerIsTrue(a) /\ a.to \in Sent /\ Open(1)
      <4>1. in # <<>>
        BY <2>2, EmptySeq
      <4> QED BY <1>q, <2>2, <4>1 DEF Truth, LeftoversFirst, AnswersAreTrue, OfSession
    <3>2. ASSUME ~mixed, Good(a.text), a.to.op = "set" PROVE InUse(a.to.item)'
      <4>1. InUse(a.to.item) /\ a.to.item \in Items
        BY <3>1, <3>2, SentAre DEF AnswerIsTrue
      <4> QED BY <1>0, <3>1, <3>2, <4>1, InUseHolds
    <3>3. AnswerIsTrue(a)'
      BY <1>0, <1>1, <3>1, <3>2 DEF AnswerIsTrue
    <3> QED BY <2>1, <3>3
  <2>3. CASE ~ \E j \in 1 .. Len(in) : a = in[j]
    <3>1. out[1].open /\ a.to = c /\ (a.text = "+ERR" \/ (a.text = Text(c) /\ Obey))
      <4>1. in' # in
        BY <2>1, <2>3
      <4> QED BY <1>q, <2>1, <2>3, <4>1
    <3>2. CASE a.text = "+ERR"
      <4>1. AnswerIsTrue(a)'
        BY <3>2 DEF AnswerIsTrue, Good
      <4> QED BY <2>1, <4>1
    <3>3. CASE a.text = Text(c) /\ Obey
      <4>1. c \in Sent
        BY <1>c, <1>q, <3>1 DEF OfSession, Open
      <4>2. c.op = "mac" => a.text # "+ok"
        BY <3>3 DEF Text
      <4>3. ASSUME c.op = "set" PROVE InUse(c.item)'
        <5>1. c.value = wish /\ c.item \in Items
          BY <4>1, <4>3, SentAre
        <5>2. config'[c.item] = wish
          <6>1. Head(out) = out[1] /\ config \in [Items -> Values]
            BY <1>q DEF Types, ModuleTypeOK
          <6>2. config' = [config EXCEPT ![c.item] = c.value]
            BY <1>c, <3>3, <4>3, <6>1 DEF Obey
          <6> QED BY <5>1, <6>1, <6>2
        <5> QED BY <1>0, <5>2 DEF InUse
      <4>4. ASSUME c.op = "save", ~mixed, AllAccepted PROVE Sealed'
        BY <1>c, <1>0, <3>1, <3>3, <4>4, SaveSeals DEF Open
      <4>5. AnswerIsTrue(a)'
        BY <1>0, <3>1, <4>2, <4>3, <4>4 DEF AnswerIsTrue
      <4> QED BY <2>1, <4>5
    <3> QED BY <3>1, <3>2, <3>3
  <2> QED BY <2>2, <2>3
<1>4. Kept'
  <2> SUFFICES ASSUME ~mixed' PROVE Kept'
    BY DEF Kept
  <2>1. ASSUME NEW i \in Accepted PROVE InUse(i)'
    <3>1. i \in Items /\ Open(1)
      BY <1>q, <2>1, AcceptedMeansFirst
    <3>2. InUse(i) /\ ~mixed
      BY <1>0, <2>1 DEF Truth, Kept
    <3> QED BY <1>0, <3>1, <3>2, InUseHolds
  <2> QED BY <1>0, <1>1, <2>1 DEF Truth, Kept
<1> QED BY <1>2, <1>3, <1>4 DEF Truth

LEMMA ScanTruth ==
  ASSUME Types, Running, OfSession, Truth,
         ScanPart(Scan("scan") \/ Scan("autodiscover") \/ ScanStep \/ \E m \in Macs : Answered(m))
  PROVE  Truth'
<1>0. UNCHANGED <<moduleVars, lanVars, bleVars>>
  BY DEF ScanPart
<1>1. CASE Scan("scan") \/ Scan("autodiscover") \/ (ScanStep /\ UNCHANGED <<mixed, wish>>)
  <2>1. phase = "idle" /\ ble = "off"
    BY <1>1
    DEF Running, Scan, Begin, ScanStep, Broadcast, BroadcastFails, Heard, Silence, Pause, Tools
  <2>2. in = <<>> /\ Len(in) = 0
    BY <2>1, AtRest
  <2>3. /\ report' = "done" => wish' = Factory
        /\ tool' # "provision"
    BY <1>1
    DEF Running, Scan, Begin, ScanStep, Broadcast, BroadcastFails, Heard, Silence, Pause, Tools,
        ScanFailed, ScanOver, End, toolVars
  <2>4. Accepted' = {}
    BY <1>0, <2>1 DEF Accepted, lanVars, bleVars
  <2>5. LeftoversFirst' /\ AnswersAreTrue'
    BY <1>0, <2>1, <2>2 DEF Truth, LeftoversFirst, AnswersAreTrue, Open, moduleVars, lanVars, bleVars
  <2> QED BY <1>0, <2>1, <2>3, <2>4, <2>5 DEF Truth, Kept, lanVars
<1>2. CASE \E m \in Macs : Answered(m)
  <2>1. UNCHANGED <<toolVars, moduleVars, lanVars, bleVars>>
    BY <1>0, <1>2 DEF Answered
  <2> QED
    BY <2>1
    DEF Truth, LeftoversFirst, AnswersAreTrue, AnswerIsTrue, Kept, Open, InUse, Doomed, Sealed,
        Flashed, Accepted, AllAccepted, Commands, toolVars, moduleVars, lanVars, bleVars
<1>3. ScanStep => UNCHANGED <<mixed, wish>>
  BY DEF ScanStep, Broadcast, BroadcastFails, Heard, Silence, Pause, ScanFailed, ScanOver, End,
         toolVars
<1> QED BY <1>1, <1>2, <1>3 DEF ScanPart

\* Every step keeps the answers true and what was read from them.
LEMMA TruthStep ==
  TypeOK /\ Running /\ OfSession /\ Truth /\ [Next]_vars => Truth'
<1> SUFFICES ASSUME TypeOK, Running, OfSession, Truth, [Next]_vars PROVE Truth'
  OBVIOUS
<1>0. Types
  BY DEF TypeOK, Types
<1>1. CASE UserStarts
  BY <1>0, <1>1, LanStartsTruth, BleStartsTruth, ScanTruth
  DEF UserStarts, LanPart, BlePart, ScanPart
<1>2. CASE Working
  BY <1>0, <1>2, LanStepTruth, BleStepTruth, ScanTruth DEF Working, ScanPart
<1>3. CASE Surroundings
  BY <1>0, <1>3, ModuleTruth, PowerCycleTruth, ScanTruth DEF Surroundings, ScanPart, bleVars
<1>4. CASE UNCHANGED vars
  BY <1>4
  DEF vars, moduleVars, toolVars, lanVars, bleVars, Truth, LeftoversFirst, AnswersAreTrue,
      AnswerIsTrue, Kept, Open, InUse, Doomed, Sealed, Flashed, Accepted, AllAccepted, Commands
<1> QED BY <1>1, <1>2, <1>3, <1>4 DEF Next

LEMMA TruthInit == Init => Truth
<1> SUFFICES ASSUME Init PROVE Truth
  OBVIOUS
<1>1. in = <<>> /\ Len(in) = 0 /\ results = <<>> /\ ble = "off" /\ phase = "idle"
      /\ tool = "none" /\ report = "none"
  BY EmptySeq DEF Init, ModuleInit, ToolInit, LanInit, BleInit
<1>2. \A k \in 1 .. Len(out) : ~Open(k)
  BY SessionInit, <1>1 DEF OfSession, Sent
<1>3. Accepted = {}
  BY <1>1 DEF Accepted
<1> QED BY <1>1, <1>2, <1>3 DEF Truth, LeftoversFirst, AnswersAreTrue, Kept

LEMMA TruthAlways == Spec => [](TypeOK /\ Running /\ OfSession /\ Truth)
<1> DEFINE I == TypeOK /\ Running
           J == OfSession /\ OneAtATime
<1>1. Init => I /\ J /\ Truth
  BY TypesInit, SessionInit, TruthInit
<1>2. I /\ J /\ Truth /\ [Next]_vars => I' /\ J' /\ Truth'
  BY TypesStep, SessionStep, TruthStep
<1>3. I /\ J /\ Truth => TypeOK /\ Running /\ OfSession /\ Truth
  OBVIOUS
<1> HIDE DEF I, J
<1> QED BY <1>1, <1>2, <1>3, PTL DEF Spec

\* A success that `configure` or `provision` reports is one: unless an answer was taken for
\* another one, all the user asked for is in flash then, and stays there until another
\* command is started (lan.rs:285-291, ble.rs:308-315).
THEOREM ReportsAreTrue == Spec => []ReportIsTrue
<1>1. Truth => ReportIsTrue
  BY DEF Truth, Kept, Sealed, ReportIsTrue
<1> QED BY <1>1, TruthAlways, PTL

\* What a save of provisioning changes in the flash is all the user asked for, unless an
\* answer was taken for another command's (ble.rs:276-334, 302).
THEOREM SavesAreWholeUnlessMixed == Spec => WholeUnlessMixed
<1>1. ASSUME TypeOK, Running, OfSession, Truth, Next, tool = "provision", ~mixed,
             flash' # flash, Head(out).open
      PROVE  flash' = [i \in Items |-> wish]
  <2>1. Types
    BY <1>1 DEF TypeOK, Types
  <2>2. ModuleStep /\ UNCHANGED toolVars
    BY <1>1
    DEF Next, UserStarts, Working, Surroundings, LanPart, BlePart, ScanPart, moduleVars,
        LanStarts, Probe, Configure, BleStarts, Provision, Panic, LanStep, GiveUp, Probed,
        Greeted, Attached, NoAck, Commanded, BleStep, Connected, NotConnected, Abandon, Write,
        WriteFails, Notified, Unanswered, PowerCycle
  <2>3. Obey /\ Head(out).cmd.op = "save"
    BY <1>1, <2>2 DEF ModuleStep, Obey, Refuse, Ignore
  <2>4. Head(out) = out[1] /\ Open(1)
    BY <1>1, <2>1, <2>2, ModuleQueues DEF Open
  <2>5. AllAccepted /\ UNCHANGED wish
    BY <1>1, <2>2 DEF AllAccepted, Running, toolVars
  <2>6. Sealed'
    BY <1>1, <2>1, <2>3, <2>4, <2>5, SaveSeals
  <2> QED BY <2>5, <2>6 DEF Sealed, Flashed
<1>2. TypeOK /\ Running /\ OfSession /\ Truth /\ [Next]_vars
        => [tool = "provision" /\ flash' # flash /\ Head(out).open
              => flash' = [i \in Items |-> wish] \/ mixed]_vars
  BY <1>1
<1> QED BY <1>2, TruthAlways, PTL DEF WholeUnlessMixed, Spec

-----------------------------------------------------------------------------
(* The chunks make up the command *)

\* Every set of numbers that is not empty has a least one: induction without an operator.
LEMMA Least ==
  ASSUME NEW T \in SUBSET Nat, T # {}
  PROVE  \E n \in T : \A m \in T : n <= m
<1>1. \E R : IsWellFoundedOn(R, Nat) /\ \A x, y \in Nat : y < x => <<y, x>> \in R
  <2>1. IsWellFoundedOn(OpToRel(<, Nat), Nat)
    BY NatLessThanWellFounded
  <2>2. \A x, y \in Nat : y < x => <<y, x>> \in OpToRel(<, Nat)
    BY DEF OpToRel
  <2> WITNESS OpToRel(<, Nat)
  <2> QED BY <2>1, <2>2
<1>2. PICK R : IsWellFoundedOn(R, Nat) /\ \A x, y \in Nat : y < x => <<y, x>> \in R
  BY <1>1
<1>3. PICK x \in T : \A y \in T : ~ (<<y, x>> \in R)
  BY <1>2, WFMin
<1>4. \A y \in T : ~ (y < x)
  BY <1>2, <1>3
<1> QED BY <1>4

\* A sequence cut into pieces, one after the other up to the end, is what the pieces make
\* when they are joined again.
LEMMA Joined ==
  ASSUME NEW S, NEW s \in Seq(S), NEW n \in Nat \ {0}, NEW e \in [0 .. n -> 0 .. Len(s)],
         e[0] = 0, e[n] = Len(s), \A i \in 1 .. n : e[i - 1] <= e[i],
         NEW q, Len(q) = n, \A i \in 1 .. n : q[i] = SubSeq(s, e[i - 1] + 1, e[i])
  PROVE  FlattenSeq(q) = s
<1> DEFINE flattens(f) == f = [i \in 1 .. n |-> IF i = 1 THEN q[i] ELSE f[i - 1] \o q[i]]
           g == [i \in 1 .. n |-> SubSeq(s, 1, e[i])]
           c == CHOOSE f : flattens(f)
<1>1. FlattenSeq(q) = c[n]
  BY DEF FlattenSeq
<1>2. Len(s) \in Nat /\ \A i \in 0 .. n : e[i] \in 0 .. Len(s)
  BY LenProperties
<1>b. \A i \in 1 .. n : i # 1 => i - 1 \in 1 .. n /\ ~(i <= i - 1)
  OBVIOUS
<1>3. ASSUME NEW i \in 1 .. n, i # 1 PROVE g[i] = g[i - 1] \o q[i]
  <2>1. i - 1 \in 1 .. n /\ i - 1 \in 0 .. n /\ i \in 0 .. n
    BY <1>3
  <2>2. e[i - 1] \in Nat /\ e[i] \in Nat /\ e[i - 1] <= e[i] /\ e[i] <= Len(s)
    BY <1>2, <2>1
  <2>3. SubSeq(s, 1, e[i - 1]) \o SubSeq(s, e[i - 1] + 1, e[i]) = SubSeq(s, 1, e[i])
    <3>1. /\ 1 \in 1 .. Len(s) + 1 /\ e[i - 1] \in 1 - 1 .. Len(s)
          /\ e[i] \in e[i - 1] .. Len(s)
      BY <1>2, <2>2
    <3> QED BY <3>1, ConcatAdjacentSubSeq
  <2> QED BY <2>1, <2>3
<1>4. g[1] = q[1]
  <2>1. 1 \in 1 .. n /\ 1 - 1 = 0 /\ 0 + 1 = 1
    OBVIOUS
  <2>2. q[1] = SubSeq(s, 1, e[1])
    BY <2>1
  <2> QED BY <2>1, <2>2
<1>5. flattens(g)
  BY <1>3, <1>4
<1>6. flattens(c)
  BY <1>5
<1>7. \A i \in 1 .. n : c[i] = IF i = 1 THEN q[i] ELSE c[i - 1] \o q[i]
  BY <1>6
<1> HIDE DEF c, g
<1>8. \A i \in 1 .. n : c[i] = g[i]
  <2> DEFINE T == {i \in 1 .. n : c[i] # g[i]}
  <2> SUFFICES ASSUME T # {} PROVE FALSE
    OBVIOUS
  <2>0. T \in SUBSET Nat
    OBVIOUS
  <2> HIDE DEF T
  <2>4. PICK i \in T : \A m \in T : i <= m
    BY <2>0, Least
  <2>1. /\ i \in 1 .. n /\ c[i] # g[i]
        /\ \A m \in 1 .. n : c[m] # g[m] => i <= m
    BY <2>4 DEF T
  <2>2. CASE i = 1
    BY <1>4, <1>7, <2>1, <2>2
  <2>3. CASE i # 1
    <3>1. i - 1 \in 1 .. n /\ ~(i <= i - 1)
      BY <1>b, <2>1, <2>3
    <3>2. c[i - 1] = g[i - 1]
      BY <2>1, <3>1
    <3>3. c[i] = c[i - 1] \o q[i] /\ g[i] = g[i - 1] \o q[i]
      BY <1>3, <1>7, <2>1, <2>3
    <3> QED BY <2>1, <3>2, <3>3
  <2> QED BY <2>2, <2>3
<1>9. g[n] = s
  <2>1. g[n] = SubSeq(s, 1, Len(s))
    BY DEF g
  <2> QED BY <1>2, <2>1, SubSeqFull
<1> QED BY <1>1, <1>8, <1>9

\* The writes of a framed command are its bytes again.
LEMMA FramedJoined ==
  ASSUME NEW bytes \in Seq(Nat)
  PROVE  LET w == frame_command(bytes) IN
         FlattenSeq([i \in DOMAIN w |-> w[i].data]) = bytes
<1> DEFINE m == Len(bytes)
           w == frame_command(bytes)
           q == [i \in DOMAIN w |-> w[i].data]
           n == Chunks(m)
           e == [i \in 0 .. n |-> IF i = 0 THEN 0 ELSE Ends(m, i)]
<1>0. m \in Nat
  BY LenProperties
<1>1. /\ w \in Seq([number : Nat, of : Nat, data : Seq(Nat)]) /\ Len(w) = n
      /\ \A i \in 1 .. Len(w) :
           w[i].data = SubSeq(bytes, (i - 1) * MAX_CHUNK_PAYLOAD + 1, Ends(m, i))
  BY FramedAre
<1> HIDE DEF w
<1>2. /\ n \in Nat
      /\ m > 0 => n > 0 /\ Ends(m, n) = m
      /\ m = 0 => n = 0
      /\ \A i \in 1 .. n :
           /\ (i - 1) * MAX_CHUNK_PAYLOAD \in Nat /\ Ends(m, i) \in Nat
           /\ (i - 1) * MAX_CHUNK_PAYLOAD < Ends(m, i) /\ Ends(m, i) <= m
           /\ i # 1 => Ends(m, i - 1) = (i - 1) * MAX_CHUNK_PAYLOAD
  BY <1>0, ChunkBounds
<1>3. DOMAIN w = 1 .. n /\ \A i \in 1 .. n : w[i].data \in Seq(Nat)
  <2>1. DOMAIN w = 1 .. Len(w) /\ \A i \in 1 .. Len(w) : w[i] \in [number : Nat, of : Nat, data : Seq(Nat)]
    BY <1>1, LenProperties, ElementOfSeq
  <2> QED BY <1>1, <2>1
<1> HIDE DEF n, m
<1>4. q \in [1 .. n -> Seq(Nat)] /\ \A i \in 1 .. n : q[i] = w[i].data
  BY <1>3
<1> HIDE DEF q
<1>5. q \in Seq(Seq(Nat)) /\ Len(q) = n
  BY <1>2, <1>4, FunctionSeq
<1>6. CASE m = 0
  <2>1. q = <<>>
    BY <1>2, <1>5, <1>6, EmptySeq
  <2>2. bytes = <<>>
    BY <1>6, EmptySeq DEF m
  <2>3. FlattenSeq(q) = q
    BY <1>2, <1>5, <1>6 DEF FlattenSeq
  <2> QED BY <2>1, <2>2, <2>3 DEF q, w
<1>7. CASE m # 0
  <2>1. n \in Nat \ {0} /\ Ends(m, n) = m
    BY <1>0, <1>2, <1>7
  <2>2. \A i \in 0 .. n : e[i] \in 0 .. m
    BY <1>0, <1>2
  <2>3. e \in [0 .. n -> 0 .. m] /\ e[0] = 0 /\ e[n] = m
    BY <2>1, <2>2
  <2>4. ASSUME NEW i \in 1 .. n
        PROVE  e[i - 1] = (i - 1) * MAX_CHUNK_PAYLOAD /\ e[i] = Ends(m, i)
    <3>1. i - 1 \in 0 .. n /\ i \in 0 .. n /\ i # 0 /\ (i - 1 = 0 <=> i = 1)
      BY <1>2
    <3>2. CASE i = 1
      <4>1. 0 * MAX_CHUNK_PAYLOAD = 0
        BY FramesAssumption
      <4> QED BY <3>1, <3>2, <4>1
    <3>3. CASE i # 1
      BY <1>2, <3>1, <3>3
    <3> QED BY <3>2, <3>3
  <2> HIDE DEF e
  <2>5. ASSUME NEW i \in 1 .. n
        PROVE  e[i - 1] <= e[i] /\ q[i] = SubSeq(bytes, e[i - 1] + 1, e[i])
    <3> DEFINE b == (i - 1) * MAX_CHUNK_PAYLOAD
    <3>1. b \in Nat /\ Ends(m, i) \in Nat /\ b < Ends(m, i)
      BY <1>2
    <3>2. q[i] = SubSeq(bytes, b + 1, Ends(m, i))
      BY <1>1, <1>4
    <3>3. e[i - 1] = b /\ e[i] = Ends(m, i)
      BY <2>4
    <3> HIDE DEF b
    <3>4. b <= Ends(m, i)
      BY <3>1
    <3> QED BY <3>2, <3>3, <3>4
  <2>6. FlattenSeq(q) = bytes
    BY <1>5, <2>1, <2>3, <2>5, Joined DEF m
  <2> QED BY <2>6 DEF q, w
<1> QED BY <1>6, <1>7

\* What is written is the framed command, and that was not too long.
ChunksWritten ==
  /\ ble # "off" => Framed(wish)
  /\ ble = "waiting" => written = frame_command(Bytes(Request))

\* Every step keeps what is written the framed command.
LEMMA ChunksWrittenStep ==
  TypeOK /\ Running /\ ChunksWritten /\ [Next]_vars => ChunksWritten'
<1> SUFFICES ASSUME TypeOK, Running, ChunksWritten, [Next]_vars PROVE ChunksWritten'
  OBVIOUS
<1>1. CASE UNCHANGED <<ble, wish, step, written>>
  BY <1>1 DEF ChunksWritten, Framed, Request
<1>2. CASE ble' = "off"
  BY <1>2 DEF ChunksWritten
<1>3. CASE BlePart(BleStarts)
  BY <1>2, <1>3
  DEF BlePart, BleStarts, Provision, Panic, Begin, Running, bleVars, ChunksWritten
<1>4. CASE BlePart(BleStep)
  BY <1>4
  DEF BlePart, BleStep, Connected, NotConnected, Abandon, Write, WriteFails, Notified, Unanswered,
      NextStep, Retry, Disconnect, End, Request, toolVars, ChunksWritten
<1>5. CASE LanPart(LanStarts) \/ ScanPart(Scan("scan") \/ Scan("autodiscover"))
  BY <1>2, <1>5
  DEF LanPart, LanStarts, Probe, Configure, ScanPart, Scan, Begin, Running, bleVars
<1>6. CASE LanPart(LanStep \/ GiveUp)
  BY <1>1, <1>6
  DEF LanPart, LanStep, GiveUp, Probed, Greeted, Attached, NoAck, Commanded, Concluded, Leave,
      OpenSession, End, bleVars
<1>7. CASE ScanPart(ScanStep)
  BY <1>1, <1>7
  DEF ScanPart, ScanStep, Broadcast, BroadcastFails, Heard, Silence, Pause, ScanFailed, ScanOver,
      End, toolVars, bleVars
<1>8. CASE Surroundings
  BY <1>1, <1>8 DEF Surroundings, ScanPart, Answered, toolVars, bleVars
<1>9. CASE UNCHANGED vars
  BY <1>1, <1>9 DEF vars, toolVars, bleVars
<1> QED BY <1>3, <1>4, <1>5, <1>6, <1>7, <1>8, <1>9 DEF Next, UserStarts, Working, ScanPart, LanPart

\* The chunks of a command are numbered, at most MAX_CHUNKS, none empty, none too large, and
\* make up the command again, whatever its length and whatever fits into a chunk
\* (protocol.rs:35-41).
THEOREM ChunksAreTheCommand == Spec => []ChunksMakeCommand
<1>1. Init => ChunksWritten
  BY DEF Init, BleInit, ChunksWritten
<1>2. ASSUME TypeOK, Running, ChunksWritten, ble = "waiting" PROVE ChunksMakeCommand
  <2> DEFINE b == Bytes(Request)
             w == frame_command(b)
  <2>1. Request \in Command /\ step \in 1 .. 9
    BY <1>2, RequestType DEF TypeOK, Types
  <2>2. b \in Seq(Nat) /\ Len(b) \in Nat
    BY <2>1, BytesType, LenProperties
  <2>3. Len(b) <= MAX_CHUNK_PAYLOAD * MAX_CHUNKS
    <3>1. ~TooLong(b)
      <4>1. DOMAIN Steps(wish) = 1 .. 9
        BY DEF Steps
      <4> QED BY <1>2, <2>1, <4>1 DEF ChunksWritten, Framed, Request
    <3> DEFINE most == MAX_CHUNK_PAYLOAD * MAX_CHUNKS
    <3>2. most \in Nat
      BY FramesAssumption
    <3>3. ~(Len(b) > most)
      BY <3>1 DEF TooLong
    <3> HIDE DEF b, most
    <3>4. Len(b) <= most
      BY <2>2, <3>2, <3>3
    <3> QED BY <3>4 DEF most
  <2> HIDE DEF b
  <2>4. /\ w \in Seq([number : Nat, of : Nat, data : Seq(Nat)])
        /\ Len(w) = Chunks(Len(b))
        /\ \A i \in 1 .. Len(w) :
             /\ w[i].number = i /\ w[i].of = Len(w)
             /\ Len(w[i].data) \in 1 .. MAX_CHUNK_PAYLOAD
    BY <2>2, FramedAre
  <2>5. FlattenSeq([i \in DOMAIN w |-> w[i].data]) = b
    BY <2>2, FramedJoined
  <2> HIDE DEF w
  <2>6. Len(w) <= MAX_CHUNKS
    BY <2>2, <2>3, <2>4, ChunkBounds
  <2>7. DOMAIN w = 1 .. Len(w)
    BY <2>4, LenProperties
  <2>8. written = w
    BY <1>2 DEF ChunksWritten, w, b
  <2> QED BY <2>4, <2>5, <2>6, <2>7, <2>8 DEF ChunksMakeCommand, b
<1>3. TypeOK /\ Running /\ ChunksWritten => ChunksMakeCommand
  BY <1>2 DEF ChunksMakeCommand
<1> QED BY <1>1, <1>3, ChunksWrittenStep, SetupTypes, PTL DEF Spec
=============================================================================
