------------------------- MODULE CloudBridgeProofs -------------------------
(***************************************************************************)
(* What holds of the cloud bridge for every set of setpoints, every timer, *)
(* timeout and capacity, and for every timestamp.                          *)
(***************************************************************************)
EXTENDS CloudTime, TLAPS, SequenceTheorems, WellFoundedInduction

-----------------------------------------------------------------------------
(* Type correctness *)

\* Initial values are in their ranges.
LEMMA ConstantsType ==
  /\ 0 \in 0 .. HttpTimeout
  /\ 0 \in 0 .. MissedCap
  /\ 0 \in 0 .. MaxOrders
  /\ 0 \in 0 .. KeepAliveLimit + 1
  /\ 0 \in 0 .. CutOff
  /\ PollPeriod \in 1 .. PollPeriod
  /\ PingPeriod \in 1 .. PingPeriod
BY CloudAssumption

\* Counting up stays within the limit.
LEMMA UpToType == ASSUME NEW max \in Nat, NEW n \in 0 .. max PROVE UpTo(n, max) \in 0 .. max
BY DEF UpTo

\* The command channel takes a command or drops it.
LEMMA QueuedType ==
  ASSUME cmds \in Seq(Commands), Len(cmds) <= CmdCap, NEW cmd \in Commands
  PROVE  /\ Queued(cmd) \in Seq(Commands)
         /\ Len(Queued(cmd)) <= CmdCap
         /\ Len(Queued(cmd)) <= Len(cmds) + 1
<1>1. CASE Len(cmds) < CmdCap
  <2>1. Append(cmds, cmd) \in Seq(Commands) /\ Len(Append(cmds, cmd)) = Len(cmds) + 1
    BY AppendProperties
  <2> QED BY <1>1, <2>1, CloudAssumption DEF Queued
<1>2. CASE ~(Len(cmds) < CmdCap)
  BY <1>2 DEF Queued
<1> QED BY <1>1, <1>2

\* The locals of a new call have their types.
LEMMA FreshType ==
  ASSUME FreshLocals
  PROVE  /\ cmds' \in Seq(Commands) /\ Len(cmds') <= CmdCap
         /\ alarm' \in Setpoints
         /\ poll_in' \in 1 .. PollPeriod
         /\ polls_due' \in 0 .. MissedCap
         /\ ping_in' \in 1 .. PingPeriod
         /\ ping_due' \in BOOLEAN
         /\ request' \in Commands \cup {NoRequest}
         /\ waited' \in 0 .. HttpTimeout
<1>1. cmds' \in Seq(Commands) /\ Len(cmds') = 0
  BY EmptySeq DEF FreshLocals
<1>2. Len(cmds') <= CmdCap
  BY <1>1, CloudAssumption
<1>3. NoAlarms \in Setpoints
  BY DEF NoAlarms, Setpoints
<1> QED BY <1>1, <1>2, <1>3, ConstantsType DEF FreshLocals

\* So has all that Dropped sets.
LEMMA DroppedType ==
  ASSUME TypeOK, NEW next \in {"backoff", "connecting"}, Dropped(next),
         avail' \in {"unset", "online", "offline"}, UNCHANGED <<silence, worldVars>>
  PROVE  TypeOK'
<1>1. FreshLocals
  BY DEF Dropped
<1> QED BY <1>1, FreshType DEF Dropped, TypeOK, worldVars

\* A publish leaves one of the topic's values.
LEMMA PublishType ==
  ASSUME TypeOK, NEW v \in {"online", "offline"}
  PROVE  Publish(v) \in {"unset", "online", "offline"}
BY DEF TypeOK, Publish

\* Every step keeps the types.
LEMMA TypeStep == TypeOK /\ [Next]_vars => TypeOK'
<1> SUFFICES ASSUME TypeOK, [Next]_vars
             PROVE  TypeOK'
  OBVIOUS
<1> USE DEF brokerVars, timerVars, worldVars
<1>1. CASE Connect
  BY <1>1, ConstantsType DEF Connect, Will, TypeOK
<1>2. CASE ConnectFails
  BY <1>2, DroppedType DEF ConnectFails, TypeOK
<1>3. CASE Announce
  BY <1>3, ConstantsType, FreshType, PublishType DEF Announce, TypeOK
<1>4. CASE AnnounceFails
  BY <1>4, DroppedType, PublishType DEF AnnounceFails, TypeOK
<1>5. CASE Wake
  BY <1>5 DEF Wake, Quietly, TypeOK
<1>6. CASE Poll
  <2>1. polls_due' \in 0 .. MissedCap
    BY <1>6, CloudAssumption DEF Poll, TypeOK
  <2> QED BY <1>6, <2>1, ConstantsType DEF Poll, Quietly, TypeOK
<1>7. CASE PollAnswered
  <2>1. avail' \in {"unset", "online", "offline"}
    BY <1>7, PublishType DEF PollAnswered, Status
  <2> QED BY <1>7, <2>1, ConstantsType DEF PollAnswered, TypeOK
<1>8. CASE PollFails
  BY <1>8, ConstantsType DEF PollFails, TypeOK
<1>9. CASE PollWriteFails
  <2>1. avail' \in {"unset", "online", "offline"}
    BY <1>9, PublishType DEF PollWriteFails, Status, TypeOK
  <2> QED BY <1>9, <2>1, DroppedType DEF PollWriteFails
<1>10. CASE Ping
  BY <1>10, ConstantsType DEF Ping, TypeOK
<1>11. CASE PingFails
  BY <1>11, DroppedType DEF PingFails, TypeOK
<1>12. CASE Commanded
  <2>1. PICK c \in Channel, t \in CmdTemps : HaCommand(c, t)
    BY <1>12 DEF Commanded
  <2>2. cmds' \in Seq(Commands) /\ Len(cmds') <= CmdCap
    BY <2>1, QueuedType DEF HaCommand, Commands, TypeOK
  <2>3. orders' \in 0 .. MaxOrders
    BY <2>1, CloudAssumption DEF HaCommand, TypeOK
  <2> QED BY <2>1, <2>2, <2>3 DEF HaCommand, TypeOK
<1>13. CASE ReaderExits
  BY <1>13 DEF ReaderExits, Quietly, TypeOK
<1>14. CASE TakeCmd
  <2>1. Head(cmds) \in Commands /\ Tail(cmds) \in Seq(Commands) /\ Len(Tail(cmds)) <= CmdCap
    BY <1>14, HeadTailProperties, CloudAssumption DEF TakeCmd, TypeOK
  <2> QED BY <1>14, <2>1, ConstantsType DEF TakeCmd, Quietly, TypeOK
<1>15. CASE OrderSent
  <2>1. request[1] \in Channel /\ request[2] \in CmdTemps \cup {0}
    <3>1. CASE request \in Commands
      BY <3>1 DEF Commands
    <3>2. CASE request = NoRequest
      BY <3>2 DEF NoRequest, Channel
    <3> QED BY <3>1, <3>2 DEF TypeOK
  <2>2. alarm' \in Setpoints
    BY <1>15, <2>1 DEF OrderSent, Setpoints, TypeOK
  <2> QED BY <1>15, <2>2, ConstantsType DEF OrderSent, Quietly, TypeOK
<1>16. CASE OrderFails
  BY <1>16, ConstantsType DEF OrderFails, Quietly, TypeOK
<1>17. CASE ReaderGone
  BY <1>17, DroppedType DEF ReaderGone, TypeOK
<1>18. CASE LinkBreaks
  BY <1>18 DEF LinkBreaks, TypeOK
<1>19. CASE SessionEnds
  BY <1>19 DEF SessionEnds, Will, TypeOK
<1>20. CASE Restart
  BY <1>20, DroppedType DEF Restart, TypeOK
<1>21. CASE DeviceReports
  BY <1>21, ConstantsType DEF DeviceReports, TypeOK
<1>22. CASE Tick
  <2>1. age' \in 0 .. CutOff
    BY <1>22, UpToType, CloudAssumption DEF Tick, TypeOK
  <2>2. silence' \in 0 .. KeepAliveLimit + 1
    <3>1. KeepAliveLimit + 1 \in Nat /\ silence \in 0 .. KeepAliveLimit + 1
      BY CloudAssumption DEF TypeOK
    <3>2. UpTo(silence, KeepAliveLimit + 1) \in 0 .. KeepAliveLimit + 1
      BY <3>1, UpToType
    <3> QED BY <1>22, <3>1, <3>2 DEF Tick
  <2>3. polls_due' \in 0 .. MissedCap
    <3>1. UpTo(polls_due, MissedCap) \in 0 .. MissedCap
      BY UpToType, CloudAssumption DEF TypeOK
    <3> QED BY <1>22, <3>1 DEF Tick, TypeOK
  <2>4. /\ poll_in' \in 1 .. PollPeriod
        /\ ping_in' \in 1 .. PingPeriod
        /\ ping_due' \in BOOLEAN
    <3>1. CASE Connected
      <4>1. poll_in' \in 1 .. PollPeriod
        BY <1>22, <3>1, CloudAssumption DEF Tick, TypeOK
      <4>2. ping_in' \in 1 .. PingPeriod
        BY <1>22, <3>1, CloudAssumption DEF Tick, TypeOK
      <4>3. ping_due' \in BOOLEAN
        BY <1>22, <3>1 DEF Tick
      <4> QED BY <4>1, <4>2, <4>3
    <3>2. CASE ~Connected
      BY <1>22, <3>2 DEF Tick, TypeOK
    <3> QED BY <3>1, <3>2
  <2>5. waited' \in 0 .. HttpTimeout
    BY <1>22, CloudAssumption DEF Tick, TypeOK
  <2> QED BY <1>22, <2>1, <2>2, <2>3, <2>4, <2>5 DEF Tick, TypeOK
<1>23. CASE UNCHANGED vars
  BY <1>23 DEF vars, TypeOK
<1> QED BY <1>1, <1>2, <1>3, <1>4, <1>5, <1>6, <1>7, <1>8, <1>9, <1>10, <1>11, <1>12,
           <1>13, <1>14, <1>15, <1>16, <1>17, <1>18, <1>19, <1>20, <1>21, <1>22, <1>23
        DEF Next, Task, Failures

\* The bridge's states are well-typed: the command channel keeps its capacity and a
\* request its timeout, whatever the constants are (TypeOK, mqtt.rs:266 and cloud.rs:25).
THEOREM TypeCorrect == Spec => []TypeOK
<1>1. Init => TypeOK
  <2> SUFFICES ASSUME Init PROVE TypeOK
    OBVIOUS
  <2>1. alarm \in Setpoints
    BY DEF Init, NoAlarms, Setpoints
  <2>2. cmds \in Seq(Commands) /\ Len(cmds) <= CmdCap
    BY EmptySeq, CloudAssumption DEF Init
  <2>3. age \in 0 .. CutOff
    BY CloudAssumption DEF Init
  <2> QED BY <2>1, <2>2, <2>3, ConstantsType DEF Init, TypeOK
<1> QED BY <1>1, TypeStep, PTL DEF Spec

-----------------------------------------------------------------------------
(* The will *)

\* Only a live session can make the topic "online", and its end publishes the will.
LEMMA WillStep == WillCovers /\ [Next]_vars => WillCovers'
<1> SUFFICES ASSUME WillCovers, [Next]_vars
             PROVE  WillCovers'
  OBVIOUS
<1> USE DEF WillCovers, brokerVars
<1>1. CASE Connect
  BY <1>1 DEF Connect
<1>2. CASE SessionEnds
  BY <1>2 DEF SessionEnds, Will
<1>3. CASE LinkBreaks
  BY <1>3 DEF LinkBreaks
<1>4. CASE ConnectFails \/ AnnounceFails \/ PollWriteFails \/ PingFails \/ ReaderGone \/ Restart
  BY <1>4 DEF ConnectFails, AnnounceFails, PollWriteFails, PingFails, ReaderGone, Restart,
              Dropped, Publish
<1>5. CASE Announce \/ PollAnswered
  BY <1>5 DEF Announce, PollAnswered, Publish
<1>6. CASE Wake \/ Poll \/ ReaderExits \/ TakeCmd \/ OrderSent \/ OrderFails
  BY <1>6 DEF Wake, Poll, ReaderExits, TakeCmd, OrderSent, OrderFails, Quietly
<1>7. CASE PollFails \/ Ping \/ DeviceReports \/ Tick
  BY <1>7 DEF PollFails, Ping, DeviceReports, Tick
<1>8. CASE Commanded
  BY <1>8 DEF Commanded, HaCommand
<1>9. CASE UNCHANGED vars
  BY <1>9 DEF vars
<1> QED BY <1>1, <1>2, <1>3, <1>4, <1>5, <1>6, <1>7, <1>8, <1>9 DEF Next, Task, Failures

\* Without a session at the broker the topic is not online: the will of the CONNECT
\* (mqtt.rs:229) covers crashes, takeovers and writes that fail half way.
THEOREM WillAlwaysCovers == Spec => []WillCovers
<1>1. Init => WillCovers
  BY DEF Init, WillCovers
<1> QED BY <1>1, WillStep, PTL DEF Spec

-----------------------------------------------------------------------------
(* The silence of a thermometer *)

\* The time that n requests to the cloud take at most.
Work(n) == n * HttpTimeout

\* It is a time, grows with n, and by one timeout with each request.
LEMMA WorkIsNat == ASSUME NEW n \in Nat PROVE Work(n) \in Nat
BY CloudAssumption DEF Work

\* More setpoints take no less time.
LEMMA WorkGrows ==
  ASSUME NEW n \in Nat, NEW m \in 0 .. n PROVE Work(m) <= Work(n)
<1>1. Work(n) = Work(m) + Work(n - m)
  BY CloudAssumption DEF Work
<1> QED BY <1>1, WorkIsNat

\* Each setpoint takes one request.
LEMMA WorkStep == ASSUME NEW n \in Nat PROVE Work(n + 1) = Work(n) + HttpTimeout
BY CloudAssumption DEF Work

\* Setpoints that may be forwarded before the next report, and the time that is left,
\* at most, until a poll has been answered if every request lasts to its timeout.
OrdersAhead == Len(cmds) + (MaxOrders - orders)
Remaining ==
  IF phase = "polling"
  THEN HttpTimeout - waited
  ELSE (IF phase = "ordering" THEN HttpTimeout - waited ELSE 0)
         + Work(OrdersAhead) + (IF polls_due = 0 THEN poll_in ELSE 0) + HttpTimeout

\* A silence that is shown online is young, or there is still time to see it.
InTime ==
  /\ steady => Connected /\ session = "live"
  /\ Connected /\ session = "live" => avail # "unset"
  /\ steady /\ avail = "online" /\ age > StaleLimit
       => age + Remaining <= StaleLimit + AnswerTime

\* The time left is bounded by AnswerTime, whatever state the bridge is in.
LEMMA RemainingType ==
  ASSUME TypeOK
  PROVE  /\ OrdersAhead \in 0 .. CmdCap + MaxOrders
         /\ Remaining \in 0 .. AnswerTime
<1>1. OrdersAhead \in 0 .. CmdCap + MaxOrders
  <2>1. Len(cmds) \in Nat
    BY LenProperties DEF TypeOK
  <2> QED BY <2>1, CloudAssumption DEF TypeOK, OrdersAhead
<1>2. /\ Work(OrdersAhead) \in Nat
      /\ Work(OrdersAhead) <= Work(CmdCap + MaxOrders)
      /\ Work(CmdCap + MaxOrders) \in Nat
  BY <1>1, WorkIsNat, WorkGrows, CloudAssumption
<1>3. AnswerTime = Work(CmdCap + MaxOrders) + HttpTimeout + HttpTimeout + PollPeriod
  BY CloudAssumption DEF AnswerTime, Work
<1>4. HttpTimeout \in Nat /\ PollPeriod \in Nat /\ waited \in 0 .. HttpTimeout
        /\ poll_in \in 1 .. PollPeriod
  BY CloudAssumption DEF TypeOK
<1>5. Remaining \in 0 .. AnswerTime
  <2>1. CASE phase = "polling"
    BY <1>2, <1>3, <1>4, <2>1 DEF Remaining
  <2>2. CASE phase = "ordering"
    BY <1>2, <1>3, <1>4, <2>2 DEF Remaining
  <2>3. CASE phase \notin {"polling", "ordering"}
    BY <1>2, <1>3, <1>4, <2>3 DEF Remaining
  <2> QED BY <2>1, <2>2, <2>3
<1> QED BY <1>1, <1>5

\* What is compared in InTime are numbers, before and after a step.
LEMMA LimitsType == AnswerTime \in Nat /\ StaleLimit \in Nat
<1>1. (CmdCap + MaxOrders + 2) * HttpTimeout \in Nat
  <2>1. CmdCap + MaxOrders + 2 \in Nat
    BY CloudAssumption
  <2> QED BY <2>1, WorkIsNat DEF Work
<1> QED BY <1>1, CloudAssumption DEF AnswerTime

TimesOK == Remaining \in Nat /\ age \in Nat

\* What is compared below are natural numbers,
LEMMA TimesType == TypeOK => TimesOK
BY RemainingType, LimitsType, CloudAssumption DEF TypeOK, TimesOK

\* before and after a step.
LEMMA TimesTypeNext == TypeOK' => TimesOK'
BY TimesType, PTL

\* Each tick of a connected bridge uses up some of that time.
LEMMA TickShrinks ==
  ASSUME TypeOK, Connected, Tick PROVE Remaining' <= Remaining - 1
<1> DEFINE W == Work(OrdersAhead)
<1>1. W \in Nat
  BY RemainingType, WorkIsNat
<1>2. W' = W /\ phase' = phase
  BY DEF Tick, OrdersAhead, Work
<1>3. HttpTimeout \in Nat /\ PollPeriod \in Nat /\ MissedCap \in Nat \ {0}
        /\ waited \in 0 .. HttpTimeout /\ poll_in \in 1 .. PollPeriod
        /\ polls_due \in 0 .. MissedCap
  BY CloudAssumption DEF TypeOK
<1>4. /\ poll_in' = IF poll_in = 1 THEN PollPeriod ELSE poll_in - 1
      /\ polls_due' = IF poll_in = 1 THEN UpTo(polls_due, MissedCap) ELSE polls_due
      /\ waited' = IF Requesting THEN waited + 1 ELSE waited
      /\ phase = "running" => polls_due = 0
  BY DEF Tick
<1> HIDE DEF W
<1>5. CASE phase = "polling"
  BY <1>2, <1>3, <1>4, <1>5 DEF Remaining, Requesting
<1>6. (IF polls_due' = 0 THEN poll_in' ELSE 0) <= (IF polls_due = 0 THEN poll_in ELSE 0)
  BY <1>3, <1>4 DEF UpTo
<1>7. phase = "running" =>
        (IF polls_due' = 0 THEN poll_in' ELSE 0) <= (IF polls_due = 0 THEN poll_in ELSE 0) - 1
  BY <1>3, <1>4 DEF UpTo
<1>8. CASE phase # "polling"
  <2>1. /\ Remaining = (IF phase = "ordering" THEN HttpTimeout - waited ELSE 0)
                          + W + (IF polls_due = 0 THEN poll_in ELSE 0) + HttpTimeout
        /\ Remaining' = (IF phase = "ordering" THEN HttpTimeout - waited' ELSE 0)
                           + W + (IF polls_due' = 0 THEN poll_in' ELSE 0) + HttpTimeout
    BY <1>2, <1>8 DEF Remaining, W
  <2>2. CASE phase = "ordering"
    <3>1. waited' = waited + 1
      BY <1>4, <2>2 DEF Requesting
    <3> QED BY <1>1, <1>3, <1>4, <1>6, <2>1, <2>2, <3>1 DEF UpTo
  <2>3. CASE phase = "running"
    BY <1>1, <1>3, <1>4, <1>7, <2>1, <2>3 DEF UpTo
  <2> QED BY <1>8, <2>2, <2>3 DEF Connected, Requesting
<1> QED BY <1>5, <1>8

\* What a tick, and what any other step, does to a sum that is within its limit.
LEMMA SumStaysLimited ==
  ASSUME NEW a \in Nat, NEW a1 \in Nat, NEW r \in Nat, NEW r1 \in Nat,
         NEW s \in Nat, NEW t \in Nat,
         \/ a1 = a /\ r1 <= r
         \/ a1 <= a + 1 /\ r1 <= r - 1,
         r <= t, a > s => a + r <= s + t
  PROVE  a1 > s => a1 + r1 <= s + t
OBVIOUS

\* A step that is not a tick, and that leaves topic, age and history alone, keeps
\* InTime if it uses up no time.
LEMMA KeepsInTime ==
  ASSUME TypeOK, TypeOK', InTime, UNCHANGED <<session, avail, age, steady>>,
         Connected' <=> Connected, Remaining' <= Remaining
  PROVE  InTime'
<1>1. /\ age \in Nat /\ Remaining \in Nat /\ Remaining' \in Nat
      /\ StaleLimit \in Nat /\ AnswerTime \in Nat
  BY TimesType, TimesTypeNext, LimitsType DEF TimesOK
<1>2. Remaining <= AnswerTime
  BY <1>1, RemainingType
<1>3. steady /\ avail = "online" /\ age > StaleLimit
        => age + Remaining' <= StaleLimit + AnswerTime
  <2>1. steady /\ avail = "online" /\ age > StaleLimit
          => age + Remaining <= StaleLimit + AnswerTime
    BY DEF InTime
  <2> QED BY <1>1, <1>2, <2>1, SumStaysLimited
<1> QED BY <1>3 DEF InTime, AnswerTime

\* After an error, or a step that shows no "online" or an age within the limit,
\* there is nothing to see in time.
LEMMA NothingToSee ==
  ASSUME TypeOK', steady' = FALSE \/ avail' # "online" \/ age' <= StaleLimit,
         steady' => Connected' /\ session' = "live",
         Connected' /\ session' = "live" => avail' # "unset"
  PROVE  InTime'
<1>1. age' \in Nat /\ StaleLimit \in Nat
  BY CloudAssumption DEF TypeOK
<1> QED BY <1>1 DEF InTime

\* Every step keeps the invariant, if the cut-off is far enough: an answered poll after
\* the limit shows "offline", and a failed one cannot come in time to hide it.
LEMMA InTimeStep == CutOffIsFar /\ TypeOK /\ TypeOK' /\ InTime /\ [Next]_vars => InTime'
<1> SUFFICES ASSUME CutOffIsFar, TypeOK, TypeOK', InTime, [Next]_vars
             PROVE  InTime'
  OBVIOUS
<1> USE DEF brokerVars, worldVars, timerVars
<1>0. /\ OrdersAhead \in Nat /\ Work(OrdersAhead) \in Nat
      /\ HttpTimeout \in Nat /\ waited \in 0 .. HttpTimeout
      /\ poll_in \in 1 .. PollPeriod /\ polls_due \in Nat
      /\ MissedCap \in Nat /\ MaxOrders \in Nat /\ StaleLimit \in Nat
      /\ Remaining \in Nat /\ AnswerTime \in Nat /\ age \in Nat
  <2>1. OrdersAhead \in Nat
    BY RemainingType, CloudAssumption
  <2>2. Work(OrdersAhead) \in Nat
    BY <2>1, WorkIsNat
  <2>3. /\ waited \in 0 .. HttpTimeout /\ poll_in \in 1 .. PollPeriod /\ polls_due \in Nat
    BY CloudAssumption DEF TypeOK
  <2> QED BY <2>1, <2>2, <2>3, TimesType, LimitsType, CloudAssumption DEF TimesOK
<1>1. CASE Connect
  BY <1>1, NothingToSee DEF Connect, InTime, Connected, Requesting
<1>2. CASE ConnectFails \/ AnnounceFails \/ PollWriteFails \/ PingFails \/ ReaderGone \/ Restart
  <2>1. steady' = FALSE /\ phase' \in {"backoff", "connecting"}
    BY <1>2 DEF ConnectFails, AnnounceFails, PollWriteFails, PingFails, ReaderGone, Restart,
                Dropped
  <2> QED BY <2>1, NothingToSee DEF Connected, Requesting
<1>3. CASE LinkBreaks \/ SessionEnds
  BY <1>3, NothingToSee DEF LinkBreaks, SessionEnds
<1>4. CASE Announce
  BY <1>4, NothingToSee DEF Announce, Publish, InTime, Connected, Requesting
<1>5. CASE Wake
  BY <1>5, NothingToSee DEF Wake, Quietly, InTime, Connected, Requesting
<1>6. CASE Poll
  <2>1. Remaining' <= Remaining
    BY <1>0, <1>6 DEF Poll, Remaining
  <2> QED BY <1>6, <2>1, KeepsInTime DEF Poll, Quietly, Connected, Requesting
<1>7. CASE PollAnswered
  <2>1. Connected /\ Connected' /\ avail' = Publish(Status) /\ UNCHANGED <<session, steady, age>>
    BY <1>7 DEF PollAnswered, Connected, Requesting
  <2>2. session = "live" => avail' \in {"online", "offline"}
    BY <2>1 DEF Publish, Status
  <2>3. session = "live" /\ age > StaleLimit => avail' = "offline"
    BY <2>1 DEF Publish, Status
  <2>4. steady' = FALSE \/ avail' # "online" \/ age' <= StaleLimit
    BY <1>0, <2>1, <2>3 DEF InTime, TypeOK
  <2> QED BY <2>1, <2>2, <2>4, NothingToSee DEF InTime
<1>8. CASE PollFails
  <2>1. Connected /\ Connected' /\ steady' = (steady /\ age = CutOff)
          /\ UNCHANGED <<session, avail, age>>
    BY <1>8 DEF PollFails, Connected, Requesting
  <2>2. steady /\ age = CutOff => avail # "online"
    BY <1>0, CloudAssumption DEF InTime, CutOffIsFar
  <2> QED BY <2>1, <2>2, NothingToSee DEF InTime, TypeOK
<1>9. CASE Ping \/ ReaderExits
  <2>1. UNCHANGED <<phase, cmds, orders, polls_due, poll_in, waited, session, steady, age, avail>>
    BY <1>9 DEF Ping, ReaderExits, Quietly
  <2>2. Remaining' = Remaining /\ Connected' = Connected
    BY <2>1 DEF Remaining, OrdersAhead, Work, Connected, Requesting
  <2> QED BY <1>0, <2>1, <2>2, KeepsInTime
<1>10. CASE Commanded
  <2>1. PICK c \in Channel, t \in CmdTemps : HaCommand(c, t)
    BY <1>10 DEF Commanded
  <2>2. UNCHANGED <<phase, session, avail, poll_in, polls_due, waited, age, steady>>
    BY <2>1 DEF HaCommand
  <2>3. OrdersAhead' \in 0 .. OrdersAhead
    <3>1. <<c, t>> \in Commands
      BY DEF Commands
    <3>2. Len(cmds') <= Len(cmds) + 1 /\ orders' = orders + 1
      BY <2>1, <3>1, QueuedType DEF HaCommand, TypeOK
    <3>3. Len(cmds) \in Nat /\ Len(cmds') \in Nat
      BY LenProperties DEF TypeOK
    <3> QED BY <3>2, <3>3, CloudAssumption DEF OrdersAhead, TypeOK
  <2>4. Work(OrdersAhead)' \in Nat /\ Work(OrdersAhead)' <= Work(OrdersAhead)
    <3>1. Work(OrdersAhead)' = Work(OrdersAhead')
      BY DEF Work
    <3> QED BY <1>0, <2>3, <3>1, WorkGrows, WorkIsNat
  <2>5. Remaining' <= Remaining
    BY <1>0, <2>2, <2>4 DEF Remaining
  <2> QED BY <2>2, <2>5, KeepsInTime DEF Connected, Requesting
<1>11. CASE TakeCmd
  <2>1. /\ phase = "running" /\ phase' = "ordering" /\ waited' = 0
        /\ UNCHANGED <<poll_in, polls_due, session, avail, age, steady>>
    BY <1>11 DEF TakeCmd, Quietly
  <2>2. OrdersAhead' \in Nat /\ OrdersAhead = OrdersAhead' + 1
    <3>1. Len(cmds') = Len(cmds) - 1 /\ Len(cmds) \in Nat \ {0} /\ orders' = orders
      BY <1>11, HeadTailProperties, EmptySeq, LenProperties DEF TakeCmd, Quietly, TypeOK
    <3> QED BY <3>1, CloudAssumption DEF OrdersAhead, TypeOK
  <2>3. Work(OrdersAhead)' \in Nat /\ Work(OrdersAhead) = Work(OrdersAhead)' + HttpTimeout
    <3>1. Work(OrdersAhead)' = Work(OrdersAhead')
      BY DEF Work
    <3> QED BY <2>2, <3>1, WorkStep, WorkIsNat
  <2>4. Remaining' <= Remaining
    BY <1>0, <2>1, <2>3 DEF Remaining
  <2> QED BY <2>1, <2>4, KeepsInTime DEF Connected, Requesting
<1>12. CASE OrderSent \/ OrderFails
  <2>1. /\ phase = "ordering" /\ phase' = "running"
        /\ UNCHANGED <<cmds, orders, poll_in, polls_due, session, avail, age, steady>>
    BY <1>12 DEF OrderSent, OrderFails, Quietly
  <2>2. Work(OrdersAhead)' = Work(OrdersAhead)
    BY <2>1 DEF Work, OrdersAhead
  <2>3. Remaining' <= Remaining
    BY <1>0, <2>1, <2>2 DEF Remaining
  <2> QED BY <2>1, <2>3, KeepsInTime DEF Connected, Requesting
<1>13. CASE DeviceReports
  <2>1. age' = 0 /\ UNCHANGED <<phase, session, avail>>
    BY <1>13 DEF DeviceReports
  <2>2. steady' => Connected /\ session = "live"
    BY <1>13 DEF DeviceReports
  <2>3. Connected' = Connected
    BY <2>1 DEF Connected, Requesting
  <2>4. age' <= StaleLimit
    BY <1>0, <2>1
  <2> QED BY <2>1, <2>2, <2>3, <2>4, NothingToSee DEF InTime
<1>14. CASE Tick
  <2>1. UNCHANGED <<phase, session, avail, steady>> /\ Connected' = Connected
    BY <1>14 DEF Tick, Connected, Requesting
  <2>2. age' <= age + 1
    BY <1>14, CloudAssumption DEF Tick, UpTo, TypeOK
  <2>3. Connected => Remaining' <= Remaining - 1 /\ Remaining <= AnswerTime
    BY <1>0, <1>14, TickShrinks, RemainingType
  <2>4. Remaining' \in Nat /\ age' \in Nat
    BY TimesTypeNext DEF TimesOK
  <2>5. steady /\ avail = "online" /\ age' > StaleLimit
          => age' + Remaining' <= StaleLimit + AnswerTime
    <3> SUFFICES ASSUME steady, avail = "online"
                 PROVE  age' > StaleLimit => age' + Remaining' <= StaleLimit + AnswerTime
      OBVIOUS
    <3>1. Remaining' <= Remaining - 1 /\ Remaining <= AnswerTime
      BY <2>3 DEF InTime
    <3>2. age > StaleLimit => age + Remaining <= StaleLimit + AnswerTime
      BY DEF InTime
    <3>3. /\ age \in Nat /\ Remaining \in Nat /\ AnswerTime \in Nat /\ StaleLimit \in Nat
      BY <1>0
    <3> QED BY <2>2, <2>4, <3>1, <3>2, <3>3, SumStaysLimited
  <2>6. /\ (steady => Connected /\ session = "live")'
        /\ (Connected /\ session = "live" => avail # "unset")'
    BY <2>1 DEF InTime
  <2>7. (steady /\ avail = "online" /\ age > StaleLimit
           => age + Remaining <= StaleLimit + AnswerTime)'
    BY <2>1, <2>5 DEF AnswerTime
  <2> QED BY <2>6, <2>7 DEF InTime
<1>15. CASE UNCHANGED vars
  <2>1. Remaining' = Remaining /\ Connected' = Connected
    BY <1>15 DEF vars, Remaining, OrdersAhead, Work, Connected, Requesting
  <2> QED BY <1>0, <1>15, <2>1, KeepsInTime DEF vars
<1> QED BY <1>1, <1>2, <1>3, <1>4, <1>5, <1>6, <1>7, <1>8, <1>9, <1>10, <1>11, <1>12,
           <1>13, <1>14, <1>15 DEF Next, Task, Failures

\* A thermometer that falls silent while the bridge is connected and polls are answered
\* is shown offline before the cloud's cut-off (mqtt.rs:332-338), for all periods and
\* capacities with which the cut-off is far enough.
THEOREM OfflineInTime == CutOffIsFar => (Spec => []OfflineBeforeCutoff)
<1> SUFFICES ASSUME CutOffIsFar PROVE Spec => []OfflineBeforeCutoff
  OBVIOUS
<1>1. Init => InTime
  BY DEF Init, InTime, Connected, Requesting
<1>2. TypeOK /\ TypeOK' /\ InTime /\ [Next]_vars => InTime'
  BY InTimeStep
<1>3. TypeOK /\ InTime => OfflineBeforeCutoff
  <2> SUFFICES ASSUME TypeOK, InTime, steady, age = CutOff PROVE avail = "offline"
    BY DEF OfflineBeforeCutoff
  <2>1. Remaining \in Nat /\ AnswerTime \in Nat /\ StaleLimit \in Nat /\ age \in Nat
    BY RemainingType, CloudAssumption DEF AnswerTime, TypeOK
  <2>2. avail # "online"
    BY <2>1 DEF InTime, CutOffIsFar
  <2>3. avail # "unset"
    BY DEF InTime
  <2> QED BY <2>2, <2>3 DEF TypeOK
<1> QED BY <1>1, <1>2, <1>3, TypeCorrect, PTL DEF Spec

-----------------------------------------------------------------------------
(* The calendar *)

\* Every set of numbers that is not empty has a least one: induction without an operator.
LEMMA Least ==
  ASSUME NEW T \in SUBSET Nat, T # {}
  PROVE  \E n \in T : \A m \in T : n <= m
<1>1. \E R : IsWellFoundedOn(R, Nat) /\ \A x, y \in Nat : y < x => <<y, x>> \in R
  <2>1. IsWellFoundedOn(OpToRel(<, Nat), Nat)
    BY NatLessThanWellFounded
  <2>2. \A x, y \in Nat : y < x => <<y, x>> \in OpToRel(<, Nat)
    BY DEF OpToRel
  <2> WITNESS OpToRel(<, Nat)
  <2> QED BY <2>1, <2>2
<1>2. PICK R : IsWellFoundedOn(R, Nat) /\ \A x, y \in Nat : y < x => <<y, x>> \in R
  BY <1>1
<1>3. PICK x \in T : \A y \in T : ~ (<<y, x>> \in R)
  BY <1>2, WFMin
<1>4. \A y \in T : ~ (y < x)
  BY <1>2, <1>3
<1> QED BY <1>4

\* The days from the first of March of year 0 to that of year z.
Marches(z) ==
  (z \div 400) * 146097 + (z % 400) * 365 + (z % 400) \div 4 - (z % 400) \div 100

\* A year by its era of 400 years and its place in it.
LEMMA Eras ==
  ASSUME NEW z \in Nat
  PROVE  \E q \in Nat, r \in 0 .. 399 : z = 400 * q + r /\ q = z \div 400 /\ r = z % 400
<1>1. z \div 400 \in Nat /\ z % 400 \in 0 .. 399 /\ z = 400 * (z \div 400) + (z % 400)
  BY SMT
<1> QED BY <1>1

\* The 29th of February is the last day of a leap year that starts in March.
LEMMA NextMarch ==
  ASSUME NEW z \in Nat
  PROVE  Marches(z + 1) = Marches(z) + YearLength(z + 1)
<1>1. PICK q \in Nat, r \in 0 .. 399 : z = 400 * q + r /\ q = z \div 400 /\ r = z % 400
  BY Eras
<1>2. Marches(z) = q * 146097 + r * 365 + r \div 4 - r \div 100
  BY <1>1 DEF Marches
<1>3. CASE r = 399
  <2>1. (z + 1) \div 400 = q + 1 /\ (z + 1) % 400 = 0
    BY <1>1, <1>3, SMT
  <2>2. Marches(z + 1) = (q + 1) * 146097
    BY <2>1, SMT DEF Marches
  <2>3. Marches(z) = q * 146097 + 145635 + 99 - 3
    BY <1>2, <1>3, SMT
  <2>4. (z + 1) % 4 = 0
    BY <1>1, <1>3, SMT
  <2>5. YearLength(z + 1) = 366
    BY <2>1, <2>4 DEF YearLength, LeapYear
  <2> QED BY <2>2, <2>3, <2>5, SMT
<1>4. CASE r # 399
  <2>0. r + 1 \in 1 .. 399
    BY <1>4
  <2>1. (z + 1) \div 400 = q /\ (z + 1) % 400 = r + 1
    BY <1>1, <1>4, SMT
  <2>2. Marches(z + 1) = q * 146097 + (r + 1) * 365 + (r + 1) \div 4 - (r + 1) \div 100
    BY <2>1 DEF Marches
  <2>3. (z + 1) % 4 = (r + 1) % 4 /\ (z + 1) % 100 = (r + 1) % 100
    BY <1>1, SMT
  <2>4. (r + 1) \div 4 = r \div 4 + (IF (r + 1) % 4 = 0 THEN 1 ELSE 0)
    BY SMT
  <2>5. (r + 1) \div 100 = r \div 100 + (IF (r + 1) % 100 = 0 THEN 1 ELSE 0)
    BY SMT
  <2>6. (r + 1) % 100 = 0 => (r + 1) % 4 = 0
    BY SMT
  <2>7. YearLength(z + 1) = 365 + (IF (r + 1) % 4 = 0 THEN 1 ELSE 0)
                                - (IF (r + 1) % 100 = 0 THEN 1 ELSE 0)
    BY <2>0, <2>1, <2>3, <2>6 DEF YearLength, LeapYear
  <2>8. r \div 4 \in Int /\ r \div 100 \in Int
    BY SMT
  <2> QED BY <1>2, <2>2, <2>4, <2>5, <2>7, <2>8, SMT
<1> QED BY <1>3, <1>4

\* A number of days is an integer.
LEMMA MarchesType == ASSUME NEW z \in Nat PROVE Marches(z) \in Int
<1>1. PICK q \in Nat, r \in 0 .. 399 : z = 400 * q + r /\ q = z \div 400 /\ r = z % 400
  BY Eras
<1>2. r \div 4 \in Int /\ r \div 100 \in Int
  BY SMT
<1> QED BY <1>1, <1>2 DEF Marches

\* The loop over the years from 1970 counts the days since 1970.
LEMMA YearsAre == \A n \in Nat : DaysOfYears[n] = Marches(1969 + n) - Marches(1969)
<1> DEFINE F == [n \in Nat |-> Marches(1969 + n) - Marches(1969)]
           adds(g) == g = [n \in Nat |-> IF n = 0 THEN 0 ELSE g[n - 1] + YearLength(1969 + n)]
<1>0. ASSUME NEW n \in Nat
      PROVE  F[n] = IF n = 0 THEN 0 ELSE F[n - 1] + YearLength(1969 + n)
  <2>0. F[n] = Marches(1969 + n) - Marches(1969)
    OBVIOUS
  <2>1. CASE n = 0
    <3>1. Marches(1969) \in Int
      BY MarchesType
    <3> QED BY <2>0, <2>1, <3>1
  <2>2. CASE n # 0
    <3>1. PICK z \in Nat : z = 1968 + n
      OBVIOUS
    <3>2. 1969 + n = z + 1 /\ 1969 + (n - 1) = z /\ n - 1 \in Nat
      BY <2>2, <3>1
    <3>3. Marches(z + 1) = Marches(z) + YearLength(z + 1)
      BY NextMarch
    <3>4. F[n - 1] = Marches(z) - Marches(1969)
      BY <3>2
    <3>5. Marches(z) \in Int /\ YearLength(z + 1) \in Int /\ Marches(1969) \in Int
      BY MarchesType DEF YearLength
    <3> HIDE DEF F
    <3> QED BY <2>0, <2>2, <3>2, <3>3, <3>4, <3>5
  <2> HIDE DEF F
  <2> QED BY <2>1, <2>2
<1>1. adds(F)
  <2>1. F = [n \in Nat |-> F[n]]
    OBVIOUS
  <2> HIDE DEF F
  <2>2. [n \in Nat |-> F[n]]
          = [n \in Nat |-> IF n = 0 THEN 0 ELSE F[n - 1] + YearLength(1969 + n)]
    BY <1>0
  <2> QED BY <2>1, <2>2
<1>2. adds(DaysOfYears)
  <2>1. DaysOfYears = CHOOSE g : adds(g)
    BY DEF DaysOfYears
  <2> HIDE DEF F
  <2> QED BY <1>1, <2>1
<1>3. \A n \in Nat : DaysOfYears[n] = F[n]
  <2> DEFINE T == {n \in Nat : DaysOfYears[n] # F[n]}
  <2> SUFFICES ASSUME T # {} PROVE FALSE
    OBVIOUS
  <2>0. /\ \A n \in Nat : F[n] = IF n = 0 THEN 0 ELSE F[n - 1] + YearLength(1969 + n)
        /\ \A n \in Nat :
             DaysOfYears[n] = IF n = 0 THEN 0 ELSE DaysOfYears[n - 1] + YearLength(1969 + n)
    <3> HIDE DEF F
    <3> QED BY <1>1, <1>2
  <2> HIDE DEF F, adds
  <2>1. T \in SUBSET Nat
    OBVIOUS
  <2> HIDE DEF T
  <2>2. PICK m \in T : \A k \in T : m <= k
    BY <2>1, Least
  <2>3. m \in Nat /\ DaysOfYears[m] # F[m]
    BY <2>2 DEF T
  <2>4. m # 0
    BY <2>0, <2>3
  <2>5. m - 1 \in Nat /\ m - 1 \notin T
    BY <2>2, <2>3, <2>4
  <2>6. DaysOfYears[m - 1] = F[m - 1]
    BY <2>5 DEF T
  <2> QED BY <2>0, <2>3, <2>4, <2>6
<1> QED BY <1>3

\* The loop over the months: the days before each, in a year with or without a 29th of February.
MonthStart(m) == <<0, 31, 59, 90, 120, 151, 181, 212, 243, 273, 304, 334, 365>>[m + 1]
LeapDay(y) == IF LeapYear(y) THEN 1 ELSE 0

\* The loop over the months adds up what the table says, and the leap day from March on.
LEMMA MonthsAre ==
  ASSUME NEW y \in Nat, NEW m \in 0 .. 11
  PROVE  DaysOfMonths(y)[m] = MonthStart(m) + (IF m >= 2 THEN LeapDay(y) ELSE 0)
<1> DEFINE F == [k \in 0 .. 12 |-> MonthStart(k) + (IF k >= 2 THEN LeapDay(y) ELSE 0)]
           adds(g) == g = [k \in 0 .. 12 |-> IF k = 0 THEN 0 ELSE g[k - 1] + MonthLength(y, k)]
<1>0. \A k \in 1 .. 12 : F[k] = F[k - 1] + MonthLength(y, k)
  <2>1. PICK l \in {0, 1} : l = LeapDay(y)
    BY DEF LeapDay
  <2>2. \A k \in 0 .. 12 : F[k] = MonthStart(k) + (IF k >= 2 THEN l ELSE 0)
    BY <2>1
  <2>3. \A k \in 1 .. 12 : MonthLength(y, k)
            = <<31, 28, 31, 30, 31, 30, 31, 31, 30, 31, 30, 31>>[k] + (IF k = 2 THEN l ELSE 0)
    BY <2>1, SMT DEF MonthLength, LeapDay
  <2> HIDE DEF F
  <2> SUFFICES ASSUME NEW k \in 1 .. 12 PROVE F[k] = F[k - 1] + MonthLength(y, k)
    OBVIOUS
  <2>4. /\ F[k] = MonthStart(k) + (IF k >= 2 THEN l ELSE 0)
        /\ F[k - 1] = MonthStart(k - 1) + (IF k - 1 >= 2 THEN l ELSE 0)
        /\ MonthLength(y, k)
            = <<31, 28, 31, 30, 31, 30, 31, 31, 30, 31, 30, 31>>[k] + (IF k = 2 THEN l ELSE 0)
    BY <2>2, <2>3, SMT
  <2>5. k \in {1, 2, 3, 4, 5, 6, 7, 8, 9, 10, 11, 12}
    OBVIOUS
  <2> QED BY <2>4, <2>5, SMT DEF MonthStart
<1>1. adds(F)
  <2> SUFFICES ASSUME NEW k \in 0 .. 12
               PROVE  F[k] = IF k = 0 THEN 0 ELSE F[k - 1] + MonthLength(y, k)
    OBVIOUS
  <2>1. CASE k = 0
    BY <2>1, SMT DEF MonthStart
  <2>2. CASE k # 0
    <3>1. k \in 1 .. 12
      BY <2>2
    <3> HIDE DEF F
    <3> QED BY <1>0, <2>2, <3>1
  <2> QED BY <2>1, <2>2
<1>2. adds(DaysOfMonths(y))
  <2>1. DaysOfMonths(y) = CHOOSE g : adds(g)
    BY DEF DaysOfMonths
  <2> HIDE DEF F
  <2> QED BY <1>1, <2>1
<1>3. DaysOfMonths(y)[m] = F[m]
  <2>1. PICK d : d = DaysOfMonths(y)
    OBVIOUS
  <2>2. /\ \A k \in 0 .. 12 : F[k] = IF k = 0 THEN 0 ELSE F[k - 1] + MonthLength(y, k)
        /\ \A k \in 0 .. 12 : d[k] = IF k = 0 THEN 0 ELSE d[k - 1] + MonthLength(y, k)
    <3> HIDE DEF F
    <3> QED BY <1>1, <1>2, <2>1
  <2> HIDE DEF F, adds
  <2> DEFINE T == {k \in 0 .. 12 : d[k] # F[k]}
  <2>3. T = {}
    <3> SUFFICES ASSUME T # {} PROVE FALSE
      OBVIOUS
    <3>1. T \in SUBSET Nat
      OBVIOUS
    <3> HIDE DEF T
    <3>2. PICK n \in T : \A k \in T : n <= k
      BY <3>1, Least
    <3>3. n \in 0 .. 12 /\ d[n] # F[n]
      BY <3>2 DEF T
    <3>4. n # 0
      BY <2>2, <3>3
    <3>5. n - 1 \in 0 .. 12 /\ n - 1 \notin T
      BY <3>2, <3>3, <3>4
    <3>6. d[n - 1] = F[n - 1]
      BY <3>5 DEF T
    <3> QED BY <2>2, <3>3, <3>4, <3>6
  <2> QED BY <2>1, <2>3
<1> QED BY <1>3

\* The days before the month m in a year that starts in March, that year or the one before.
Later(m)   == (153 * (m - 3) + 2) \div 5
Earlier(m) == (153 * (m + 9) + 2) \div 5

\* The formula of the reference calendar for months gives the same table.
LEMMA MarchMonths ==
  /\ \A m \in 1 .. 2  : Earlier(m) = 306 + MonthStart(m - 1)
  /\ \A m \in 3 .. 12 : Later(m) = MonthStart(m - 1) - 59
  /\ \A m \in 0 .. 11 : MonthStart(m) \in Nat
<1>1. ASSUME NEW m \in {1, 2} PROVE Earlier(m) = 306 + MonthStart(m - 1)
  BY SMT DEF MonthStart, Earlier
<1>2. ASSUME NEW m \in {3, 4, 5, 6, 7, 8, 9, 10, 11, 12} PROVE Later(m) = MonthStart(m - 1) - 59
  BY SMT DEF MonthStart, Later
<1>3. ASSUME NEW m \in {0, 1, 2, 3, 4, 5, 6, 7, 8, 9, 10, 11} PROVE MonthStart(m) \in Nat
  BY SMT DEF MonthStart
<1> QED BY <1>1, <1>2, <1>3, SMT

\* The reference calendar by its years from March.
SinceEpoch(marches, before, k) == marches + before + k - 1 - 719468

\* January and February count as the last months of the year before.
LEMMA CivilIs ==
  ASSUME NEW y \in Nat, NEW m \in 1 .. 12, NEW k \in 1 .. 31
  PROVE  CivilDays(<<y, m, k>>) = IF m > 2 THEN SinceEpoch(Marches(y), Later(m), k)
                                           ELSE SinceEpoch(Marches(y - 1), Earlier(m), k)
<1>1. CASE m > 2
  BY <1>1, SMT DEF CivilDays, Marches, SinceEpoch, Later
<1>2. CASE ~ (m > 2)
  BY <1>2, SMT DEF CivilDays, Marches, SinceEpoch, Earlier
<1> QED BY <1>1, <1>2

\* Both calendars by the days of the years before, of the months before, and the leap day.
Counted(marches, start, leap, k) == marches - 719162 + start + leap + k - 1

\* The reference calendar as days of whole years and of whole months.
LEMMA CivilCounted ==
  ASSUME NEW y \in Nat \ {0}, NEW m \in 1 .. 12, NEW k \in 1 .. 31
  PROVE  CivilDays(<<y, m, k>>)
           = Counted(Marches(y - 1), MonthStart(m - 1), IF m > 2 THEN LeapDay(y) ELSE 0, k)
<1>1. CivilDays(<<y, m, k>>) = IF m > 2 THEN SinceEpoch(Marches(y), Later(m), k)
                                         ELSE SinceEpoch(Marches(y - 1), Earlier(m), k)
  BY CivilIs
<1>2. PICK z \in Nat : y = z + 1
  OBVIOUS
<1>3. PICK a \in Int, b \in Int, u \in Nat, l \in {0, 1} :
        a = Marches(y - 1) /\ b = Marches(y) /\ u = MonthStart(m - 1) /\ l = LeapDay(y)
  <2>1. Marches(y - 1) \in Int /\ Marches(y) \in Int
    BY MarchesType
  <2>2. MonthStart(m - 1) \in Nat /\ LeapDay(y) \in {0, 1}
    BY MarchMonths DEF LeapDay
  <2> QED BY <2>1, <2>2
<1>4. b = a + 365 + l
  BY <1>2, <1>3, NextMarch DEF YearLength, LeapDay
<1>5. CASE m > 2
  <2>1. Later(m) = u - 59
    BY <1>3, <1>5, MarchMonths, SMT
  <2> QED BY <1>1, <1>3, <1>4, <1>5, <2>1, SMT DEF SinceEpoch, Counted
<1>6. CASE ~ (m > 2)
  <2>1. Earlier(m) = 306 + u
    BY <1>3, <1>6, MarchMonths, SMT
  <2> QED BY <1>1, <1>3, <1>6, <2>1, SMT DEF SinceEpoch, Counted
<1> QED BY <1>5, <1>6

\* The code counts the days of a date as the reference calendar does.
LEMMA DaysAre ==
  ASSUME NEW s, s.year \in Nat, s.year >= 1970, s.month \in 1 .. 12, s.day \in 1 .. 31
  PROVE  /\ DaysBefore(s) = CivilDays(<<s.year, s.month, s.day>>)
         /\ DaysBefore(s) \in Int
<1>0. PICK y \in Nat, m \in 1 .. 12, k \in 1 .. 31 :
        y >= 1970 /\ y = s.year /\ m = s.month /\ k = s.day
  OBVIOUS
<1>1. PICK a \in Int, u \in Nat, l \in {0, 1} :
        a = Marches(y - 1) /\ u = MonthStart(m - 1) /\ l = LeapDay(y)
  <2>1. Marches(y - 1) \in Int /\ MonthStart(m - 1) \in Nat /\ LeapDay(y) \in {0, 1}
    BY <1>0, MarchesType, MarchMonths DEF LeapDay
  <2> QED BY <2>1
<1>2. DaysOfYears[y - 1970] = a - 719162
  <2>1. PICK n \in Nat : n = y - 1970
    BY <1>0
  <2>2. 1969 + n = y - 1
    BY <2>1
  <2>3. DaysOfYears[n] = Marches(1969 + n) - Marches(1969)
    BY YearsAre
  <2>4. Marches(1969) = 719162
    BY SMT DEF Marches
  <2> QED BY <1>1, <2>1, <2>2, <2>3, <2>4, SMT
<1>3. DaysOfMonths(y)[m - 1] = u + (IF m > 2 THEN l ELSE 0)
  <2>1. PICK n \in 0 .. 11 : n = m - 1
    OBVIOUS
  <2>2. DaysOfMonths(y)[n] = MonthStart(n) + (IF n >= 2 THEN LeapDay(y) ELSE 0)
    BY MonthsAre
  <2>3. n >= 2 <=> m > 2
    BY <2>1
  <2> QED BY <1>1, <2>1, <2>2, <2>3
<1>4. DaysBefore(s) = Counted(a, u, IF m > 2 THEN l ELSE 0, k) /\ DaysBefore(s) \in Int
  BY <1>0, <1>1, <1>2, <1>3, SMT DEF DaysBefore, Counted
<1>5. y \in Nat \ {0} /\ m \in 1 .. 12 /\ k \in 1 .. 31
  BY <1>0
<1>6. CivilDays(<<y, m, k>>)
        = Counted(Marches(y - 1), MonthStart(m - 1), IF m > 2 THEN LeapDay(y) ELSE 0, k)
  BY ONLY <1>5, CivilCounted
<1> QED BY <1>0, <1>1, <1>4, <1>6

-----------------------------------------------------------------------------
(* The age of a report *)

\* A timestamp is read as the instant it stands for.
LEMMA StampRead ==
  ASSUME NEW d \in Dates, NEW t \in Times, NEW o \in Offsets, NEW s, s = Stamp(d, t, o)
  PROVE  /\ s # NoStamp
         /\ parse_rfc3339(s).min = Heard(d, t, o) /\ parse_rfc3339(s).sec = t[3]
         /\ Heard(d, t, o) \in Int /\ t[3] \in 0 .. 59
<1>1. PICK y \in Nat, m \in 1 .. 12, k \in 1 .. 31 : d = <<y, m, k>> /\ y >= 1970
  BY TimeAssumption
<1>2. t[1] \in 0 .. 23 /\ t[2] \in 0 .. 59 /\ t[3] \in 0 .. 59
  BY TimeAssumption
<1>3. o[1] \in {"Z", "+", "-"} /\ o[2] \in 0 .. 23 /\ o[3] \in 0 .. 59
  BY TimeAssumption
<1>4. /\ s.year = y /\ s.month = m /\ s.day = k
      /\ s.hour = t[1] /\ s.minute = t[2] /\ s.sec = t[3]
      /\ s.sign = o[1] /\ s.oh = o[2] /\ s.om = o[3]
  BY <1>1 DEF Stamp
<1>5. s # NoStamp
  BY <1>3, <1>4 DEF NoStamp
<1>6. DaysBefore(s) = CivilDays(d) /\ CivilDays(d) \in Int
  <2>1. s.year \in Nat /\ s.year >= 1970 /\ s.month \in 1 .. 12 /\ s.day \in 1 .. 31
    BY <1>1, <1>4
  <2>2. /\ DaysBefore(s) = CivilDays(<<s.year, s.month, s.day>>)
        /\ DaysBefore(s) \in Int
    BY ONLY <2>1, DaysAre
  <2> QED BY <1>1, <1>4, <2>2
<1>7. Offset(s) = LocalMinutes(o) /\ LocalMinutes(o) \in Int
  <2>1. o[1] = "Z" => o[2] = 0 /\ o[3] = 0
    BY TimeAssumption
  <2> QED BY <1>3, <1>4, <2>1 DEF Offset, LocalMinutes
<1>8. PICK c \in Int, l \in Int : c = CivilDays(d) /\ l = LocalMinutes(o)
  BY <1>6, <1>7
<1>9. /\ parse_rfc3339(s).min = c * 1440 + t[1] * 60 + t[2] - l
      /\ parse_rfc3339(s).sec = t[3]
  BY <1>4, <1>6, <1>7, <1>8 DEF parse_rfc3339
<1>10. Heard(d, t, o) = (c * 24 + t[1]) * 60 + t[2] - l
  BY <1>8 DEF Heard
<1>11. c * 1440 + t[1] * 60 + t[2] - l = (c * 24 + t[1]) * 60 + t[2] - l
  BY <1>2, <1>8
<1>12. (c * 24 + t[1]) * 60 + t[2] - l \in Int
  BY <1>2, <1>8
<1> QED BY <1>2, <1>5, <1>9, <1>10, <1>11, <1>12

\* Minutes and seconds make seconds again.
LEMMA ClockGap ==
  ASSUME NEW x \in 0 .. 59, NEW n \in Nat, NEW q, q = (x + n) \div 60, NEW r, r = (x + n) % 60
  PROVE  /\ q \in Nat /\ r \in 0 .. 59
         /\ q * 60 + r - x = n
         /\ q = 0 => r >= x
<1>1. x + n \in Nat
  OBVIOUS
<1>2. PICK v \in Nat : v = x + n
  BY <1>1
<1>3. q \in Nat /\ r \in 0 .. 59 /\ v = q * 60 + r
  BY <1>2, SMT
<1> QED BY <1>2, <1>3

\* A clock that is so many seconds ahead gives that age.
LEMMA AgeIs ==
  ASSUME NEW d \in Dates, NEW t \in Times, NEW o \in Offsets, Heard(d, t, o) >= 0, NEW n \in Nat
  PROVE  age_secs(Stamp(d, t, o), Clock(d, t, o, n)) = n
<1>1. PICK s : s = Stamp(d, t, o)
  OBVIOUS
<1>2. PICK p : p = parse_rfc3339(s)
  OBVIOUS
<1>3. PICK h \in Int, x \in 0 .. 59 : h = Heard(d, t, o) /\ x = t[3]
  BY <1>1, StampRead
<1>4. s # NoStamp /\ p.min = h /\ p.sec = x /\ h >= 0
  BY <1>1, <1>2, <1>3, StampRead
<1>5. PICK q, r : q = (x + n) \div 60 /\ r = (x + n) % 60
  OBVIOUS
<1>6. q \in Nat /\ r \in 0 .. 59 /\ q * 60 + r - x = n /\ (q = 0 => r >= x)
  <2>1. x \in 0 .. 59 /\ n \in Nat
    OBVIOUS
  <2> QED BY ONLY <1>5, <2>1, ClockGap
<1>7. PICK c : c = Clock(d, t, o, n)
  OBVIOUS
<1>8. c.min = h + q /\ c.sec = r
  BY <1>3, <1>5, <1>7 DEF Clock
<1>9. ~Ahead(p, c)
  BY <1>4, <1>6, <1>8 DEF Ahead
<1>10. age_secs(s, c) = (c.min - p.min) * 60 + c.sec - p.sec
  BY <1>2, <1>4, <1>9 DEF age_secs
<1>11. (c.min - p.min) * 60 + c.sec - p.sec = n
  <2>1. h + q - h = q
    BY <1>6
  <2> QED BY <1>4, <1>6, <1>8, <2>1
<1> QED BY <1>1, <1>7, <1>10, <1>11

\* Counting in ticks or in seconds, an age is beyond the limit or not.
LEMMA TicksAreSeconds ==
  ASSUME NEW a \in Nat
  PROVE  a * Unit \in Nat /\ (a * Unit > 60 <=> a > StaleLimit)
<1>1. Unit \in Nat \ {0} /\ StaleLimit \in Nat /\ StaleLimit * Unit = 60
  BY TimeAssumption, CloudAssumption
<1>2. \A m \in Nat, n \in Nat, u \in Nat \ {0} : m > n => m * u > n * u
  OBVIOUS
<1>3. \A m \in Nat, n \in Nat, u \in Nat \ {0} : m <= n => m * u <= n * u
  OBVIOUS
<1>4. a * Unit \in Nat
  BY <1>1
<1> QED BY <1>1, <1>2, <1>3, <1>4

\* The age the code reads out of a timestamp (protocol.rs:560-624), of any date from 1970 on,
\* at any time of day and in any zone, is the time since the cloud heard the thermometer: the
\* status published at the end of a poll (mqtt.rs:332) is the status in truth.
THEOREM StampsAreRead == Spec => []StampsAgree
<1>1. ASSUME NEW a \in 0 .. CutOff PROVE AgeTable[a]
  <2>1. ASSUME NEW d \in Dates, NEW t \in Times, NEW o \in Offsets, Heard(d, t, o) >= 0
        PROVE  is_stale(Stamp(d, t, o), Clock(d, t, o, a * Unit), 60) <=> a > StaleLimit
    <3>1. a \in Nat
      BY CloudAssumption
    <3>2. a * Unit \in Nat /\ (a * Unit > 60 <=> a > StaleLimit)
      BY <3>1, TicksAreSeconds
    <3>3. age_secs(Stamp(d, t, o), Clock(d, t, o, a * Unit)) = a * Unit
      BY <2>1, <3>2, AgeIs
    <3> QED BY <3>2, <3>3 DEF is_stale
  <2>2. ASSUME NEW h \in Heardable
        PROVE  is_stale(Stamp(h[1], h[2], h[3]), Clock(h[1], h[2], h[3], a * Unit), 60)
                 <=> a > StaleLimit
    <3>1. h[1] \in Dates /\ h[2] \in Times /\ h[3] \in Offsets /\ Heard(h[1], h[2], h[3]) >= 0
      BY DEF Heardable
    <3> QED BY <2>1, <3>1
  <2> QED BY <2>2 DEF AgeTable
<1>2. TypeOK => age \in 0 .. CutOff
  BY DEF TypeOK
<1>3. TypeOK => StampsAgree
  BY <1>1, <1>2 DEF StampsAgree
<1> QED BY <1>3, TypeCorrect, PTL

=============================================================================
