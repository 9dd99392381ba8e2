---------------------------- MODULE CommandFeed ----------------------------
(***************************************************************************)
(* What the reader task of a connection to the broker promises, without a  *)
(* byte in it: the packets the broker sends are taken one by one in their  *)
(* order, an alarm command among them goes to the command channel if there *)
(* is room, and anything else goes nowhere. What is on the way when the    *)
(* connection ends is lost.                                                *)
(***************************************************************************)
EXTENDS Integers, Sequences

CONSTANTS
  Packets,      \* what a broker sends
  Command(_),   \* the alarm command in a packet, or NoCommand
  NoCommand,
  CmdCap        \* capacity of the command channel (16)

VARIABLES
  pending,      \* packets sent and not yet taken
  cmds          \* the command channel

Queue(cmd) == IF cmd # NoCommand /\ Len(cmds) < CmdCap THEN Append(cmds, cmd) ELSE cmds

Send    == \E p \in Packets : pending' = Append(pending, p) /\ UNCHANGED cmds
Take    == /\ pending # <<>>
           /\ pending' = Tail(pending)
           /\ cmds' = Queue(Command(Head(pending)))
Consume == cmds # <<>> /\ cmds' = Tail(cmds) /\ UNCHANGED pending
Reset   == pending' = <<>> /\ cmds' = <<>>

Init == pending = <<>> /\ cmds = <<>>
Next == Send \/ Take \/ Consume \/ Reset
Spec == Init /\ [][Next]_<<pending, cmds>>
=============================================================================
