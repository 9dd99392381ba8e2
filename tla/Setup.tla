-------------------------------- MODULE Setup --------------------------------
(***************************************************************************)
(* What the setup commands share: which one runs, for which wish, and what *)
(* it tells the user in the end.                                           *)
(***************************************************************************)
EXTENDS AtModule

VARIABLES
  tool,         \* the command that runs: "none" or a name of Tools
  wish,         \* what it is to set
  report,       \* none, done or failed
  mixed,        \* history: an answer was taken for the answer to another command
  timedOut      \* history: it went on after waiting for an answer in vain

toolVars == <<tool, wish, report, mixed, timedOut>>

Tools == {"probe", "info", "configure", "provision", "scan", "autodiscover"}

ToolTypeOK ==
  /\ tool \in {"none"} \cup Tools
  /\ wish \in Values
  /\ report \in {"none", "done", "failed"}
  /\ mixed \in BOOLEAN
  /\ timedOut \in BOOLEAN

-----------------------------------------------------------------------------
Begin(t, w) ==
  /\ tool = "none"
  /\ tool' = t
  /\ wish' = w
  /\ report' = "none"
  /\ mixed' = FALSE
  /\ timedOut' = FALSE

\* The command returns; its socket or connection is closed.
End(r) ==
  /\ tool' = "none"
  /\ report' = r
  /\ UNCHANGED wish

Taken(c) == mixed' = (mixed \/ Head(in).to # c)

ToolInit ==
  /\ tool = "none"
  /\ wish = Factory
  /\ report = "none"
  /\ mixed = FALSE
  /\ timedOut = FALSE
=============================================================================
