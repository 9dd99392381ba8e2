--------------------------- MODULE MCLocalBridge ---------------------------
(* Constants of the bridge's runs that a configuration cannot write down. *)
EXTENDS LocalBridge, FiniteSets

\* Once an alarm packet is lost Agreement asks nothing more, so no run looks on.
NothingLost == ~alarmLost

\* Bound: a thermometer's regular packet is read before it sends the next one.
OneReport == Cardinality({i \in 1 .. Len(up) : ~IsAlarm(up[i].body)}) <= 1
=============================================================================
