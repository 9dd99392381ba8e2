---------------------------- MODULE MCCloudTime ----------------------------
(* Constants of the cloud bridge's run that a configuration cannot write down. *)
EXTENDS CloudTime

EdgeDates ==
  {<<2026, m, 1>> : m \in 1 .. 12} \cup {<<y, 1, 1>> : y \in {1970, 1972, 2000, 2001, 2101}}
    \cup {<<y, 12, 31>> : y \in {1971, 1999, 2000, 2028, 2099, 2100}}
    \cup {<<y, 2, 28>> : y \in {2000, 2027, 2028, 2100}}
    \cup {<<y, 2, 29>> : y \in {1972, 2000, 2028}}
    \cup {<<y, 3, 1>>  : y \in {1972, 2000, 2027, 2028, 2100}}

EdgeTimes   == {<<0, 0, 0>>, <<7, 59, 30>>, <<23, 59, 59>>}
EdgeOffsets == {<<"Z", 0, 0>>, <<"+", 8, 0>>, <<"+", 5, 45>>, <<"-", 9, 30>>}
=============================================================================
