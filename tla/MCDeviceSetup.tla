---------------------------- MODULE MCDeviceSetup ----------------------------
(* Constants of the setup's run that a configuration cannot write down. *)
EXTENDS DeviceSetup

CONSTANTS w1, w2

\* The longest that fits, and one byte more.
EdgeLengths == (w1 :> MAX_CHUNK_PAYLOAD * MAX_CHUNKS) @@ (w2 :> MAX_CHUNK_PAYLOAD * MAX_CHUNKS + 1)
=============================================================================
