------------------------------ MODULE BleFrames ------------------------------
(***************************************************************************)
(* How a command is cut into BLE writes (protocol.rs, frame_command): each *)
(* chunk has its number, the number of all chunks and a piece of the       *)
(* command. A longer command stops the program.                            *)
(***************************************************************************)
EXTENDS Integers, Sequences

CONSTANTS MAX_CHUNK_PAYLOAD,   \* bytes of the command in one chunk (18)
          MAX_CHUNKS           \* 3

ASSUME FramesAssumption ==
  /\ MAX_CHUNK_PAYLOAD \in Nat \ {0}
  /\ MAX_CHUNKS \in Nat \ {0}

TooLong(bytes) == Len(bytes) > MAX_CHUNK_PAYLOAD * MAX_CHUNKS

Chunks(n) == (n + MAX_CHUNK_PAYLOAD - 1) \div MAX_CHUNK_PAYLOAD

Chunk(bytes, i) ==
  LET from == (i - 1) * MAX_CHUNK_PAYLOAD
      to   == IF i * MAX_CHUNK_PAYLOAD < Len(bytes) THEN i * MAX_CHUNK_PAYLOAD ELSE Len(bytes)
  IN [number |-> i, of |-> Chunks(Len(bytes)), data |-> SubSeq(bytes, from + 1, to)]

Rounded(bytes) ==   \* mutant: the length is rounded down
  [i \in 1 .. Len(bytes) \div MAX_CHUNK_PAYLOAD |-> Chunk(bytes, i)]
frame_command(bytes) == [i \in 1 .. Chunks(Len(bytes)) |-> Chunk(bytes, i)]
=============================================================================
