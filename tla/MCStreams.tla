------------------------------ MODULE MCStreams -------------------------------
(* A small instance of Streams: frames of up to three bytes, reads of two; *)
(* one peer may fill the ring and go on, the other one keeps it company.   *)
EXTENDS Streams

PeersSend == [c \in Ctx |-> IF c = 0 THEN 4 ELSE 2]
=============================================================================
