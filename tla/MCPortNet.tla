----------------------------- MODULE MCPortNet -------------------------------
(* A small instance of PortNet: two contexts, three descriptors and one    *)
(* other party, so that descriptors run out and are handed out again.      *)
EXTENDS PortNet
=============================================================================
