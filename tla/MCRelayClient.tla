--------------------------- MODULE MCRelayClient -----------------------------
(* Small instances of RelayClient: one relay given by its address, one     *)
(* given by name, and a connection that competes for the descriptors.      *)
EXTENDS RelayClient
=============================================================================
