------------------------------- MODULE MCBoot --------------------------------
(* The instance of Boot in which every call may fail, the power too.       *)
EXTENDS Boot
=============================================================================
