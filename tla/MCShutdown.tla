------------------------------- MODULE MCShutdown -------------------------------
(* The instance of Shutdown that TLC checks: the constants are in the cfg. *)
EXTENDS Shutdown
================================================================================
