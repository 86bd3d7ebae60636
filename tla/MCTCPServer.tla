----------------------------- MODULE MCTCPServer -----------------------------
(* Two connections and a table with one id: see the configuration. *)
EXTENDS TCPServer
==============================================================================
