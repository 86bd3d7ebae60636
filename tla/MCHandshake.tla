------------------------------ MODULE MCHandshake ------------------------------
(***************************************************************************)
(* Every sequence of reads of every length, and after a request that came  *)
(* in one read the reply to it, for keys about the sizes at which SHA1     *)
(* takes another block.                                                    *)
(***************************************************************************)
EXTENDS Handshake, AcceptKey

(* With the GUID 37, 55 to 57, 60, 63 to 65 and 128 bytes, some above 127. *)
MCKeys == {[i \in 1 .. n |-> 33 + ((89 * i) % 190)] : n \in {1, 19, 20, 21, 24, 27, 28, 29, 92}}

MCInit == Init /\ AkInit

(* handle_request runs inside the call of parse_handshake that completed the request. *)
MCNext ==
  \/ place = "waiting" /\ Next /\ UNCHANGED akVars
  \/ /\ inCall /\ status = "101" /\ start = "method_start" /\ fresh = "complete"
     /\ current = "key"
     /\ AkNext
     /\ UNCHANGED vars

MCSpec == MCInit /\ [][MCNext]_<<vars, akVars>>
================================================================================
