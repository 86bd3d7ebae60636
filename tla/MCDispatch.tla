------------------------------- MODULE MCDispatch -------------------------------
(***************************************************************************)
(* Two owners, the io thread and the queue, with handlers of every kind;    *)
(* the handlers p2 and p3 share a key.                                      *)
(***************************************************************************)
EXTENDS Dispatch

CONSTANTS a1, a2, p1, p2, p3, p4

MCKeyOf   == [k \in PKeys |-> IF k = p1 THEN 1 ELSE IF k = p4 THEN 3 ELSE 2]
MCOwnerOf == [k \in PKeys |-> IF k \in {p3, p4} THEN a2 ELSE a1]

(* The queue is in use, or a handler besides p1. *)
Queueing    == packetKey # <<>> \/ \E t \in Threads : pc[t] = "queue"
Registering ==
  LET called == { op[t].pKey : t \in { u \in Threads : "pKey" \in DOMAIN op[u] } }
  IN  (owned \cup deleted \cup called) \ {p1} # {}

(* Bounds: queued packets are for the key of p1, and for no other handler there is. *)
MCNext ==
  /\ Next
  /\ packetKey' \in Seq({1})
  /\ ~(Queueing' /\ Registering')

MCSpec == Init /\ [][MCNext]_vars /\ Fairness
================================================================================
