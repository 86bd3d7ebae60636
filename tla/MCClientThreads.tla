---------------------------- MODULE MCClientThreads ----------------------------
(* The io thread and one thread of the application. *)
EXTENDS ClientThreads

(* The connections are numbers, by the order in which they are accepted: nothing else *)
(* tells them apart.                                                                  *)
InOrder == \A c \in accepted' : 1 .. c \subseteq accepted'

MCThreadSpec == ThreadInit /\ [][ThreadNext /\ InOrder]_threadVars /\ Fairness
================================================================================
