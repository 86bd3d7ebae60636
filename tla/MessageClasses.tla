------------------------------ MODULE MessageClasses ------------------------------
(* The classes of Setup.pb.cc and PackFW.pb.cc. *)

In  == INSTANCE PackHeaderIn
Out == INSTANCE PackHeaderOut
A0  == INSTANCE PackA0
A1  == INSTANCE PackA1
A2  == INSTANCE PackA2
====================================================================================
