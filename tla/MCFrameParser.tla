----------------------------- MODULE MCFrameParser -----------------------------
(* One read of every header form, and reads that cut short frames anywhere. *)
EXTENDS FrameParser
================================================================================
