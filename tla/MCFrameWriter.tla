----------------------------- MODULE MCFrameWriter -----------------------------
(* Every size around the limits of the three forms. *)
EXTENDS FrameWriter

SizesAroundLimits ==
  0 .. 600 \cup 65530 .. 65540 \cup {256 * 256 * 256, 2147483647}
================================================================================
