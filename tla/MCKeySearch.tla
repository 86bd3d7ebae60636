------------------------------- MODULE MCKeySearch -------------------------------
(* Every sorted vector of at most MaxKeys keys, every key looked for in it. *)
EXTENDS KeySearch
================================================================================
