---- MODULE MCForwardTCP ----
(* Up to two chunks each way. *)
EXTENDS ForwardTCP
====
