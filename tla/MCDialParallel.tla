---- MODULE MCDialParallel ----
(* Up to four addresses: one may win while another is dialed and a third is not started. *)
EXTENDS DialParallel
====
