---- MODULE MCSingleFlight ----
(* A leader, a waiter and a latecomer, on one key or on two. *)
EXTENDS SingleFlight
====
