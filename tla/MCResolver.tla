---- MODULE MCResolver ----
(* Two goroutines, two domains and modes of every kind; or one call under a multi mode. *)
EXTENDS Resolver

Prefer4 == [first |-> v4, only |-> FALSE, multi |-> FALSE]
Only6 == [first |-> v6, only |-> TRUE, multi |-> FALSE]
Multi4 == [first |-> v4, only |-> TRUE, multi |-> TRUE]
ManyModes == {Prefer4, Only6, Multi4, Unset}
MultiModes == {Multi4}
====
