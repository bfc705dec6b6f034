---- MODULE MCTunnel ----
(***************************************************************************)
(* Every mode, with every choice of the options the control flow looks at. *)
(***************************************************************************)
EXTENDS Tunnel

AllPolicies == Policies
ModesForSNI == {q \in Policies : q.sniff = "off" /\ ~q.replyFirst /\ ~q.httpStatus /\ q.echPass}
====
