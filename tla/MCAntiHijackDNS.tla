---- MODULE MCAntiHijackDNS ----
(* Three replies, and waits shorter and longer than the timeout and min_rtt. *)
EXTENDS AntiHijackDNS
====
