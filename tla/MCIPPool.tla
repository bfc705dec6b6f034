---- MODULE MCIPPool ----
(***************************************************************************)
(* Three IPs of which two are kept, two tests at a time, losses and two    *)
(* latencies; a caller of Get whose copy may be older than the last scan,  *)
(* weights up to 3 and a counter that wraps within a turn.                 *)
(***************************************************************************)
EXTENDS IPPool

Fast == [fails |-> 0, latency |-> 1]
Slow == [fails |-> 0, latency |-> 5]
Lossy == [fails |-> 1, latency |-> 1]
Measurements(i) == CASE i = 1 -> {Fast, Slow} [] i = 2 -> {Lossy} [] i = 3 -> {Slow}

TwoPools == {[wait |-> TRUE, multi |-> FALSE, narrow |-> TRUE],
             [wait |-> FALSE, multi |-> TRUE, narrow |-> FALSE]}
====
