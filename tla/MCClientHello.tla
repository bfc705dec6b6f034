---- MODULE MCClientHello ----
(***************************************************************************)
(* Three families of worlds: one session that fragments, under all options *)
(* and several shapes of the record; one session behind a fake packet, on  *)
(* both systems, with fixed and searched TTLs, rules and losses; and two   *)
(* such sessions that share the cache, the flight group and a semaphore    *)
(* with a single place.                                                    *)
(***************************************************************************)
EXTENDS ClientHello

CONSTANTS s1, s2

Hello60 == [len |-> 64, sniStart |-> 58, sniLen |-> 5, dot |-> 2]
Records == {Hello60, [len |-> 63, sniStart |-> 58, sniLen |-> 5, dot |-> -1],
            [len |-> 75, sniStart |-> 60, sniLen |-> 2, dot |-> -1],
            [len |-> 70, sniStart |-> 60, sniLen |-> 3, dot |-> 0]}
Options(h) == [records: {0, 2, 3, 5}, segments: {0, 2, 3, 7, 90, -1, -2},
               minor: IF h.dot = -1 THEN {0} ELSE {4}, oob: BOOLEAN, oobex: BOOLEAN]
\* An empty name, in the middle and at the end.
Nameless == [len: {58, 64}, sniStart: {58}, sniLen: {0}, dot: {-1}]
FewOptions == [records: {0, 3}, segments: {3, -1}, minor: {0}, oob: {FALSE}, oobex: BOOLEAN]
Unset == [records |-> 0, segments |-> 0, minor |-> 0, oob |-> FALSE, oobex |-> FALSE]

Conf(port, maxTTL, attempts, keep, fakeTTL) ==
  [port |-> port, maxTTL |-> maxTTL, attempts |-> attempts, keep |-> keep, fakeTTL |-> fakeTTL]

Both(x, y) == [c \in Sessions |-> IF c = s1 THEN x ELSE y]

World == [hops |-> 2, cache |-> TRUE, flight |-> TRUE, rules |-> {},
          conf |-> Both(Conf(443, 4, 1, TRUE, 0), Conf(443, 4, 1, TRUE, 0)),
          os |-> "linux", sem |-> FALSE, units |-> 1, hello |-> Hello60,
          via |-> Both("tunnel", "tunnel"), mode |-> Both("none", "none"),
          opts |-> Both(Unset, Unset)]

Fragmenting ==
  UNION {{[World EXCEPT !.hello = h, !.mode = Both("tls-rf", "none"), !.opts = Both(o, Unset)] :
            o \in IF h \in Nameless THEN FewOptions ELSE Options(h)} : h \in Records \cup Nameless}
Others ==
  {[World EXCEPT !.mode = Both(m, "none"), !.via = Both(v, v), !.opts = Both(o, Unset)] :
     m \in {"direct", "unset", "tls-rf"}, v \in {"tunnel", "doh"},
     o \in {Unset, [Unset EXCEPT !.records = 3, !.minor = 4]}}

\* Two sets of rules; the second begins like that of the repository's config.json.
Rule(threshold, typ, val) == [threshold |-> threshold, typ |-> typ, val |-> val]
AnyRules == {{}, {Rule(1, "-", 2), Rule(3, "=", 1)}, {Rule(0, "-", 1), Rule(3, "=", 3)}}

\* A TTL that is searched for, and one of the policy.
Searching == [rules: AnyRules, maxTTL: {2, 4}, attempts: {0, 2}, fakeTTL: {0}]
Fixed == [rules: {{}}, maxTTL: {4}, attempts: {2}, fakeTTL: {2}]
Faking ==
  {[World EXCEPT !.hops = h, !.os = os, !.units = 2, !.rules = w.rules,
                 !.mode = Both("ttl-d", "none"), !.via = Both("doh", "tunnel"),
                 !.conf = Both(Conf(443, w.maxTTL, w.attempts, TRUE, w.fakeTTL),
                               Conf(443, 4, 1, TRUE, 0))] :
     h \in {1, 3}, os \in {"linux", "windows"}, w \in Searching \cup Fixed}

Sharing ==
  {[World EXCEPT !.cache = w.shared, !.flight = w.shared, !.os = "windows", !.sem = TRUE,
                 !.mode = Both("ttl-d", "ttl-d"),
                 !.conf = Both(Conf(443, 2, 1, TRUE, 0), Conf(w.port, w.maxTTL, 1, FALSE, 0))] :
     w \in [shared: BOOLEAN, port: {443}, maxTTL: {1}] \cup [shared: {TRUE}, port: {443, 8443},
                                                            maxTTL: {3}]}

AllWorlds == Fragmenting \cup Others \cup Faking \cup Sharing
====
