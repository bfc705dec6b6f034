---- MODULE TTLProbe ----
(***************************************************************************)
(* The search for the TTL of the fake packet (ttlProbeManager, in          *)
(* internal/core/desync.go): the lowest TTL with which a connection to the *)
(* server can be opened, found by bisection, one dial at a time, kept in a *)
(* cache per address and shared by a flight group per address and port.    *)
(*                                                                         *)
(* A dial with a TTL of at least hops may succeed or be lost, one with a   *)
(* lower TTL fails.  Cache and flight group are used by their contracts    *)
(* (LRUCache, SingleFlight).  All sessions are for one server.             *)
(***************************************************************************)
EXTENDS Integers

CONSTANTS
  Sessions,   \* the sessions that may need a fake TTL
  Worlds      \* configurations and networks to consider

\* hops: distance of the server.  cache, flight: disable_cache is off, singleflight is
\* on.  rules: the parsed fake_ttl_rules, {} for none.  conf: each session's policy;
\* keep: ttl_cache_ttl is set and not zero; fakeTTL, when neither 0 nor -1, is used as is.
ASSUME TTLProbeAssumption ==
  \A w \in Worlds :
    /\ w.hops \in Nat \ {0} /\ w.cache \in BOOLEAN /\ w.flight \in BOOLEAN
    /\ \A r \in w.rules : r.threshold \in Nat /\ r.typ \in {"-", "="} /\ r.val \in Nat
    /\ \A r, q \in w.rules : r.threshold = q.threshold => r = q
    /\ \A c \in Sessions :
         /\ w.conf[c].maxTTL \in Nat /\ w.conf[c].attempts \in Nat
         /\ w.conf[c].keep \in BOOLEAN /\ w.conf[c].fakeTTL \in Int

VARIABLES
  world,    \* one of Worlds
  cached,   \* the entry of ttlCache: its TTL (-1 for none), and whether a dial was lost
  probe     \* each session's call of getFakeTTL

probeVars == <<world, cached, probe>>

conf(c) == world.conf[c]
noEntry == [ttl |-> -1, lossy |-> FALSE]

\* low, high, mid, found: the locals of probeMinimumReachableTTL; tries: attempts left for
\* mid; lossy: a dial was lost in the search the result is from; by: the session that
\* made that search; ttl: what the call returns.
noProbe(c) == [pc |-> "idle", low |-> 1, high |-> 0, mid |-> 0, tries |-> 0, found |-> -1,
               lossy |-> FALSE, by |-> c, ttl |-> -1]

Calls == [pc: {"idle", "lookup", "do", "search", "wait", "calc", "done", "failed"},
          low: Nat, high: Int, mid: Nat, tries: Nat, found: Int, lossy: BOOLEAN,
          by: Sessions, ttl: Int]

ProbeTypeOK ==
  /\ world \in Worlds
  /\ cached \in [ttl: Int, lossy: BOOLEAN]
  /\ probe \in [Sessions -> Calls]

ProbeInit ==
  /\ world \in Worlds
  /\ cached = noEntry
  /\ probe = [c \in Sessions |-> noProbe(c)]

----
\* Session c's call becomes s; nothing else changes.
Becomes(c, s) == probe' = [probe EXCEPT ![c] = s] /\ UNCHANGED <<world, cached>>

\* getFakeTTL: a TTL of the policy is used as it is.
getFakeTTL(c) ==
  /\ probe[c].pc = "idle"
  /\ IF conf(c).fakeTTL \in {0, -1}
     THEN Becomes(c, [probe[c] EXCEPT !.pc = "lookup"])
     ELSE Becomes(c, [probe[c] EXCEPT !.pc = "done", !.ttl = conf(c).fakeTTL])

\* getMinimumReachableTTL looks into the cache.
Lookup(c) ==
  /\ probe[c].pc = "lookup"
  /\ IF world.cache /\ cached.ttl # -1
     THEN Becomes(c, [probe[c] EXCEPT !.pc = "calc", !.ttl = cached.ttl, !.lossy = cached.lossy])
     ELSE Becomes(c, [probe[c] EXCEPT !.pc = "do"])

\* The searches a call of Do would join.
running(c) == {l \in Sessions : world.flight /\ probe[l].pc = "search"
                                /\ conf(l).port = conf(c).port}

\* ttlProbingGroup.Do, or no group: join the search under way, or begin one.
Do(c) ==
  /\ probe[c].pc = "do"
  /\ \/ \E l \in running(c) : Becomes(c, [probe[c] EXCEPT !.pc = "wait", !.by = l])
     \/ /\ running(c) = {}
        /\ Becomes(c, [probe[c] EXCEPT !.pc = "search", !.high = conf(c).maxTTL])

\* The outer loop of probeMinimumReachableTTL.
Bisect(c) ==
  /\ probe[c].pc = "search" /\ probe[c].tries = 0 /\ probe[c].low <= probe[c].high
  /\ Becomes(c, [probe[c] EXCEPT !.mid = (probe[c].low + probe[c].high) \div 2,
                                 !.tries = conf(c).attempts])

\* The inner loop: a dial that succeeds ends the attempts for mid.
DialReaches(c) ==
  /\ probe[c].pc = "search" /\ probe[c].tries > 0 /\ probe[c].mid >= world.hops
  /\ Becomes(c, [probe[c] EXCEPT !.found = probe[c].mid, !.high = probe[c].mid - 1,
                                 !.tries = 0])

\* A dial that fails moves low at once; the attempts left are made with the same mid.
DialFails(c) ==
  /\ probe[c].pc = "search" /\ probe[c].tries > 0
  /\ Becomes(c, [probe[c] EXCEPT !.low = probe[c].mid + 1, !.tries = probe[c].tries - 1,
                                 !.lossy = (probe[c].lossy \/ probe[c].mid >= world.hops)])

\* Mutant of Searched: the search stops when one TTL is left.
SearchedShort(c) ==
  probe[c].pc = "search" /\ probe[c].tries = 0 /\ probe[c].low >= probe[c].high

Searched(c) ==
  probe[c].pc = "search" /\ probe[c].tries = 0 /\ probe[c].low > probe[c].high

\* The search is over: the cache keeps a TTL that was found, and everyone in the flight
\* gets what was found.
SearchEnd(c) ==
  LET s == probe[c] IN
  /\ Searched(c)
  /\ cached' = IF s.found # -1 /\ world.cache /\ conf(c).keep
               THEN [ttl |-> s.found, lossy |-> s.lossy] ELSE cached
  /\ probe' = [d \in Sessions |->
                 IF d = c \/ (probe[d].pc = "wait" /\ probe[d].by = c)
                 THEN [probe[d] EXCEPT !.pc = "calc", !.ttl = s.found, !.lossy = s.lossy,
                                       !.by = c]
                 ELSE probe[d]]
  /\ UNCHANGED world

\* calcTTL: the rule with the highest threshold that ttl reaches, ttl - 1 without rules.
calcTTL(ttl) ==
  LET reached == {r \in world.rules : ttl >= r.threshold}
      rule == CHOOSE r \in reached : \A q \in reached : q.threshold <= r.threshold
  IN IF world.rules = {} THEN ttl - 1
     ELSE IF rule.typ = "-" THEN ttl - rule.val ELSE rule.val

noRule(ttl) == world.rules # {} /\ \A r \in world.rules : ttl < r.threshold

\* The rest of getFakeTTL.
Calc(c) ==
  LET ttl == probe[c].ttl IN
  /\ probe[c].pc = "calc"
  /\ IF ttl = -1 \/ noRule(ttl) THEN Becomes(c, [probe[c] EXCEPT !.pc = "failed"])
     ELSE Becomes(c, [probe[c] EXCEPT !.pc = "done", !.ttl = calcTTL(ttl)])

\* The entry's lifetime ends, or the cache evicts it.
Expire ==
  /\ cached.ttl # -1
  /\ cached' = noEntry
  /\ UNCHANGED <<world, probe>>

ProbeStep(c) ==
  \/ getFakeTTL(c) \/ Lookup(c) \/ Do(c) \/ Bisect(c) \/ DialReaches(c) \/ DialFails(c)
  \/ SearchEnd(c) \/ Calc(c)

ProbeNext == Expire \/ \E c \in Sessions : ProbeStep(c)

----
\* What a search of a session finds when no dial is lost.
Exact(c) == IF world.hops <= conf(c).maxTTL THEN world.hops ELSE -1

\* A call that has its answer.
Answered(s) ==
  s.pc = "calc" => /\ s.ttl # -1 => s.ttl >= world.hops
                   /\ ~s.lossy => s.ttl \in {world.hops, Exact(s.by)}

\* Bisection with dials that may be lost: a TTL that is found, or kept in the cache,
\* reaches the server; if no dial of the search was lost, it is the lowest one that does,
\* and none is found only if the max_ttl of the search is too low.
SearchExact ==
  /\ \A c \in Sessions : Answered(probe[c])
  /\ cached.ttl # -1 => /\ cached.ttl >= world.hops
                        /\ ~cached.lossy => cached.ttl = world.hops

\* A call that has not begun to search is as it was made.
Unsearched(s) ==
  s.pc \in {"idle", "lookup", "do"} =>
    s.low = 1 /\ s.found = -1 /\ s.lossy = FALSE /\ s.tries = 0

\* The bracket of a search under way: what has been found reaches the server and is just
\* above high; without a loss, low has not passed the server's distance.
Bracket(c, s) ==
  s.pc = "search" =>
    /\ s.low >= 1 /\ s.high <= conf(c).maxTTL
    /\ s.found = -1 => s.high = conf(c).maxTTL
    /\ s.found # -1 => s.found = s.high + 1 /\ s.found >= world.hops /\ s.found <= conf(c).maxTTL
    /\ ~s.lossy => s.low <= world.hops
    /\ s.tries > 0 => s.mid >= 1 /\ s.mid <= s.high

ProbeInv ==
  /\ ProbeTypeOK /\ SearchExact
  /\ \A c \in Sessions : Unsearched(probe[c]) /\ Bracket(c, probe[c])
====
