---- MODULE ClientHelloProofs ----
(***************************************************************************)
(* The search for the TTL is exact (TTLProbe), the fake packet is never    *)
(* seen by the server (DesyncSend), and fragments come together again with *)
(* the host name cut (Fragment), for every distance, max_ttl and number of *)
(* attempts, any cut of the packet, any record and options, and any number *)
(* of sessions that share the cache, the flight group and the semaphore.   *)
(***************************************************************************)
EXTENDS ClientHello, SequenceTheorems, WellFoundedInduction, TLAPS

(* The search. *)

\* What the constants say of the world that was chosen.
LEMMA WorldTyped ==
  ASSUME world \in Worlds
  PROVE  /\ world.hops \in Nat \ {0} /\ world.cache \in BOOLEAN /\ world.flight \in BOOLEAN
         /\ \A c \in Sessions : /\ conf(c).maxTTL \in Nat /\ conf(c).attempts \in Nat
                                /\ conf(c).keep \in BOOLEAN /\ conf(c).fakeTTL \in Int
BY TTLProbeAssumption DEF conf

\* The middle of a bracket lies in it.
LEMMA Middle ==
  ASSUME NEW l \in Nat, NEW h \in Int, l >= 1, l <= h
  PROVE  /\ (l + h) \div 2 \in Nat /\ (l + h) \div 2 >= 1 /\ (l + h) \div 2 <= h
OBVIOUS

\* Where some rule applies, the fake TTL is a number.
LEMMA CalcTyped ==
  ASSUME world \in Worlds, NEW ttl \in Int, ~noRule(ttl)
  PROVE  calcTTL(ttl) \in Int
<1> DEFINE reached == {r \in world.rules : ttl >= r.threshold}
           below == {ttl - r.threshold : r \in reached}
           highest(r) == \A q \in reached : q.threshold <= r.threshold
<1>1. \A r \in world.rules : r.threshold \in Nat /\ r.val \in Nat
      BY TTLProbeAssumption
<1>2. CASE world.rules = {}
      BY <1>2 DEF calcTTL
<1>3. CASE world.rules # {}
  <2>1. reached # {}
        BY <1>1, <1>3 DEF noRule
  <2>2. below \subseteq Nat /\ below # {}
        BY <1>1, <2>1
  <2>3. PICK d \in below : \A e \in below : ~(<<e, d>> \in OpToRel(<, Nat))
        BY <2>2, NatLessThanWellFounded, WFMin
  <2>4. \A e \in below : ~(e < d)
        BY <2>2, <2>3, Zenon DEF OpToRel
  <2> HIDE DEF below
  <2>5. \E r \in reached : highest(r)
    <3>1. PICK r \in reached : d = ttl - r.threshold
          BY DEF below
    <3>2. ASSUME NEW q \in reached
          PROVE  q.threshold <= r.threshold
      <4>1. ttl - q.threshold \in below
            BY DEF below
      <4>2. ~(ttl - q.threshold < ttl - r.threshold)
            BY <2>4, <3>1, <4>1
      <4>3. QED
            BY <1>1, <4>2
    <3>3. QED
          BY <3>2
  <2> DEFINE rule == CHOOSE r \in reached : highest(r)
  <2>6. rule \in reached
        BY <2>5
  <2>7. calcTTL(ttl) = IF rule.typ = "-" THEN ttl - rule.val ELSE rule.val
        BY <1>3 DEF calcTTL
  <2> HIDE DEF rule
  <2>8. QED
        BY <1>1, <2>6, <2>7
<1>4. QED
      BY <1>2, <1>3

\* Initially nothing is cached and nobody has searched.
LEMMA InitInv == ProbeInit => ProbeInv
BY DEF ProbeInit, ProbeInv, ProbeTypeOK, Unsearched, Bracket, SearchExact, Answered, Calls,
       noProbe, noEntry

\* Records of calls with other values in some fields are records of calls.
LEMMA CallsClosed ==
  ASSUME NEW s \in Calls, NEW l \in Nat, NEW h \in Int, NEW f \in Int, NEW n \in Nat,
         NEW b \in BOOLEAN
  PROVE  /\ [s EXCEPT !.pc = "search", !.high = h] \in Calls
         /\ [s EXCEPT !.found = f, !.high = h, !.tries = n] \in Calls
         /\ [s EXCEPT !.low = l, !.tries = n, !.lossy = b] \in Calls
<1>1. [s EXCEPT !.pc = "search", !.high = h] \in Calls
      BY DEF Calls
<1>2. [s EXCEPT !.found = f, !.high = h, !.tries = n] \in Calls
      BY DEF Calls
<1>3. [s EXCEPT !.low = l, !.tries = n, !.lossy = b] \in Calls
      BY DEF Calls
<1>4. QED
      BY <1>1, <1>2, <1>3

\* A step of one session keeps the invariant if the session's call does.
LEMMA OneSession ==
  ASSUME ProbeInv, NEW c \in Sessions, NEW s \in Calls, Becomes(c, s),
         Answered(s), Unsearched(s), Bracket(c, s)
  PROVE  ProbeInv'
<1> USE DEF ProbeInv, Becomes
<1>1. ProbeTypeOK'
      BY DEF ProbeTypeOK
<1>2. \A d \in Sessions : probe'[d] = IF d = c THEN s ELSE probe[d]
      BY DEF ProbeTypeOK
<1>3. SearchExact'
      BY DEF SearchExact, Answered, Exact, conf
<1>4. (\A d \in Sessions : Unsearched(probe[d]) /\ Bracket(d, probe[d]))'
      BY DEF Bracket, conf
<1>5. QED
      BY <1>1, <1>3, <1>4

\* The end of a search: low is past high, and what was found is what was promised.
LEMMA SearchOver ==
  ASSUME ProbeInv, NEW c \in Sessions, Searched(c)
  PROVE  /\ probe[c].found # -1 => probe[c].found >= world.hops
         /\ ~probe[c].lossy => probe[c].found = Exact(c)
<1>1. /\ probe[c].low \in Nat /\ probe[c].high \in Int /\ probe[c].found \in Int
      /\ world.hops \in Nat /\ conf(c).maxTTL \in Nat
      BY WorldTyped DEF ProbeInv, ProbeTypeOK, Calls
<1>2. Bracket(c, probe[c]) /\ probe[c].pc = "search" /\ probe[c].low > probe[c].high
      BY DEF ProbeInv, Searched
<1>3. QED
      BY <1>1, <1>2 DEF Bracket, Exact

\* Every step keeps the invariant.
LEMMA StepInv == ProbeInv /\ [ProbeNext]_probeVars => ProbeInv'
<1> SUFFICES ASSUME ProbeInv, [ProbeNext]_probeVars
             PROVE  ProbeInv'
    OBVIOUS
<1>1. CASE UNCHANGED probeVars
      BY <1>1
      DEF probeVars, ProbeInv, ProbeTypeOK, SearchExact, Answered, Bracket, Exact, conf
<1>2. CASE Expire
      BY <1>2
      DEF Expire, noEntry, ProbeInv, ProbeTypeOK, SearchExact, Answered, Bracket, Exact,
          conf
<1>3. ASSUME NEW c \in Sessions, ProbeStep(c)
      PROVE  ProbeInv'
  <2> DEFINE s == probe[c]
  <2>0. /\ s \in Calls /\ Answered(s) /\ Unsearched(s) /\ Bracket(c, s)
        /\ cached \in [ttl: Int, lossy: BOOLEAN]
        BY DEF ProbeInv, ProbeTypeOK, SearchExact
  <2>a. /\ world.hops \in Nat \ {0} /\ conf(c).maxTTL \in Nat /\ conf(c).attempts \in Nat
        /\ conf(c).fakeTTL \in Int
        BY WorldTyped DEF ProbeInv, ProbeTypeOK
  <2> HIDE DEF s
  <2>1. CASE getFakeTTL(c)
    <3>1. CASE Becomes(c, [s EXCEPT !.pc = "lookup"])
      <4> DEFINE t == [s EXCEPT !.pc = "lookup"]
      <4>1. t \in Calls /\ Answered(t) /\ Unsearched(t) /\ Bracket(c, t)
            BY <2>0, <2>1 DEF getFakeTTL, s, Calls, Answered, Unsearched, Bracket
      <4>2. QED
            BY <3>1, <4>1, OneSession
    <3>2. CASE Becomes(c, [s EXCEPT !.pc = "done", !.ttl = conf(c).fakeTTL])
      <4> DEFINE t == [s EXCEPT !.pc = "done", !.ttl = conf(c).fakeTTL]
      <4>1. t \in Calls /\ Answered(t) /\ Unsearched(t) /\ Bracket(c, t)
            BY <2>0, <2>a DEF Calls, Answered, Unsearched, Bracket
      <4>2. QED
            BY <3>2, <4>1, OneSession
    <3>3. QED
          BY <2>1, <3>1, <3>2 DEF getFakeTTL, s
  <2>2. CASE Lookup(c)
    <3>1. CASE /\ cached.ttl # -1
               /\ Becomes(c, [s EXCEPT !.pc = "calc", !.ttl = cached.ttl, !.lossy = cached.lossy])
      <4> DEFINE t == [s EXCEPT !.pc = "calc", !.ttl = cached.ttl, !.lossy = cached.lossy]
      <4>1. t \in Calls /\ Unsearched(t) /\ Bracket(c, t)
            BY <2>0 DEF Calls, Unsearched, Bracket
      <4>2. Answered(t)
            BY <3>1 DEF Answered, ProbeInv, SearchExact
      <4>3. QED
            BY <3>1, <4>1, <4>2, OneSession
    <3>2. CASE Becomes(c, [s EXCEPT !.pc = "do"])
      <4> DEFINE t == [s EXCEPT !.pc = "do"]
      <4>1. t \in Calls /\ Answered(t) /\ Unsearched(t) /\ Bracket(c, t)
            BY <2>0, <2>2 DEF Lookup, s, Calls, Answered, Unsearched, Bracket
      <4>2. QED
            BY <3>2, <4>1, OneSession
    <3>3. QED
          BY <2>2, <3>1, <3>2 DEF Lookup, s
  <2>3. CASE Do(c)
    <3>1. ASSUME NEW l \in running(c), Becomes(c, [s EXCEPT !.pc = "wait", !.by = l])
          PROVE  ProbeInv'
      <4> DEFINE t == [s EXCEPT !.pc = "wait", !.by = l]
      <4>1. t \in Calls /\ Answered(t) /\ Unsearched(t) /\ Bracket(c, t)
            BY <2>0 DEF running, Calls, Answered, Unsearched, Bracket
      <4>2. QED
            BY <3>1, <4>1, OneSession
    <3>2. CASE Becomes(c, [s EXCEPT !.pc = "search", !.high = conf(c).maxTTL])
      <4> DEFINE t == [s EXCEPT !.pc = "search", !.high = conf(c).maxTTL]
      <4>1. s.low = 1 /\ s.found = -1 /\ s.tries = 0
            BY <2>0, <2>3 DEF Do, s, Unsearched
      <4>2. t \in Calls
        <5>1. conf(c).maxTTL \in Int
              BY <2>a
        <5>2. QED
              BY <2>0, <5>1, CallsClosed
      <4>3. t.pc = "search" /\ t.high = conf(c).maxTTL
            OBVIOUS
      <4>4. t.low = 1 /\ t.found = -1 /\ t.tries = 0
            BY <4>1
      <4> HIDE DEF t
      <4>5. Answered(t) /\ Unsearched(t) /\ Bracket(c, t)
            BY <2>a, <4>3, <4>4 DEF Answered, Unsearched, Bracket
      <4>6. QED
            BY <3>2, <4>2, <4>5, OneSession DEF t
    <3>3. QED
          BY <2>3, <3>1, <3>2 DEF Do, s
  <2>4. CASE Bisect(c)
    <3> DEFINE m == (s.low + s.high) \div 2
               t == [s EXCEPT !.mid = m, !.tries = conf(c).attempts]
    <3>1. s.pc = "search" /\ s.low <= s.high /\ s.low >= 1
          BY <2>0, <2>4 DEF Bisect, s, Bracket
    <3>2. m \in Nat /\ m >= 1 /\ m <= s.high
          BY <2>0, <3>1 DEF Calls
    <3> HIDE DEF m
    <3>3. t \in Calls /\ Answered(t) /\ Unsearched(t) /\ Bracket(c, t)
          BY <2>0, <2>a, <3>1, <3>2 DEF Calls, Answered, Unsearched, Bracket
    <3>4. Becomes(c, t)
          BY <2>4 DEF Bisect, s, m
    <3>5. QED
          BY <3>3, <3>4, OneSession
  <2>5. CASE DialReaches(c)
    <3> DEFINE t == [s EXCEPT !.found = s.mid, !.high = s.mid - 1, !.tries = 0]
    <3>1. s.pc = "search" /\ s.tries > 0 /\ s.mid >= world.hops
          BY <2>5 DEF DialReaches, s
    <3>2. s.mid \in Nat /\ s.mid >= 1 /\ s.mid <= s.high /\ s.high \in Int /\ s.low \in Nat
          BY <2>0, <3>1 DEF Bracket, Calls
    <3>3. t \in Calls
      <4>1. s.mid \in Int /\ s.mid - 1 \in Int /\ 0 \in Nat
            BY <3>2
      <4>2. QED
            BY <2>0, <4>1, CallsClosed
    <3>4. /\ t.pc = "search" /\ t.found = s.mid /\ t.high = s.mid - 1 /\ t.tries = 0
          /\ t.low = s.low /\ t.lossy = s.lossy
          BY <3>1
    <3> HIDE DEF t
    <3>5. Answered(t) /\ Unsearched(t) /\ Bracket(c, t)
          BY <2>0, <2>a, <3>1, <3>2, <3>4 DEF Answered, Unsearched, Bracket
    <3>6. QED
          BY <2>5, <3>3, <3>5, OneSession DEF DialReaches, s, t
  <2>6. CASE DialFails(c)
    <3> DEFINE lost == s.lossy \/ s.mid >= world.hops
               t == [s EXCEPT !.low = s.mid + 1, !.tries = s.tries - 1, !.lossy = lost]
    <3>1. s.pc = "search" /\ s.tries > 0
          BY <2>6 DEF DialFails, s
    <3>2. s.mid \in Nat /\ s.mid >= 1 /\ s.mid <= s.high /\ s.high \in Int /\ s.tries \in Nat
          BY <2>0, <3>1 DEF Bracket, Calls
    <3>3. lost \in BOOLEAN
          OBVIOUS
    <3> HIDE DEF lost
    <3>4. t \in Calls
      <4>1. s.mid + 1 \in Nat /\ s.tries - 1 \in Nat
            BY <3>1, <3>2
      <4>2. QED
            BY <2>0, <3>3, <4>1, CallsClosed
    <3>5. t.pc = "search" /\ t.low = s.mid + 1 /\ t.tries = s.tries - 1
          BY <3>1
    <3>6. t.found = s.found /\ t.high = s.high /\ t.mid = s.mid /\ t.lossy = lost
          OBVIOUS
    <3> HIDE DEF t
    <3>7. ~lost => s.mid < world.hops
          BY <2>a, <3>2 DEF lost
    <3>8. Answered(t) /\ Unsearched(t) /\ Bracket(c, t)
          BY <2>0, <2>a, <3>1, <3>2, <3>6, <3>7, <3>5 DEF Answered, Unsearched, Bracket
    <3>9. QED
          BY <2>6, <3>4, <3>8, OneSession DEF DialFails, s, t, lost
  <2>7. CASE SearchEnd(c)
    <3> DEFINE joined(d) == d = c \/ (probe[d].pc = "wait" /\ probe[d].by = c)
               told(d) == [probe[d] EXCEPT !.pc = "calc", !.ttl = s.found, !.lossy = s.lossy,
                                           !.by = c]
    <3>1. \A d \in Sessions : probe'[d] = IF joined(d) THEN told(d) ELSE probe[d]
          BY <2>7 DEF SearchEnd, s
    <3>2. \A d \in Sessions : probe[d] \in Calls /\ Answered(probe[d]) /\ Unsearched(probe[d])
                              /\ Bracket(d, probe[d])
          BY DEF ProbeInv, ProbeTypeOK, SearchExact
    <3>3. /\ s.found # -1 => s.found >= world.hops
          /\ ~s.lossy => s.found = Exact(c)
          BY <2>7, SearchOver DEF SearchEnd, s
    <3>4. \A d \in Sessions : told(d) \in Calls /\ Answered(told(d)) /\ Unsearched(told(d))
                              /\ Bracket(d, told(d))
          BY <2>0, <3>2, <3>3, ZenonT(40) DEF Calls, Answered, Unsearched, Bracket
    <3>5. world' = world
          BY <2>7 DEF SearchEnd
    <3>6. ProbeTypeOK'
      <4>1. cached' \in [ttl: Int, lossy: BOOLEAN]
            BY <2>0, <2>7 DEF SearchEnd, s, Calls
      <4>2. probe' \in [Sessions -> Calls]
            BY <2>7, <3>1, <3>2, <3>4 DEF SearchEnd
      <4>3. QED
            BY <3>5, <4>1, <4>2 DEF ProbeInv, ProbeTypeOK
    <3> HIDE DEF joined, told
    <3>7. \A d \in Sessions : Answered(probe'[d]) /\ Unsearched(probe'[d]) /\ Bracket(d, probe'[d])
          BY <3>1, <3>2, <3>4
    <3>8. cached'.ttl # -1 => /\ cached'.ttl >= world.hops
                              /\ ~cached'.lossy => cached'.ttl = world.hops
      <4>1. CASE cached' = cached
            BY <4>1 DEF ProbeInv, SearchExact
      <4>2. CASE s.found # -1 /\ cached' = [ttl |-> s.found, lossy |-> s.lossy]
            BY <4>2, <3>3 DEF Exact
      <4>3. QED
            BY <2>7, <4>1, <4>2 DEF SearchEnd, s
    <3>9. QED
          BY <3>5, <3>6, <3>7, <3>8
          DEF ProbeInv, SearchExact, Answered, Bracket, Exact, conf
  <2>8. CASE Calc(c)
    <3>1. CASE Becomes(c, [s EXCEPT !.pc = "failed"])
      <4> DEFINE t == [s EXCEPT !.pc = "failed"]
      <4>1. t \in Calls /\ Answered(t) /\ Unsearched(t) /\ Bracket(c, t)
            BY <2>0 DEF Calls, Answered, Unsearched, Bracket
      <4>2. QED
            BY <3>1, <4>1, OneSession
    <3>2. CASE ~noRule(s.ttl) /\ Becomes(c, [s EXCEPT !.pc = "done", !.ttl = calcTTL(s.ttl)])
      <4> DEFINE t == [s EXCEPT !.pc = "done", !.ttl = calcTTL(s.ttl)]
      <4>1. calcTTL(s.ttl) \in Int
            BY <2>0, <3>2, CalcTyped DEF Calls, ProbeInv, ProbeTypeOK
      <4>2. t \in Calls /\ Answered(t) /\ Unsearched(t) /\ Bracket(c, t)
            BY <2>0, <4>1 DEF Calls, Answered, Unsearched, Bracket
      <4>3. QED
            BY <3>2, <4>2, OneSession
    <3>3. QED
          BY <2>8, <3>1, <3>2 DEF Calc, s
  <2>9. QED
        BY <1>3, <2>1, <2>2, <2>3, <2>4, <2>5, <2>6, <2>7, <2>8 DEF ProbeStep
<1>4. QED
      BY <1>1, <1>2, <1>3 DEF ProbeNext

----
(* The fake packet. *)

Sends == [pc: {"idle", "set", "acquire", "begin", "sleep", "copy", "restore", "join", "rest",
               "ok", "failed"},
          ttl: Int, page: [Units -> {"fake", "real"}], piped: 0..world.units, queued: Nat,
          again: {0, 1}, writer: {"none", "running", "done", "error"}, rest: BOOLEAN,
          got: [1..(world.units + 1) -> {"none", "fake", "real"}]]

Frags == [pc: {"new", "direct", "tls-rf", "ttl-d", "ok", "failed", "panic"}, n: Nat,
          early: BOOLEAN]

\* A search is made only if the policy has no TTL of its own.
Asked(c) == probe[c].pc \notin {"idle", "done"} => conf(c).fakeTTL \in {0, -1}

\* A TTL that can be trusted does not reach the server.
Low(c) == (probe[c].pc = "done" /\ trusted(c)) => probe[c].ttl < world.hops /\ probe[c].ttl # -1

\* The server has none of the fake contents.
Unseen(s) == \A u \in DOMAIN s.got : s.got[u] # "fake"

\* Nothing is handed to the kernel before Begin, and until then nothing fake arrives.
Early(s) ==
  /\ s.pc \in {"idle", "set", "acquire", "begin"} => s.piped = 0
  /\ s.piped = 0 => Unseen(s)

Copied(s) == \A u \in Units : s.page[u] = "real"

\* The TTL is low from SetFakeTTL to RestoreTTL, before which the copy is complete; after an
\* error one or the other holds, or nothing was handed over.
Hidden(s) ==
  /\ s.pc \in {"acquire", "begin", "sleep", "copy"} => s.ttl < world.hops
  /\ s.pc \in {"restore", "join", "rest", "ok"} => Copied(s)
  /\ s.piped = 0 \/ s.ttl < world.hops \/ Copied(s)

\* One session's send; it starts when the TTL is known.
SendInv(c, s) ==
  /\ s \in Sends /\ s.queued <= s.piped /\ Early(s)
  /\ s.pc # "idle" => probe[c].pc = "done"
  /\ trusted(c) => Hidden(s) /\ Unseen(s)

IInv ==
  /\ ProbeInv
  /\ frag \in [Sessions -> Frags] /\ snd \in [Sessions -> Sends]
  /\ \A c \in Sessions : Asked(c) /\ Low(c) /\ SendInv(c, snd[c])

----
\* What the constants say of the parts of the packet.
LEMMA PartsTyped ==
  ASSUME world \in Worlds
  PROVE  /\ world.units \in Nat \ {0} /\ world.hops \in Nat \ {0} /\ DefaultTTL \in Nat
         /\ \A c \in Sessions : world.mode[c] \in {"none", "unset", "direct", "tls-rf", "ttl-d"}
  BY TTLProbeAssumption, DesyncSendAssumption, ClientHelloAssumption

\* The rules and the distance do not change.
LEMMA LoweredKept == world' = world => lowered' = lowered
<1>1. ASSUME world' = world
      PROVE  calcTTL(world.hops)' = calcTTL(world.hops) /\ noRule(world.hops)' = noRule(world.hops)
  BY <1>1 DEF calcTTL, noRule
<1> QED
  BY <1>1 DEF lowered

\* Steps that touch neither search nor send.
LEMMA FragStep ==
  ASSUME IInv, UNCHANGED <<probeVars, snd>>, frag' \in [Sessions -> Frags]
  PROVE  IInv'
<1>1. UNCHANGED <<world, cached, probe, snd>>
  BY DEF probeVars
<1>2. ProbeInv'
  BY StepInv DEF IInv
<1>3. (\A c \in Sessions : Asked(c) /\ Low(c))'
  BY <1>1, LoweredKept DEF IInv, Asked, Low, trusted, conf
<1>4. Sends' = Sends
  BY <1>1 DEF Sends, Units
<1>5. (\A c \in Sessions : SendInv(c, snd[c]))' /\ snd' \in [Sessions -> Sends]'
  BY <1>1, <1>4, LoweredKept DEF IInv, SendInv, Hidden, Copied, Units, trusted, conf
<1> QED
  BY <1>2, <1>3, <1>5 DEF IInv

\* A session goes on in the switch.
LEMMA GotoStep ==
  ASSUME IInv, NEW c \in Sessions, NEW to, Goto(c, to),
         to \in {"new", "direct", "tls-rf", "ttl-d", "ok", "failed", "panic"}
  PROVE  IInv'
<1>1. frag' \in [Sessions -> Frags]
  BY DEF Goto, IInv, Frags
<1> QED
  BY <1>1, FragStep DEF Goto

\* The switch on the mode, the writes of pieces, and what the server reads.
LEMMA PlainStep ==
  ASSUME IInv, NEW c \in Sessions,
         handleTLS(c) \/ policyConnWrite(c) \/ WritePiece(c) \/ Written(c) \/ ServerReads(c)
  PROVE  IInv'
<1>1. world.mode[c] \in {"none", "unset", "direct", "tls-rf", "ttl-d"}
  BY PartsTyped DEF IInv, ProbeInv, ProbeTypeOK
<1>2. CASE handleTLS(c) \/ policyConnWrite(c)
  <2>1. CASE world.mode[c] # "none" /\ Dispatch(c)
    BY <1>1, <2>1, GotoStep DEF Dispatch
  <2>2. CASE Goto(c, "failed")
    BY <2>2, GotoStep
  <2>3. CASE frag' = [frag EXCEPT ![c].pc = "direct"] /\ UNCHANGED <<probeVars, snd>>
    <3>1. frag' \in [Sessions -> Frags]
      BY <2>3 DEF IInv, Frags
    <3> QED
      BY <2>3, <3>1, FragStep
  <2> QED
    BY <1>2, <2>1, <2>2, <2>3 DEF handleTLS, policyConnWrite
<1>3. CASE WritePiece(c)
  <2>1. CASE Goto(c, "failed")
    BY <2>1, GotoStep
  <2>2. CASE frag' = [frag EXCEPT ![c].n = @ + 1] /\ UNCHANGED <<probeVars, snd, cut>>
    <3>1. frag' \in [Sessions -> Frags]
      BY <2>2 DEF IInv, Frags
    <3> QED
      BY <2>2, <3>1, FragStep
  <2> QED
    BY <1>3, <2>1, <2>2 DEF WritePiece
<1>4. CASE Written(c)
  BY <1>4, GotoStep DEF Written
<1>5. CASE ServerReads(c)
  <2>1. frag' \in [Sessions -> Frags]
    BY <1>5 DEF ServerReads, IInv, Frags
  <2> QED
    BY <1>5, <2>1, FragStep DEF ServerReads
<1> QED
  BY <1>2, <1>3, <1>4, <1>5

\* A step of the search leaves alone who has a TTL, and who gets one gets a low one.
LEMMA SearchStep ==
  ASSUME IInv, NEW c \in Sessions, ProbeStep(c), NEW d \in Sessions
  PROVE  /\ probe[d].pc = "done" => probe'[d] = probe[d]
         /\ Asked(d)' /\ Low(d)' /\ world' = world
<1>1. probe \in [Sessions -> Calls] /\ Asked(d) /\ Low(d) /\ world \in Worlds
  BY DEF IInv, ProbeInv, ProbeTypeOK
<1>2. world.hops \in Nat \ {0} /\ conf(c).fakeTTL \in Int
  BY <1>1, WorldTyped
<1>3. Answered(probe[c])
  BY DEF IInv, ProbeInv, SearchExact
<1>4. ASSUME NEW s, Becomes(c, s), probe[c].pc # "done",
             s.pc \notin {"idle", "done"} => conf(c).fakeTTL \in {0, -1},
             s.pc = "done" =>
               IF conf(c).fakeTTL \notin {0, -1} THEN s.ttl = conf(c).fakeTTL
               ELSE ~s.lossy => s.ttl = calcTTL(world.hops)
      PROVE  /\ probe[d].pc = "done" => probe'[d] = probe[d]
             /\ Asked(d)' /\ Low(d)' /\ world' = world
  <2>1. probe'[d] = (IF d = c THEN s ELSE probe[d]) /\ world' = world
    BY <1>1, <1>4 DEF Becomes
  <2> QED
    BY <1>1, <1>2, <1>4, <2>1, LoweredKept DEF Asked, Low, trusted, lowered, conf
<1>5. CASE getFakeTTL(c)
  <2>1. CASE /\ conf(c).fakeTTL \in {0, -1} /\ probe[c].pc = "idle"
             /\ Becomes(c, [probe[c] EXCEPT !.pc = "lookup"])
    <3>1. [probe[c] EXCEPT !.pc = "lookup"].pc = "lookup"
      OBVIOUS
    <3> QED
      BY <1>4, <2>1, <3>1
  <2>2. CASE /\ conf(c).fakeTTL \notin {0, -1} /\ probe[c].pc = "idle"
             /\ Becomes(c, [probe[c] EXCEPT !.pc = "done", !.ttl = conf(c).fakeTTL])
    <3> DEFINE s == [probe[c] EXCEPT !.pc = "done", !.ttl = conf(c).fakeTTL]
    <3>1. s.pc = "done" /\ s.ttl = conf(c).fakeTTL
      OBVIOUS
    <3> HIDE DEF s
    <3> QED
      BY <1>4, <2>2, <3>1 DEF s
  <2> QED
    BY <1>5, <2>1, <2>2 DEF getFakeTTL
<1>6. CASE Lookup(c) \/ Do(c) \/ Bisect(c) \/ DialReaches(c) \/ DialFails(c)
  <2>1. probe[c].pc \in {"lookup", "do", "search"} /\ conf(c).fakeTTL \in {0, -1}
    BY <1>6 DEF Lookup, Do, Bisect, DialReaches, DialFails, IInv, Asked
  <2>2. probe[c] \in Calls
    BY <1>1
  <2>3. Becomes(c, probe'[c]) /\ probe'[c].pc # "done"
    <3>1. CASE Lookup(c)
      BY <1>1, <2>2, <3>1, ZenonT(40) DEF Lookup, Becomes, Calls
    <3>2. CASE Do(c)
      <4>1. PICK s : s.pc # "done" /\ Becomes(c, s)
        <5>1. CASE \E l \in running(c) : Becomes(c, [probe[c] EXCEPT !.pc = "wait", !.by = l])
          BY <2>2, <5>1 DEF Calls
        <5>2. CASE Becomes(c, [probe[c] EXCEPT !.pc = "search", !.high = conf(c).maxTTL])
          BY <2>2, <5>2 DEF Calls
        <5> QED
          BY <3>2, <5>1, <5>2 DEF Do
      <4> QED
        BY <1>1, <4>1 DEF Becomes
    <3>3. CASE Bisect(c)
      BY <1>1, <3>3 DEF Bisect, Becomes
    <3>4. CASE DialReaches(c)
      BY <1>1, <3>4 DEF DialReaches, Becomes
    <3>5. CASE DialFails(c)
      BY <1>1, <3>5 DEF DialFails, Becomes
    <3> QED
      BY <1>6, <3>1, <3>2, <3>3, <3>4, <3>5
  <2> QED
    BY <1>4, <2>1, <2>3
<1>7. CASE SearchEnd(c)
  <2>1. probe[c].pc = "search"
    BY <1>7 DEF SearchEnd, Searched
  <2>2. CASE d = c \/ (probe[d].pc = "wait" /\ probe[d].by = c)
    <3>1. /\ probe'[d] = [probe[d] EXCEPT !.pc = "calc", !.ttl = probe[c].found,
                                          !.lossy = probe[c].lossy, !.by = c]
          /\ world' = world
      BY <1>7, <2>2 DEF SearchEnd
    <3>2. probe'[d].pc = "calc"
      BY <3>1
    <3>3. probe[d].pc \in {"search", "wait"}
      BY <2>1, <2>2
    <3> QED
      BY <1>1, <3>1, <3>3 DEF Asked, Low, conf
  <2>3. CASE ~(d = c \/ (probe[d].pc = "wait" /\ probe[d].by = c))
    <3>1. probe'[d] = probe[d] /\ world' = world
      BY <1>7, <2>3 DEF SearchEnd
    <3> QED
      BY <1>1, <3>1, LoweredKept DEF Asked, Low, trusted, conf
  <2> QED
    BY <2>2, <2>3
<1>8. CASE Calc(c)
  <2>1. probe[c] \in Calls /\ probe[c].pc = "calc" /\ conf(c).fakeTTL \in {0, -1}
    BY <1>1, <1>8 DEF Calc, IInv, Asked
  <2>2. CASE Becomes(c, [probe[c] EXCEPT !.pc = "failed"])
    <3>1. [probe[c] EXCEPT !.pc = "failed"].pc = "failed"
      OBVIOUS
    <3> QED
      BY <1>4, <2>1, <2>2, <3>1
  <2>3. CASE /\ probe[c].ttl # -1
             /\ Becomes(c, [probe[c] EXCEPT !.pc = "done", !.ttl = calcTTL(probe[c].ttl)])
    <3> DEFINE s == [probe[c] EXCEPT !.pc = "done", !.ttl = calcTTL(probe[c].ttl)]
    <3>1. s.pc = "done" /\ s.ttl = calcTTL(probe[c].ttl) /\ s.lossy = probe[c].lossy
      OBVIOUS
    <3>2. ~probe[c].lossy => probe[c].ttl = world.hops
      BY <1>3, <2>1, <2>3 DEF Answered, Exact
    <3>3. ~s.lossy => s.ttl = calcTTL(world.hops)
      BY <3>1, <3>2
    <3> HIDE DEF s
    <3> QED
      BY <1>4, <2>1, <2>3, <3>3 DEF s
  <2> QED
    BY <1>8, <2>2, <2>3 DEF Calc
<1> QED
  BY <1>5, <1>6, <1>7, <1>8 DEF ProbeStep

\* The search goes on, or an entry of the cache expires.
LEMMA ProbeKeeps ==
  ASSUME IInv, NEW c \in Sessions, FakeTTL(c)
  PROVE  IInv'
<1>1. ProbeStep(c) /\ UNCHANGED <<snd, frag>>
  BY DEF FakeTTL
<1>2. ProbeInv'
  BY <1>1, StepInv DEF IInv, ProbeNext
<1>3. world' = world
  BY <1>1, SearchStep
<1>4. snd' \in [Sessions -> Sends]' /\ frag' \in [Sessions -> Frags]
  BY <1>1, <1>3 DEF IInv, Sends, Units
<1>5. ASSUME NEW d \in Sessions
      PROVE  (Asked(d) /\ Low(d) /\ SendInv(d, snd[d]))'
  <2>1. (probe[d].pc = "done" => probe'[d] = probe[d]) /\ Asked(d)' /\ Low(d)'
    BY <1>1, SearchStep
  <2>2. SendInv(d, snd[d])
    BY DEF IInv
  <2>3. snd'[d] \in Sends' /\ snd'[d].queued <= snd'[d].piped
        /\ (Early(snd[d]) <=> Early(snd[d])') /\ (Hidden(snd[d]) <=> Hidden(snd[d])')
        /\ (Unseen(snd[d]) <=> Unseen(snd[d])')
    BY <1>1, <1>3, <2>2 DEF SendInv, Sends, Units, Hidden, Copied
  <2>4. CASE snd[d].pc = "idle"
    <3>1. snd[d].piped = 0 /\ Unseen(snd[d]) /\ Hidden(snd[d])
      BY <2>2, <2>4 DEF SendInv, Early, Hidden
    <3> QED
      BY <1>1, <2>1, <2>2, <2>3, <3>1 DEF SendInv
  <2>5. CASE snd[d].pc # "idle"
    <3>1. probe[d].pc = "done" /\ probe'[d] = probe[d]
      BY <2>1, <2>2, <2>5 DEF SendInv
    <3>2. trusted(d)' <=> trusted(d)
      BY <1>3, <3>1, LoweredKept DEF trusted, conf
    <3> QED
      BY <2>1, <2>2, <2>3, <3>1, <3>2 DEF SendInv
  <2> QED
    BY <2>4, <2>5
<1> QED
  BY <1>2, <1>4, <1>5 DEF IInv

\* An entry of the cache is gone.
LEMMA ExpireKeeps ==
  ASSUME IInv, Expire, UNCHANGED <<snd, frag>>
  PROVE  IInv'
<1>1. UNCHANGED <<world, probe, snd, frag>>
  BY DEF Expire
<1>2. ProbeInv'
  BY StepInv DEF IInv, ProbeNext
<1>3. (\A c \in Sessions : Asked(c) /\ Low(c))'
  BY <1>1, LoweredKept DEF IInv, Asked, Low, trusted, conf
<1>4. Sends' = Sends
  BY <1>1 DEF Sends, Units
<1>5. (\A c \in Sessions : SendInv(c, snd[c]))' /\ snd' \in [Sessions -> Sends]'
  BY <1>1, <1>4, LoweredKept DEF IInv, SendInv, Hidden, Copied, Units, trusted, conf
<1> QED
  BY <1>2, <1>3, <1>5 DEF IInv

\* A step of one send keeps the invariant if the send does.
LEMMA OneSend ==
  ASSUME IInv, NEW c \in Sessions, NEW s, Set(c, s), SendInv(c, s),
         UNCHANGED <<probeVars, frag>>
  PROVE  IInv'
<1>1. UNCHANGED <<world, cached, probe, frag>>
  BY DEF probeVars
<1>2. ProbeInv'
  BY StepInv DEF IInv
<1>3. (\A d \in Sessions : Asked(d) /\ Low(d))'
  BY <1>1, LoweredKept DEF IInv, Asked, Low, trusted, conf
<1>4. \A d \in Sessions : snd'[d] = (IF d = c THEN s ELSE snd[d]) /\ SendInv(d, snd'[d])
  BY DEF IInv, Set
<1>5. snd' \in [Sessions -> Sends]
  BY DEF IInv, Set, SendInv
<1>6. (\A d \in Sessions : SendInv(d, snd[d]))' /\ snd' \in [Sessions -> Sends]'
  BY <1>1, <1>4, <1>5, LoweredKept DEF SendInv, Sends, Hidden, Copied, Units, trusted, conf
<1> QED
  BY <1>2, <1>3, <1>6 DEF IInv

\* The first steps, up to the fake packet's TTL and the semaphore.
LEMMA PrepareStep ==
  ASSUME IInv, NEW c \in Sessions, probe[c].pc = "done", UNCHANGED <<probeVars, frag>>,
         Prepare(c) \/ SetFakeTTL(c) \/ Acquire(c)
  PROVE  IInv'
<1> DEFINE s == snd[c]
<1>1. SendInv(c, s) /\ Low(c) /\ world \in Worlds /\ probe[c] \in Calls
  BY DEF IInv, ProbeInv, ProbeTypeOK
<1>2. DefaultTTL \in Nat /\ world.hops \in Nat
  BY <1>1, PartsTyped
<1> HIDE DEF s
<1>3. ASSUME NEW to \in {"set", "begin", "failed"}, Go(c, to), s.piped = 0,
             to = "begin" => s.pc = "acquire"
      PROVE  IInv'
  <2> DEFINE t == [s EXCEPT !.pc = to]
  <2>1. /\ t \in Sends /\ t.pc = to /\ t.ttl = s.ttl /\ t.page = s.page /\ t.piped = s.piped
        /\ t.queued = s.queued /\ t.got = s.got
    BY <1>1 DEF SendInv, Sends
  <2> HIDE DEF t
  <2>2. SendInv(c, t)
    BY <1>1, <1>3, <2>1 DEF SendInv, Early, Hidden, Unseen
  <2> QED
    BY <1>3, <2>2, OneSend DEF Go, s, t
<1>4. CASE Prepare(c)
  BY <1>1, <1>3, <1>4 DEF Prepare, At, s, SendInv, Early
<1>5. CASE SetFakeTTL(c)
  <2>1. s.pc = "set" /\ s.piped = 0
    BY <1>1, <1>5 DEF SetFakeTTL, At, s, SendInv, Early
  <2>2. CASE Go(c, "failed")
    BY <1>3, <2>1, <2>2
  <2>3. ASSUME NEW to \in {"begin", "acquire"}, NEW ttl \in Int,
               trusted(c) => ttl < world.hops, Set(c, [s EXCEPT !.ttl = ttl, !.pc = to])
        PROVE  IInv'
    <3> DEFINE t == [s EXCEPT !.ttl = ttl, !.pc = to]
    <3>1. /\ t \in Sends /\ t.pc = to /\ t.ttl = ttl /\ t.page = s.page /\ t.piped = s.piped
          /\ t.queued = s.queued /\ t.got = s.got
      BY <1>1 DEF SendInv, Sends
    <3> HIDE DEF t
    <3>2. SendInv(c, t)
      BY <1>1, <2>1, <2>3, <3>1 DEF SendInv, Early, Hidden, Unseen
    <3> QED
      BY <2>3, <3>2, OneSend DEF t
  <2>4. probe[c].ttl \in Int /\ (trusted(c) => probe[c].ttl < world.hops /\ probe[c].ttl # -1)
    BY <1>1 DEF Low, Calls
  <2>5. CASE Set(c, [s EXCEPT !.ttl = IF probe[c].ttl = -1 THEN DefaultTTL ELSE probe[c].ttl,
                              !.pc = IF world.os = "linux" THEN "begin" ELSE "acquire"])
    <3> DEFINE ttl == IF probe[c].ttl = -1 THEN DefaultTTL ELSE probe[c].ttl
               to == IF world.os = "linux" THEN "begin" ELSE "acquire"
    <3>1. to \in {"begin", "acquire"} /\ ttl \in Int /\ (trusted(c) => ttl < world.hops)
      BY <1>2, <2>4
    <3>2. Set(c, [s EXCEPT !.ttl = ttl, !.pc = to])
      BY <2>5
    <3> HIDE DEF ttl, to
    <3> QED
      BY <2>3, <3>1, <3>2
  <2> QED
    BY <1>5, <2>2, <2>5 DEF SetFakeTTL, s
<1>6. CASE Acquire(c)
  BY <1>1, <1>3, <1>6 DEF Acquire, At, s, SendInv, Early
<1> QED
  BY <1>4, <1>5, <1>6

\* From the fake packet to the end of desyncSend.
LEMMA SendingStep ==
  ASSUME IInv, NEW c \in Sessions, probe[c].pc = "done", UNCHANGED <<probeVars, frag>>,
         Begin(c) \/ Wake(c) \/ CopyReal(c) \/ RestoreTTL(c) \/ Join(c) \/ SendRest(c)
  PROVE  IInv'
<1> DEFINE s == snd[c]
<1>1. SendInv(c, s) /\ world \in Worlds
  BY DEF IInv, ProbeInv, ProbeTypeOK
<1>2. DefaultTTL \in Nat /\ world.hops \in Nat /\ world.units \in Nat
  BY <1>1, PartsTyped
<1> HIDE DEF s
<1>3. ASSUME NEW to \in {"failed", "copy", "restore", "rest"}, Go(c, to),
             s.pc \in {"begin", "sleep", "copy", "restore", "join", "rest"},
             to = "copy" => s.pc = "sleep", to = "restore" => Copied(s),
             to = "rest" => s.pc = "join"
      PROVE  IInv'
  <2> DEFINE t == [s EXCEPT !.pc = to]
  <2>1. /\ t \in Sends /\ t.pc = to /\ t.ttl = s.ttl /\ t.page = s.page /\ t.piped = s.piped
        /\ t.queued = s.queued /\ t.got = s.got
    BY <1>1 DEF SendInv, Sends
  <2> HIDE DEF t
  <2>2. SendInv(c, t)
    BY <1>1, <1>3, <2>1 DEF SendInv, Early, Hidden, Unseen, Copied
  <2> QED
    BY <1>3, <2>2, OneSend DEF Go, s, t
<1>4. CASE Begin(c)
  <2>1. s.pc = "begin"
    BY <1>4 DEF Begin, At, s
  <2>2. CASE Go(c, "failed")
    BY <1>3, <2>1, <2>2
  <2>3. ASSUME NEW k \in Units,
               Set(c, [s EXCEPT !.piped = k, !.writer = "running", !.pc = "sleep"])
        PROVE  IInv'
    <3> DEFINE t == [s EXCEPT !.piped = k, !.writer = "running", !.pc = "sleep"]
    <3>1. /\ t \in Sends /\ t.pc = "sleep" /\ t.ttl = s.ttl /\ t.page = s.page /\ t.piped = k
          /\ t.queued = s.queued /\ t.got = s.got
      <4>1. k \in 0..world.units /\ s \in Sends
        BY <1>1 DEF SendInv, Units
      <4> QED
        BY <4>1 DEF Sends
    <3> HIDE DEF t
    <3>2. SendInv(c, t)
      <4>1. s.piped = 0 /\ s.queued <= s.piped /\ s.queued \in Nat /\ k \in Nat \ {0}
        BY <1>1, <2>1 DEF SendInv, Sends, Early, Units
      <4> QED
        BY <1>1, <2>1, <3>1, <4>1 DEF SendInv, Early, Hidden, Unseen
    <3> QED
      BY <2>3, <3>2, OneSend DEF t
  <2>4. world.units \in Units
    BY <1>1, PartsTyped DEF Units
  <2> QED
    BY <1>4, <2>2, <2>3, <2>4 DEF Begin, s
<1>5. CASE Wake(c)
  BY <1>3, <1>5 DEF Wake, At, s
<1>6. CASE CopyReal(c)
  <2>1. s.pc = "copy" /\ s.page \in [Units -> {"fake", "real"}]
    BY <1>1, <1>6 DEF CopyReal, At, s, SendInv, Sends
  <2>2. CASE Go(c, "failed")
    BY <1>3, <2>1, <2>2
  <2>3. CASE {u \in Units : s.page[u] = "fake"} = {} /\ Go(c, "restore")
    <3>1. Copied(s)
      BY <2>1, <2>3 DEF Copied
    <3> QED
      BY <1>3, <2>1, <2>3, <3>1
  <2>4. ASSUME NEW u \in Units, Set(c, [s EXCEPT !.page[u] = "real"])
        PROVE  IInv'
    <3> DEFINE t == [s EXCEPT !.page[u] = "real"]
    <3>1. /\ t \in Sends /\ t.pc = "copy" /\ t.ttl = s.ttl /\ t.piped = s.piped
          /\ t.queued = s.queued /\ t.got = s.got
      BY <1>1, <2>1 DEF SendInv, Sends
    <3> HIDE DEF t
    <3>2. SendInv(c, t)
      BY <1>1, <2>1, <3>1 DEF SendInv, Early, Hidden, Unseen
    <3> QED
      BY <2>4, <3>2, OneSend DEF t
  <2> QED
    BY <1>6, <2>2, <2>3, <2>4 DEF CopyReal, s
<1>7. CASE RestoreTTL(c)
  <2>1. s.pc = "restore"
    BY <1>7 DEF RestoreTTL, At, s
  <2>2. CASE Go(c, "failed")
    BY <1>3, <2>1, <2>2
  <2>3. CASE Set(c, [s EXCEPT !.ttl = DefaultTTL, !.pc = "join"])
    <3> DEFINE t == [s EXCEPT !.ttl = DefaultTTL, !.pc = "join"]
    <3>1. /\ t \in Sends /\ t.pc = "join" /\ t.page = s.page /\ t.piped = s.piped
          /\ t.queued = s.queued /\ t.got = s.got
      <4>1. DefaultTTL \in Int /\ s \in Sends
        BY <1>1, <1>2 DEF SendInv
      <4> QED
        BY <4>1 DEF Sends
    <3> HIDE DEF t
    <3>2. SendInv(c, t)
      BY <1>1, <2>1, <3>1 DEF SendInv, Early, Hidden, Unseen, Copied
    <3> QED
      BY <2>3, <3>2, OneSend DEF t
  <2> QED
    BY <1>7, <2>2, <2>3 DEF RestoreTTL, s
<1>8. CASE Join(c)
  BY <1>3, <1>8 DEF Join, At, s
<1>9. CASE SendRest(c)
  <2>1. s.pc = "rest"
    BY <1>9 DEF SendRest, At, s
  <2>2. CASE Go(c, "failed")
    BY <1>3, <2>1, <2>2
  <2>3. CASE Set(c, [s EXCEPT !.rest = TRUE, !.pc = "ok"])
    <3> DEFINE t == [s EXCEPT !.rest = TRUE, !.pc = "ok"]
    <3>1. /\ t \in Sends /\ t.pc = "ok" /\ t.ttl = s.ttl /\ t.page = s.page
          /\ t.piped = s.piped /\ t.queued = s.queued /\ t.got = s.got
      BY <1>1 DEF SendInv, Sends
    <3> HIDE DEF t
    <3>2. SendInv(c, t)
      BY <1>1, <2>1, <3>1 DEF SendInv, Early, Hidden, Unseen, Copied
    <3> QED
      BY <2>3, <3>2, OneSend DEF t
  <2> QED
    BY <1>9, <2>2, <2>3 DEF SendRest, s
<1> QED
  BY <1>4, <1>5, <1>6, <1>7, <1>8, <1>9

\* The goroutine that splices: at most what the pipe took gets into the queue.
LEMMA WriterStep ==
  ASSUME IInv, NEW c \in Sessions, UNCHANGED <<probeVars, frag>>,
         Splice(c) \/ SpliceDone(c) \/ SpliceAgain(c) \/ SpliceError(c)
  PROVE  IInv'
<1> DEFINE s == snd[c]
<1>1. SendInv(c, s) /\ s \in Sends /\ world.units \in Nat
  BY PartsTyped DEF IInv, ProbeInv, ProbeTypeOK
<1> HIDE DEF s
<1>2. ASSUME NEW t \in Sends, Set(c, t), t.queued <= s.piped, t.pc = s.pc, t.ttl = s.ttl,
             t.page = s.page, t.piped = s.piped, t.got = s.got
      PROVE  IInv'
  <2>1. SendInv(c, t)
    BY <1>1, <1>2 DEF SendInv, Early, Hidden, Unseen, Copied
  <2> QED
    BY <1>2, <2>1, OneSend
<1>3. CASE Splice(c)
  <2> DEFINE t == [s EXCEPT !.queued = s.queued + 1]
  <2>1. s.queued < s.piped /\ s.queued \in Nat /\ s.piped \in Nat
    BY <1>1, <1>3 DEF Splice, s, Sends
  <2>2. /\ t \in Sends /\ t.queued = s.queued + 1 /\ t.pc = s.pc /\ t.ttl = s.ttl
        /\ t.page = s.page /\ t.piped = s.piped /\ t.got = s.got
    BY <1>1 DEF Sends
  <2>3. Set(c, t)
    BY <1>3 DEF Splice, s
  <2> HIDE DEF t
  <2> QED
    BY <1>2, <2>1, <2>2, <2>3
<1>4. ASSUME NEW w \in {"error", "done"}, Set(c, [s EXCEPT !.writer = w])
      PROVE  IInv'
  <2> DEFINE t == [s EXCEPT !.writer = w]
  <2>1. /\ t \in Sends /\ t.queued = s.queued /\ t.pc = s.pc /\ t.ttl = s.ttl
        /\ t.page = s.page /\ t.piped = s.piped /\ t.got = s.got
    BY <1>1 DEF Sends
  <2> HIDE DEF t
  <2> QED
    BY <1>1, <1>2, <1>4, <2>1 DEF t, SendInv
<1>5. CASE SpliceDone(c) \/ SpliceError(c)
  BY <1>4, <1>5 DEF SpliceDone, SpliceError, s
<1>6. CASE SpliceAgain(c)
  <2> DEFINE t == [s EXCEPT !.again = 1]
  <2>1. /\ t \in Sends /\ t.queued = s.queued /\ t.pc = s.pc /\ t.ttl = s.ttl
        /\ t.page = s.page /\ t.piped = s.piped /\ t.got = s.got
    BY <1>1 DEF Sends
  <2>2. Set(c, t)
    BY <1>6 DEF SpliceAgain, s
  <2> HIDE DEF t
  <2> QED
    BY <1>1, <1>2, <2>1, <2>2 DEF SendInv
<1> QED
  BY <1>3, <1>5, <1>6

\* A unit arrives: with a TTL that reaches the server, and so with the real contents.
LEMMA ArriveStep ==
  ASSUME IInv, NEW c \in Sessions, NEW u \in 1..(world.units + 1), Arrive(c, u),
         UNCHANGED <<probeVars, frag>>
  PROVE  IInv'
<1> DEFINE s == snd[c]
           what == IF u \in Units THEN s.page[u] ELSE "real"
           t == [s EXCEPT !.got[u] = what]
<1>1. SendInv(c, s) /\ s \in Sends /\ world.units \in Nat /\ world.hops \in Nat
  BY PartsTyped DEF IInv, ProbeInv, ProbeTypeOK
<1>2. (isQueued(c, u) /\ s.ttl >= world.hops) /\ Set(c, t)
  BY DEF Arrive
<1> HIDE DEF s
<1>3. what \in {"fake", "real"}
  BY <1>1 DEF Sends
<1>4. u \in Units => s.piped # 0
  BY <1>1, <1>2 DEF isQueued, SendInv, Sends, Units, s
<1>5. trusted(c) => what = "real"
  <2>1. trusted(c) => s.piped = 0 \/ Copied(s)
    BY <1>1, <1>2 DEF SendInv, Hidden, Sends
  <2> QED
    BY <1>4, <2>1 DEF Copied
<1>6. s.piped = 0 => what = "real"
  BY <1>4
<1> HIDE DEF what
<1>7. /\ t \in Sends /\ t.pc = s.pc /\ t.ttl = s.ttl /\ t.page = s.page
      /\ t.piped = s.piped /\ t.queued = s.queued
  BY <1>1, <1>3 DEF Sends
<1>8. Unseen(s) /\ what = "real" => Unseen(t)
  BY DEF Unseen
<1> HIDE DEF t
<1>9. SendInv(c, t)
  BY <1>1, <1>5, <1>6, <1>7, <1>8 DEF SendInv, Early, Hidden, Copied
<1> QED
  BY <1>2, <1>9, OneSend

----
\* The invariant holds whatever the sessions, their policies and the network.
THEOREM Inductive == Spec => []IInv
<1>1. Init => IInv
  <2> SUFFICES ASSUME Init PROVE IInv
    OBVIOUS
  <2>1. ProbeInv /\ world \in Worlds /\ probe = [c \in Sessions |-> noProbe(c)]
    BY InitInv DEF Init, ProbeInit
  <2>2. world.units \in Nat /\ DefaultTTL \in Nat
    BY <2>1, PartsTyped
  <2>3. frag \in [Sessions -> Frags]
    BY DEF Init, Frags
  <2>4. ASSUME NEW c \in Sessions
        PROVE  Asked(c) /\ Low(c) /\ SendInv(c, snd[c])
    <3>1. probe[c].pc = "idle" /\ snd[c] = noSend
      BY <2>1 DEF noProbe, Init, SendInit
    <3>2. noSend \in Sends /\ noSend.pc = "idle" /\ noSend.piped = 0 /\ noSend.queued = 0
      BY <2>2 DEF noSend, Sends
    <3>3. Unseen(noSend)
      BY DEF Unseen, noSend
    <3> QED
      BY <3>1, <3>2, <3>3 DEF Asked, Low, SendInv, Early, Hidden
  <2>5. snd \in [Sessions -> Sends]
    BY <2>4 DEF Init, SendInit, SendInv
  <2> QED
    BY <2>1, <2>3, <2>4, <2>5 DEF IInv
<1>2. IInv /\ [Next]_vars => IInv'
  <2> SUFFICES ASSUME IInv, [Next]_vars PROVE IInv'
    OBVIOUS
  <2>1. CASE UNCHANGED vars
    BY <2>1, FragStep DEF vars, probeVars, IInv
  <2>2. CASE Expire /\ UNCHANGED <<snd, frag, cut>>
    BY <2>2, ExpireKeeps
  <2>3. ASSUME NEW c \in Sessions, Handler(c)
        PROVE  IInv'
    <3>1. CASE handleTLS(c) \/ policyConnWrite(c) \/ WritePiece(c) \/ Written(c)
      BY <3>1, PlainStep
    <3>2. CASE FakeTTL(c)
      BY <3>2, ProbeKeeps
    <3>3. CASE Desync(c)
      BY <3>3, PrepareStep, SendingStep DEF Desync, SendStep
    <3> QED
      BY <2>3, <3>1, <3>2, <3>3 DEF Handler
  <2>4. ASSUME NEW c \in Sessions, ServerReads(c) \/ Writer(c) \/ WriterFault(c) \/ Network(c)
        PROVE  IInv'
    <3>1. CASE ServerReads(c)
      BY <3>1, PlainStep
    <3>2. CASE Writer(c) \/ WriterFault(c)
      BY <3>2, WriterStep DEF Writer, WriterFault
    <3>3. CASE Network(c)
      BY <3>3, ArriveStep DEF Network
    <3> QED
      BY <2>4, <3>1, <3>2, <3>3
  <2> QED
    BY <2>1, <2>2, <2>3, <2>4 DEF Next
<1> QED
  BY <1>1, <1>2, PTL DEF Spec

\* Bisection with lost dials, in the code's order of attempts: what is found reaches
\* the server, and without a loss it is the lowest such TTL.
THEOREM SearchIsExact == Spec => []SearchExact
<1>1. IInv => SearchExact
  BY DEF IInv, ProbeInv
<1> QED
  BY <1>1, Inductive, PTL

\* sendWithNoise, on every path and with the kernel free to send at any time, never lets
\* the server see the fake contents if the fake TTL can be trusted.
THEOREM FakeIsNeverSeen == Spec => []FakeNeverSeen
<1>1. IInv => FakeNeverSeen
  <2> SUFFICES ASSUME IInv PROVE FakeNeverSeen
    OBVIOUS
  <2>1. world.units \in Nat
    BY PartsTyped DEF IInv, ProbeInv, ProbeTypeOK
  <2>2. SendTypeOK
    <3> SUFFICES ASSUME NEW c \in Sessions, snd[c] \in Sends, snd[c].queued <= snd[c].piped
                 PROVE  /\ snd[c].queued \in 0..snd[c].piped
                        /\ snd[c].piped \in 0..world.units
      BY DEF IInv, SendInv, Sends, SendTypeOK
    <3> QED
      BY DEF Sends
  <2>3. TypeOK
    BY <2>2 DEF IInv, ProbeInv, Frags, TypeOK
  <2> QED
    BY <2>3 DEF IInv, SendInv, Unseen, FakeNeverSeen
<1> QED
  BY <1>1, Inductive, PTL

----
(* The fragments. *)

\* A set of numbers has a smallest one.
LEMMA Smallest ==
  ASSUME NEW T, T \subseteq Nat, T # {}
  PROVE  \E d \in T : \A e \in T : d <= e
<1>1. PICK d \in T : \A e \in T : ~(<<e, d>> \in OpToRel(<, Nat))
  BY NatLessThanWellFounded, WFMin
<1>2. \A e \in T : ~(e < d)
  BY <1>1, Zenon DEF OpToRel
<1>3. d \in Nat /\ \A e \in T : e \in Nat /\ ~(e < d)
  BY <1>2
<1> QED
  BY <1>3

\* What is put together of the first pieces, for each number of pieces.
Puts(p, f) ==
  /\ f \in [0..Len(p) -> Seq(Int)] /\ f[0] = <<>>
  /\ \A i \in 1..Len(p) : f[i] = f[i - 1] \o p[i]

\* There is such a function.
LEMMA PutsExist ==
  ASSUME NEW p \in Seq(Seq(Int))
  PROVE  \E f : Puts(p, f)
<1> DEFINE N == Len(p)
           Is(f, k) == /\ f \in [0..k -> Seq(Int)] /\ f[0] = <<>>
                       /\ \A i \in 1..k : f[i] = f[i - 1] \o p[i]
           bad == {k \in Nat : k <= N /\ ~\E f : Is(f, k)}
<1>1. N \in Nat /\ \A i \in 1..N : p[i] \in Seq(Int)
  OBVIOUS
<1>2. bad = {}
  <2> SUFFICES ASSUME bad # {} PROVE FALSE
    OBVIOUS
  <2>0. bad \subseteq Nat
    OBVIOUS
  <2>1. PICK d \in bad : \A e \in bad : d <= e
    BY <2>0, Smallest
  <2>2. CASE d = 0
    <3> DEFINE f == [i \in 0..0 |-> <<>>]
    <3>1. Is(f, 0)
      BY EmptySeq
    <3> QED
      BY <2>1, <2>2, <3>1
  <2>3. CASE d # 0
    <3>1. d - 1 \in 0..N /\ d \in 1..N /\ ~(d <= d - 1)
      BY <1>1, <2>1, <2>3
    <3>2. \E g : Is(g, d - 1)
      <4>0. d - 1 \notin bad
        <5> HIDE DEF bad
        <5> QED
          BY <2>1, <3>1
      <4>1. d - 1 \in Nat /\ d - 1 <= N
        BY <1>1, <3>1
      <4> HIDE DEF Is
      <4> QED
        BY <4>0, <4>1
    <3>3. PICK g : Is(g, d - 1)
      BY <3>2
    <3>4. g[d - 1] \in Seq(Int) /\ p[d] \in Seq(Int)
      BY <1>1, <3>1, <3>3
    <3> DEFINE new == g[d - 1] \o p[d]
    <3>5. new \in Seq(Int)
      BY <3>4, ConcatProperties
    <3> HIDE DEF new
    <3> DEFINE f == [i \in 0..d |-> IF i = d THEN new ELSE g[i]]
    <3>6. f \in [0..d -> Seq(Int)] /\ f[0] = <<>>
      BY <2>3, <3>1, <3>3, <3>5
    <3>7. ASSUME NEW i \in 1..d
          PROVE  f[i] = f[i - 1] \o p[i]
      <4>1. i \in 0..d /\ i - 1 \in 0..d /\ i - 1 # d /\ f[i - 1] = g[i - 1]
        BY <3>1
      <4>2. CASE i = d
        BY <4>1, <4>2 DEF new
      <4>3. CASE i # d
        <5>1. i \in 1..(d - 1) /\ f[i] = g[i]
          BY <3>1, <4>1, <4>3
        <5> QED
          BY <3>3, <4>1, <5>1
      <4> QED
        BY <4>2, <4>3
    <3> QED
      BY <2>1, <3>6, <3>7
  <2> QED
    BY <2>2, <2>3
<1>3. \E f : Is(f, N)
  <2> HIDE DEF Is
  <2> QED
    BY <1>1, <1>2, SMTT(30)
<1> QED
  BY <1>3, Zenon DEF Puts

\* It is what Joined gives for all of them.
LEMMA JoinedIs ==
  ASSUME NEW p \in Seq(Seq(Int)), NEW f, Puts(p, f)
  PROVE  Joined(p) = f[Len(p)]
<1> DEFINE N == Len(p)
           Is(w) == w = [i \in 0..N |-> IF i = 0 THEN <<>> ELSE w[i - 1] \o p[i]]
           joined[i \in 0..N] == IF i = 0 THEN <<>> ELSE joined[i - 1] \o p[i]
<1>0. N \in Nat
  OBVIOUS
<1>1. Joined(p) = joined[N]
  BY DEF Joined
<1>2. Is(f)
  <2>1. \A i \in 0..N : f[i] = IF i = 0 THEN <<>> ELSE f[i - 1] \o p[i]
    <3> TAKE i \in 0..N
    <3>1. i # 0 => i \in 1..N
      BY <1>0
    <3> QED
      BY <3>1, Zenon DEF Puts
  <2> QED
    BY <2>1 DEF Puts
<1>3. Is(joined)
  BY <1>2, Zenon DEF joined
<1> HIDE DEF joined
<1>4. /\ joined[0] = <<>> /\ \A i \in 1..N : joined[i] = joined[i - 1] \o p[i]
  <2>1. \A i \in 0..N : joined[i] = IF i = 0 THEN <<>> ELSE joined[i - 1] \o p[i]
    BY <1>3
  <2>2. 0 \in 0..N /\ \A i \in 1..N : i \in 0..N /\ i # 0
    BY <1>0
  <2> HIDE DEF N
  <2> QED
    BY <2>1, <2>2, Zenon
<1> DEFINE bad == {k \in Nat : k <= N /\ joined[k] # f[k]}
<1>5. bad = {}
  <2> SUFFICES ASSUME bad # {} PROVE FALSE
    OBVIOUS
  <2>0. bad \subseteq Nat
    OBVIOUS
  <2>1. PICK d \in bad : \A e \in bad : d <= e
    BY <2>0, Smallest
  <2>2. d # 0
    BY <1>4, <2>1 DEF Puts
  <2>3. d - 1 \in 0..N /\ d \in 1..N /\ ~(d <= d - 1)
    BY <1>0, <2>1, <2>2
  <2>4. joined[d - 1] = f[d - 1]
    BY <2>1, <2>3
  <2> QED
    BY <1>4, <2>1, <2>3, <2>4 DEF Puts
<1> QED
  BY <1>0, <1>1, <1>5

LEMMA JoinedTyped ==
  ASSUME NEW p \in Seq(Seq(Int))
  PROVE  Joined(p) \in Seq(Int)
<1>1. PICK f : Puts(p, f)
  BY PutsExist
<1>2. Len(p) \in 0..Len(p)
  OBVIOUS
<1> QED
  BY <1>1, <1>2, JoinedIs DEF Puts

\* Putting two sequences together.
LEMMA ConcatIs ==
  ASSUME NEW x \in Seq(Int), NEW y \in Seq(Int)
  PROVE  /\ x \o y \in Seq(Int) /\ Len(x \o y) = Len(x) + Len(y)
         /\ \A i \in 1..(Len(x) + Len(y)) :
              (x \o y)[i] = IF i <= Len(x) THEN x[i] ELSE y[i - Len(x)]
BY ConcatProperties

LEMMA Associative ==
  ASSUME NEW x \in Seq(Int), NEW y \in Seq(Int), NEW z \in Seq(Int)
  PROVE  (x \o y) \o z = x \o (y \o z)
BY ConcatAssociative, SMTT(30)

\* Pieces of one list and of another.
LEMMA JoinedConcat ==
  ASSUME NEW p \in Seq(Seq(Int)), NEW q \in Seq(Seq(Int))
  PROVE  Joined(p \o q) = Joined(p) \o Joined(q)
<1>1. PICK f : Puts(p, f)
  BY PutsExist
<1>2. PICK g : Puts(q, g)
  BY PutsExist
<1> DEFINE M == Len(p)
           N == Len(q)
           all == p \o q
           h == [i \in 0..(M + N) |-> IF i <= M THEN f[i] ELSE f[M] \o g[i - M]]
<1>3. /\ M \in Nat /\ N \in Nat /\ all \in Seq(Seq(Int)) /\ Len(all) = M + N
      /\ \A i \in 1..(M + N) : all[i] = IF i <= M THEN p[i] ELSE q[i - M]
  BY ConcatProperties
<1>4. /\ f \in [0..M -> Seq(Int)] /\ g \in [0..N -> Seq(Int)]
      /\ f[0] = <<>> /\ g[0] = <<>> /\ \A i \in 1..N : q[i] \in Seq(Int)
      /\ \A i \in 1..M : f[i] = f[i - 1] \o p[i]
      /\ \A i \in 1..N : g[i] = g[i - 1] \o q[i]
  <2>1. \A i \in 1..N : q[i] \in Seq(Int)
    OBVIOUS
  <2> QED
    BY <1>1, <1>2, <2>1, Zenon DEF Puts
<1> HIDE DEF M, N, all
<1>5. \A i \in 0..N : f[M] \o g[i] \in Seq(Int)
  <2> TAKE i \in 0..N
  <2>1. f[M] \in Seq(Int) /\ g[i] \in Seq(Int)
    BY <1>3, <1>4
  <2> QED
    BY <2>1, ConcatProperties
<1>6. f[M] \o g[0] = f[M]
  <2>1. f[M] \in Seq(Int)
    BY <1>3, <1>4
  <2> QED
    BY <1>4, <2>1, ConcatEmptySeq
<1>7. \A i \in 0..(M + N) : h[i] \in Seq(Int)
  <2> TAKE i \in 0..(M + N)
  <2>1. CASE i <= M
    <3>1. i \in 0..M
      BY <1>3, <2>1
    <3> QED
      BY <1>4, <2>1, <3>1
  <2>2. CASE ~(i <= M)
    <3>1. i - M \in 0..N
      BY <1>3, <2>2
    <3> QED
      BY <1>5, <2>2, <3>1
  <2> QED
    BY <2>1, <2>2
<1>8. \A i \in 1..(M + N) : h[i] = h[i - 1] \o all[i]
  <2> TAKE i \in 1..(M + N)
  <2>1. CASE i <= M
    <3>1. i \in 1..M /\ i - 1 <= M /\ i \in 0..(M + N) /\ i - 1 \in 0..(M + N)
      BY <1>3, <2>1
    <3>2. h[i] = f[i] /\ h[i - 1] = f[i - 1]
      BY <2>1, <3>1
    <3> QED
      BY <1>3, <1>4, <2>1, <3>1, <3>2
  <2>2. CASE ~(i <= M)
    <3>1. i - M \in 1..N /\ i - M - 1 \in 0..N /\ i \in 0..(M + N) /\ i - 1 \in 0..(M + N)
          /\ M \in 0..M
      BY <1>3, <2>2
    <3> DEFINE k == i - M
               a == f[M]
               b == g[k - 1]
               c == q[k]
    <3>2. h[i] = a \o g[k] /\ g[k] = b \o c /\ all[i] = c
      BY <1>3, <1>4, <2>2, <3>1
    <3>3. h[i - 1] = a \o b
      <4>1. CASE i - 1 <= M
        <5>1. i - 1 = M /\ k - 1 = 0
          BY <1>3, <2>2, <4>1
        <5> QED
          BY <1>6, <3>1, <4>1, <5>1
      <4>2. CASE ~(i - 1 <= M)
        <5>1. k - 1 = i - 1 - M
          BY <1>3
        <5> QED
          BY <3>1, <4>2, <5>1
      <4> QED
        BY <4>1, <4>2
    <3>4. a \in Seq(Int) /\ b \in Seq(Int) /\ c \in Seq(Int)
      BY <1>4, <3>1
    <3> HIDE DEF a, b, c, h
    <3>5. (a \o b) \o c = a \o (b \o c)
      BY <3>4, Associative, Zenon
    <3> QED
      BY <3>2, <3>3, <3>5
  <2> QED
    BY <2>1, <2>2
<1>9. h[0] = <<>>
  BY <1>3, <1>4
<1>10. h \in [0..Len(all) -> Seq(Int)]
  BY <1>3, <1>7
<1>11. h[M + N] = f[M] \o g[N]
  <2>0. M + N \in 0..(M + N)
    BY <1>3
  <2>1. CASE N = 0
    <3>1. M + N = M /\ M + N <= M
      BY <1>3, <2>1
    <3> QED
      BY <1>6, <2>0, <2>1, <3>1
  <2>2. CASE N # 0
    <3>1. ~(M + N <= M) /\ M + N - M = N
      BY <1>3, <2>2
    <3>2. h[M + N] = IF M + N <= M THEN f[M + N] ELSE f[M] \o g[M + N - M]
      BY <1>3, <2>0
    <3> QED
      BY <3>1, <3>2
  <2> QED
    BY <2>1, <2>2
<1> HIDE DEF h
<1>12. Puts(all, h)
  BY <1>3, <1>8, <1>9, <1>10 DEF Puts
<1> QED
  BY <1>1, <1>2, <1>3, <1>11, <1>12, JoinedIs DEF M, N, all

\* A single piece.
LEMMA JoinedOne ==
  ASSUME NEW x \in Seq(Int)
  PROVE  Joined(<<x>>) = x
<1> DEFINE p == <<x>>
           f == [i \in 0..1 |-> IF i = 0 THEN <<>> ELSE x]
<1>1. p \in Seq(Seq(Int)) /\ Len(p) = 1 /\ p[1] = x
  OBVIOUS
<1>2. <<>> \o x = x /\ <<>> \in Seq(Int)
  BY ConcatEmptySeq
<1>3. Puts(p, f)
  BY <1>1, <1>2 DEF Puts
<1> QED
  BY <1>1, <1>3, JoinedIs

----
\* data[from:to].
LEMMA SliceIs ==
  ASSUME NEW data \in Seq(Int), NEW from \in 0..Len(data), NEW to \in from..Len(data)
  PROVE  /\ Slice(data, from, to) \in Seq(Int) /\ Len(Slice(data, from, to)) = to - from
         /\ \A i \in 1..(to - from) : Slice(data, from, to)[i] = data[from + i]
<1>1. /\ from + 1 \in Int /\ to \in Int /\ to - (from + 1) + 1 = to - from
      /\ \A i \in (from + 1)..to : data[i] \in Int
      /\ to - from \in Nat
  OBVIOUS
<1> DEFINE s == SubSeq(data, from + 1, to)
<1>2. /\ s \in Seq(Int) /\ Len(s) = (IF from + 1 <= to THEN to - (from + 1) + 1 ELSE 0)
      /\ \A i \in 1..(to - (from + 1) + 1) : s[i] = data[from + 1 + i - 1]
  BY <1>1, SubSeqProperties
<1> HIDE DEF s
<1>3. Len(s) = to - from
  BY <1>1, <1>2
<1>4. \A i \in 1..(to - from) : s[i] = data[from + i]
  <2> TAKE i \in 1..(to - from)
  <2>1. from + 1 + i - 1 = from + i
    OBVIOUS
  <2> QED
    BY <1>1, <1>2, <2>1
<1> QED
  BY <1>2, <1>3, <1>4 DEF Slice, s

\* Slices next to each other.
LEMMA SlicesMeet ==
  ASSUME NEW data \in Seq(Int), NEW x \in 0..Len(data), NEW y \in x..Len(data),
         NEW z \in y..Len(data)
  PROVE  Slice(data, x, y) \o Slice(data, y, z) = Slice(data, x, z)
<1>1. x + 1 \in 1..(Len(data) + 1) /\ y \in (x + 1 - 1)..Len(data)
  OBVIOUS
<1> QED
  BY <1>1, ConcatAdjacentSubSeq DEF Slice

LEMMA SliceAll ==
  ASSUME NEW data \in Seq(Int)
  PROVE  Slice(data, 0, Len(data)) = data
BY SubSeqFull DEF Slice

\* Where the parts of splitAndAppend begin and end.
LEMMA Quotient ==
  ASSUME NEW L \in Nat, NEW n \in Nat \ {0}, n <= L
  PROVE  /\ L \div n \in Nat /\ L \div n >= 1 /\ n * (L \div n) <= L
OBVIOUS

LEMMA Bounds ==
  ASSUME NEW L \in Nat, NEW n \in Nat \ {0}, NEW base \in Nat, base >= 1, n * base <= L,
         NEW i \in 1..n
  PROVE  /\ (i - 1) * base \in 0..L /\ i * base \in 0..L
         /\ (i - 1) * base < i * base
         /\ (1 - 1) * base = 0
<1>1. i * base = (i - 1) * base + base /\ (i - 1) * base >= 0 /\ (1 - 1) * base = 0
  OBVIOUS
<1>2. (n - i) * base >= 0 /\ n * base = i * base + (n - i) * base
  OBVIOUS
<1> DEFINE u == (i - 1) * base
           v == i * base
           w == n * base
           z == (n - i) * base
<1>3. u \in Int /\ v \in Int /\ w \in Int /\ z \in Int
  OBVIOUS
<1> HIDE DEF u, v, w, z
<1>4. v = u + base /\ u >= 0 /\ z >= 0 /\ w = v + z /\ w <= L
  BY <1>1, <1>2 DEF u, v, w, z
<1>5. u \in 0..L /\ v \in 0..L /\ u < v
  BY <1>3, <1>4
<1> QED
  BY <1>1, <1>5 DEF u, v

\* A byte data does not have.
Lacks(data, byte) == \A i \in 1..Len(data) : data[i] # byte

\* splitAndAppend loses nothing, adds nothing and makes no empty part.
LEMMA SplitParts ==
  ASSUME NEW data \in Seq(Int), data # <<>>, NEW n \in Nat \ {0}
  PROVE  LET parts == Split(data, n)
         IN /\ parts \in Seq(Seq(Int)) /\ Len(parts) \in Nat \ {0}
            /\ Joined(parts) = data
            /\ \A i \in 1..Len(parts) :
                 /\ Len(parts[i]) \in 1..Len(data)
                 /\ \A byte \in Int : Lacks(data, byte) => Lacks(parts[i], byte)
<1> DEFINE L == Len(data)
           base == L \div n
           parts == Split(data, n)
<1>1. L \in Nat \ {0}
  BY EmptySeq
<1>2. CASE n = 1 \/ L < n
  <2>1. parts = <<data>>
    BY <1>2 DEF Split
  <2>2. Joined(<<data>>) = data
    BY JoinedOne
  <2> HIDE DEF parts
  <2>3. parts \in Seq(Seq(Int)) /\ Len(parts) = 1 /\ parts[1] = data
    BY <2>1
  <2> QED
    BY <1>1, <2>1, <2>2, <2>3 DEF parts
<1>3. CASE ~(n = 1 \/ L < n)
  <2> DEFINE from(i) == (i - 1) * base
             to(i) == IF i = n THEN L ELSE i * base
  <2>1. base \in Nat /\ base >= 1 /\ n * base <= L
    BY <1>1, <1>3, Quotient
  <2>2. parts = [i \in 1..n |-> Slice(data, from(i), to(i))]
    BY <1>3 DEF Split
  <2> HIDE DEF base, parts
  <2>3. \A i \in 1..n : from(i) \in 0..L /\ to(i) \in from(i)..L /\ from(i) < to(i)
    <3> TAKE i \in 1..n
    <3> DEFINE u == (i - 1) * base
               v == i * base
    <3>1. u \in 0..L /\ v \in 0..L /\ u < v
      BY <1>1, <2>1, Bounds
    <3> HIDE DEF u, v, L
    <3> QED
      BY <1>1, <3>1 DEF u, v
  <2>4. from(1) = 0
    BY <2>1
  <2>5. \A i \in 1..n : i # 1 => from(i) = to(i - 1)
    BY <2>1
  <2>6. to(n) = L
    OBVIOUS
  <2> HIDE DEF from, to
  <2>7. \A i \in 1..n : /\ parts[i] = Slice(data, from(i), to(i)) /\ parts[i] \in Seq(Int)
                        /\ Len(parts[i]) = to(i) - from(i)
                        /\ \A k \in 1..(to(i) - from(i)) : parts[i][k] = data[from(i) + k]
    <3> TAKE i \in 1..n
    <3>1. from(i) \in 0..L /\ to(i) \in from(i)..L
      BY <2>3
    <3>2. parts[i] = Slice(data, from(i), to(i))
      BY <2>2
    <3> DEFINE x == from(i)
               y == to(i)
    <3>3. x \in 0..Len(data) /\ y \in x..Len(data)
      BY <3>1
    <3> HIDE DEF x, y
    <3>4. /\ Slice(data, x, y) \in Seq(Int) /\ Len(Slice(data, x, y)) = y - x
          /\ \A k \in 1..(y - x) : Slice(data, x, y)[k] = data[x + k]
      BY <3>3, SliceIs
    <3> QED
      BY <3>2, <3>4, Zenon DEF x, y
  <2>8. parts \in Seq(Seq(Int)) /\ Len(parts) = n
    <3>1. n \in Nat /\ DOMAIN parts = 1..n /\ parts = [i \in 1..n |-> parts[i]]
      BY <2>2
    <3>2. parts \in [1..n -> Seq(Int)]
      BY <2>7, <3>1, Zenon
    <3> QED
      BY <3>1, <3>2
  <2>9. Joined(parts) = data
    <3> DEFINE f == [i \in 0..n |-> IF i = 0 THEN <<>> ELSE Slice(data, 0, to(i))]
    <3>1. \A i \in 1..n : Slice(data, 0, to(i)) \in Seq(Int)
      <4> TAKE i \in 1..n
      <4>1. 0 \in 0..L /\ to(i) \in 0..L
        BY <1>1, <2>3
      <4> QED
        BY <4>1, SliceIs
    <3>2. \A i \in 1..n : f[i] = f[i - 1] \o parts[i]
      <4> TAKE i \in 1..n
      <4>0. i \in 0..n /\ i - 1 \in 0..n /\ i # 0
        OBVIOUS
      <4>1. 0 \in 0..L /\ from(i) \in 0..L /\ to(i) \in from(i)..L
        BY <1>1, <2>3
      <4>2. f[i - 1] = Slice(data, 0, from(i))
        <5>1. CASE i = 1
          <6>1. Slice(data, 0, 0) = <<>>
            BY SubSeqEmpty DEF Slice
          <6> QED
            BY <2>4, <4>0, <5>1, <6>1
        <5>2. CASE i # 1
          <6>1. i - 1 # 0
            BY <5>2
          <6> QED
            BY <2>5, <4>0, <5>2, <6>1
        <5> QED
          BY <5>1, <5>2
      <4>3. Slice(data, 0, from(i)) \o Slice(data, from(i), to(i)) = Slice(data, 0, to(i))
        BY <4>1, SlicesMeet
      <4> QED
        BY <2>7, <4>0, <4>2, <4>3
    <3>3. f \in [0..n -> Seq(Int)] /\ f[0] = <<>>
      BY <3>1, EmptySeq
    <3>4. f[n] = data
      BY <2>6, SliceAll
    <3> HIDE DEF f
    <3>5. Puts(parts, f)
      BY <2>8, <3>2, <3>3 DEF Puts
    <3> QED
      BY <2>8, <3>4, <3>5, JoinedIs
  <2>10. ASSUME NEW i \in 1..n
         PROVE  /\ Len(parts[i]) \in 1..L
                /\ \A byte \in Int : Lacks(data, byte) => Lacks(parts[i], byte)
    <3>1. /\ from(i) \in 0..L /\ to(i) \in from(i)..L /\ from(i) < to(i)
          /\ Len(parts[i]) = to(i) - from(i)
          /\ \A k \in 1..(to(i) - from(i)) : parts[i][k] = data[from(i) + k]
      BY <2>3, <2>7
    <3>2. Len(parts[i]) \in 1..L
      BY <1>1, <3>1
    <3>3. \A k \in 1..(to(i) - from(i)) : from(i) + k \in 1..L
      BY <1>1, <3>1
    <3> QED
      BY <3>1, <3>2, <3>3, Zenon DEF Lacks
  <2> QED
    BY <2>8, <2>9, <2>10 DEF parts
<1> QED
  BY <1>2, <1>3

----
AnyPiece == [data: Seq(Int), urgent: BOOLEAN]

\* Some later piece of p is urgent.
Superseded(p, i) == \E j \in (i + 1)..Len(p) : p[j].urgent

\* What the receiver gets of p in the stream, if it does not read too early, is s.
Carries(p, s) ==
  /\ p \in Seq(AnyPiece) /\ s \in Seq(Seq(Int)) /\ Len(p) = Len(s)
  /\ \A i \in 1..Len(p) :
       IF p[i].urgent /\ ~Superseded(p, i) THEN \E byte \in Int : p[i].data = Append(s[i], byte)
       ELSE p[i].data = s[i]

LEMMA FrontOfAppend ==
  ASSUME NEW s \in Seq(Int), NEW byte \in Int
  PROVE  Front(Append(s, byte)) = s
<1> DEFINE t == Append(s, byte)
<1>1. /\ t \in Seq(Int) /\ Len(t) = Len(s) + 1 /\ \A i \in 1..Len(s) : t[i] = s[i]
      /\ Len(s) \in Nat
  BY AppendProperties
<1> HIDE DEF t
<1>2. SubSeq(t, 1, Len(s)) = Slice(t, 0, Len(s))
  BY DEF Slice
<1>3. /\ Slice(t, 0, Len(s)) \in Seq(Int) /\ Len(Slice(t, 0, Len(s))) = Len(s) - 0
      /\ \A i \in 1..(Len(s) - 0) : Slice(t, 0, Len(s))[i] = t[0 + i]
  <2>1. 0 \in 0..Len(t) /\ Len(s) \in 0..Len(t)
    BY <1>1
  <2> QED
    BY <1>1, <2>1, SliceIs
<1> DEFINE u == Slice(t, 0, Len(s))
<1> HIDE DEF u
<1>4. u \in Seq(Int) /\ Len(u) = Len(s) /\ \A i \in 1..Len(u) : u[i] = s[i]
  BY <1>1, <1>3 DEF u
<1>5. u = s
  BY <1>4, SeqEqual
<1> QED
  BY <1>1, <1>2, <1>5 DEF Front, t, u

LEMMA ReceivedIs ==
  ASSUME NEW p, NEW s, Carries(p, s)
  PROVE  Received(p, Len(p), FALSE) = Joined(s)
<1> DEFINE n == Len(p)
           superseded(i) == ~FALSE /\ \E j \in (i + 1)..n : p[j].urgent
           inBand(i) == IF p[i].urgent /\ ~superseded(i) THEN Front(p[i].data) ELSE p[i].data
<1>1. n = Len(s) /\ n \in Nat /\ \A i \in 1..n : s[i] \in Seq(Int)
  BY DEF Carries
<1>2. ASSUME NEW i \in 1..n
      PROVE  inBand(i) = s[i]
  <2>1. superseded(i) <=> Superseded(p, i)
    BY DEF Superseded
  <2> HIDE DEF superseded
  <2>2. CASE p[i].urgent /\ ~Superseded(p, i)
    <3>1. PICK byte \in Int : p[i].data = Append(s[i], byte)
      BY <2>2 DEF Carries
    <3>2. Front(Append(s[i], byte)) = s[i]
      BY <1>1, FrontOfAppend
    <3> QED
      BY <2>1, <2>2, <3>1, <3>2
  <2>3. CASE ~(p[i].urgent /\ ~Superseded(p, i))
    BY <2>1, <2>3 DEF Carries
  <2> QED
    BY <2>2, <2>3
<1>3. s = [i \in 1..n |-> s[i]]
  <2>1. DOMAIN s = 1..Len(s) /\ s \in [1..Len(s) -> Seq(Int)]
    BY LenProperties DEF Carries
  <2> QED
    BY <1>1, <2>1
<1>4. [i \in 1..n |-> inBand(i)] = [i \in 1..n |-> s[i]]
  <2> HIDE DEF inBand, n
  <2> QED
    BY <1>2
<1> QED
  BY <1>3, <1>4 DEF Received

\* The writes of a list of segments.
LEMMA WritesCarry ==
  ASSUME NEW s \in Seq(Seq(Int)), NEW oob \in BOOLEAN
  PROVE  /\ Carries(Writes(s, oob), s) /\ Len(Writes(s, oob)) = Len(s)
         /\ ~oob => \A i \in 1..Len(s) : ~Writes(s, oob)[i].urgent
         /\ \A i \in 1..Len(s) : Writes(s, oob)[i].data \in {s[i], Append(s[i], 0)}
<1> DEFINE p == Writes(s, oob)
           n == Len(s)
<1>1. n \in Nat /\ \A i \in 1..n : s[i] \in Seq(Int)
  OBVIOUS
<1>2. p = [i \in 1..n |-> IF i = 1 /\ oob THEN OOB(s[i], 0) ELSE Plain(s[i])]
  BY DEF Writes
<1>3. \A i \in 1..n : p[i] = IF i = 1 /\ oob THEN OOB(s[i], 0) ELSE Plain(s[i])
  BY <1>2
<1>4. \A i \in 1..n : OOB(s[i], 0) \in AnyPiece /\ Plain(s[i]) \in AnyPiece
  <2> TAKE i \in 1..n
  <2>1. Append(s[i], 0) \in Seq(Int) /\ s[i] \in Seq(Int)
    BY <1>1, AppendProperties
  <2> QED
    BY <2>1 DEF OOB, Plain, AnyPiece
<1>5. ASSUME NEW i \in 1..n
      PROVE  /\ i = 1 /\ oob => p[i].urgent /\ p[i].data = Append(s[i], 0)
             /\ ~(i = 1 /\ oob) => ~p[i].urgent /\ p[i].data = s[i]
  <2>1. CASE i = 1 /\ oob
    <3>1. p[i] = OOB(s[i], 0)
      BY <1>3, <2>1
    <3> HIDE DEF p
    <3> QED
      BY <2>1, <3>1 DEF OOB
  <2>2. CASE ~(i = 1 /\ oob)
    <3>1. p[i] = Plain(s[i])
      BY <1>3, <2>2
    <3> HIDE DEF p
    <3> QED
      BY <2>2, <3>1 DEF Plain
  <2> QED
    BY <2>1, <2>2
<1>6. p \in [1..n -> AnyPiece]
  <2> HIDE DEF p, n
  <2>1. \A i \in 1..n : (IF i = 1 /\ oob THEN OOB(s[i], 0) ELSE Plain(s[i])) \in AnyPiece
    BY <1>4
  <2> QED
    BY <1>2, <2>1
<1> HIDE DEF p
<1>7. p \in Seq(AnyPiece) /\ Len(p) = n
  <2> HIDE DEF n
  <2> QED
    BY <1>1, <1>6
<1>8. \A i \in 1..n : ~Superseded(p, i)
  BY <1>1, <1>5, <1>7 DEF Superseded
<1>9. Carries(p, s)
  <2>1. \A i \in 1..n : IF p[i].urgent /\ ~Superseded(p, i)
                        THEN \E byte \in Int : p[i].data = Append(s[i], byte)
                        ELSE p[i].data = s[i]
    <3> HIDE DEF n
    <3> QED
      BY <1>5, <1>8
  <2> QED
    BY <1>7, <2>1 DEF Carries
<1>10. ~oob => \A i \in 1..n : ~p[i].urgent
  BY <1>5
<1>11. \A i \in 1..n : p[i].data \in {s[i], Append(s[i], 0)}
  BY <1>5
<1> QED
  BY <1>7, <1>9, <1>10, <1>11 DEF p

\* A record as it is.
LEMMA PlainWrite ==
  ASSUME NEW data \in Seq(Int)
  PROVE  <<Plain(data)>> = Writes(<<data>>, FALSE)
<1> DEFINE s == <<data>>
           p == Writes(s, FALSE)
           q == <<Plain(data)>>
<1>1. Len(s) = 1 /\ s[1] = data /\ s \in Seq(Seq(Int))
  OBVIOUS
<1> HIDE DEF s
<1>2. p \in Seq(AnyPiece) /\ Len(p) = 1
  BY <1>1, WritesCarry DEF Carries
<1>3. p[1] = Plain(data)
  BY <1>1 DEF Writes
<1> HIDE DEF p
<1>4. Plain(data) \in AnyPiece
  BY DEF Plain, AnyPiece
<1>5. q \in Seq(AnyPiece) /\ Len(q) = 1 /\ q[1] = Plain(data)
  BY <1>4
<1> HIDE DEF q
<1>6. \A i \in 1..Len(q) : q[i] = p[i]
  BY <1>3, <1>5
<1>7. q = p
  BY <1>2, <1>5, <1>6, SeqEqual
<1> QED
  BY <1>7 DEF p, q, s

LEMMA OneAndOne ==
  ASSUME NEW S, NEW x \in S, NEW y \in S
  PROVE  <<x, y>> = <<x>> \o <<y>>
<1>1. ASSUME NEW q \in Seq(S), Len(q) = 1, q[1] = x,
             NEW t \in Seq(S), Len(t) = 2, t[1] = x, t[2] = y
      PROVE  t = q \o <<y>>
  <2>1. /\ Append(q, y) \in Seq(S) /\ Len(Append(q, y)) = Len(q) + 1
        /\ Append(q, y)[Len(q) + 1] = y /\ \A i \in 1..Len(q) : Append(q, y)[i] = q[i]
    BY AppendProperties
  <2>2. Len(t) = Len(Append(q, y)) /\ \A i \in 1..Len(t) : t[i] = Append(q, y)[i]
    BY <1>1, <2>1
  <2>3. t = Append(q, y)
    BY <2>1, <2>2, SeqEqual
  <2> QED
    BY <2>3, AppendIsConcat
<1>2. <<x>> \in Seq(S) /\ Len(<<x>>) = 1 /\ <<x>>[1] = x
  OBVIOUS
<1>3. <<x, y>> \in Seq(S) /\ Len(<<x, y>>) = 2 /\ <<x, y>>[1] = x /\ <<x, y>>[2] = y
  OBVIOUS
<1> QED
  BY <1>1, <1>2, <1>3, Zenon

\* The list of what the pieces of oob_ex carry.
exParts(data) == <<Slice(data, 0, 16), Slice(data, 16, 35)>>

LEMMA ExJoined ==
  ASSUME NEW data \in Seq(Int), Len(data) >= 35
  PROVE  /\ exParts(data) \in Seq(Seq(Int)) /\ Len(exParts(data)) = 2
         /\ exRest(data) \in Seq(Int)
         /\ Len(exRest(data)) = Len(data) - 35
         /\ Joined(exParts(data)) \o exRest(data) = data
         /\ Joined(exParts(data)) = Slice(data, 0, 35)
<1>0. /\ 0 \in 0..Len(data) /\ 16 \in 0..Len(data) /\ 35 \in 0..Len(data)
      /\ Len(data) \in 0..Len(data) /\ 16 \in 16..Len(data) /\ 35 \in 16..Len(data)
      /\ 35 \in 0..Len(data) /\ Len(data) \in 35..Len(data)
  OBVIOUS
<1>1. /\ Slice(data, 0, 16) \in Seq(Int) /\ Slice(data, 16, 35) \in Seq(Int)
      /\ Slice(data, 35, Len(data)) \in Seq(Int)
      /\ Len(Slice(data, 35, Len(data))) = Len(data) - 35
  BY <1>0, SliceIs
<1>2. Slice(data, 0, 16) \o Slice(data, 16, 35) = Slice(data, 0, 35)
  BY <1>0, SlicesMeet
<1>3. Slice(data, 0, 35) \o Slice(data, 35, Len(data)) = data
  BY <1>0, SlicesMeet, SliceAll
<1> DEFINE x == Slice(data, 0, 16)
           y == Slice(data, 16, 35)
<1> HIDE DEF x, y
<1>4. x \in Seq(Int) /\ y \in Seq(Int)
  BY <1>1 DEF x, y
<1>5. /\ <<x, y>> \in Seq(Seq(Int)) /\ Len(<<x, y>>) = 2 /\ <<x, y>> = <<x>> \o <<y>>
      /\ <<x>> \in Seq(Seq(Int)) /\ <<y>> \in Seq(Seq(Int))
  <2>1. <<x, y>> \in Seq(Seq(Int)) /\ Len(<<x, y>>) = 2
    BY <1>4
  <2>2. <<x>> \in Seq(Seq(Int)) /\ <<y>> \in Seq(Seq(Int))
    BY <1>4
  <2>3. <<x, y>> = <<x>> \o <<y>>
    BY <1>4, OneAndOne
  <2> QED
    BY <2>1, <2>2, <2>3
<1>6. Joined(<<x, y>>) = x \o y
  BY <1>4, <1>5, JoinedOne, JoinedConcat
<1> QED
  BY <1>1, <1>2, <1>3, <1>5, <1>6 DEF x, y, exParts, exRest

LEMMA ExCarries ==
  ASSUME NEW data \in Seq(Int), Len(data) >= 35, NEW p, NEW s, Carries(p, s),
         \A i \in 1..Len(p) : ~p[i].urgent
  PROVE  Carries(exPieces(data) \o p, exParts(data) \o s)
<1> DEFINE x == Slice(data, 0, 15)
           y == Slice(data, 16, 35)
           z == Slice(data, 0, 16)
           p1 == OOB(x, data[16])
           p2 == OOB(y, 0)
           all == exPieces(data) \o p
           parts == exParts(data) \o s
           N == Len(p)
<1>1. x \in Seq(Int) /\ y \in Seq(Int) /\ z \in Seq(Int) /\ data[16] \in Int
  <2>1. /\ 0 \in 0..Len(data) /\ 15 \in 0..Len(data) /\ 16 \in 0..Len(data)
        /\ 35 \in 16..Len(data) /\ 16 \in 1..Len(data)
    OBVIOUS
  <2>2. data[16] \in Int
    BY <2>1
  <2>3. x \in Seq(Int) /\ y \in Seq(Int) /\ z \in Seq(Int)
    BY <2>1, SliceIs
  <2> QED
    BY <2>2, <2>3
<1>2. Append(x, data[16]) = z
  <2>1. SubSeq(data, 1, 16) = SubSeq(data, 1, 15) \o <<data[16]>>
    BY SubSeqRecursiveSecond
  <2>2. Append(x, data[16]) = x \o <<data[16]>>
    BY <1>1, AppendIsConcat
  <2> QED
    BY <2>1, <2>2 DEF Slice
<1> HIDE DEF x, y, z
<1>3. /\ p1 \in AnyPiece /\ p1.urgent /\ p1.data = z
      /\ p2 \in AnyPiece /\ p2.urgent /\ p2.data = Append(y, 0)
  <2>1. Append(y, 0) \in Seq(Int)
    BY <1>1, AppendProperties
  <2> QED
    BY <1>1, <1>2, <2>1 DEF OOB, AnyPiece
<1>4. exPieces(data) = <<p1, p2>> /\ exParts(data) = <<z, y>>
  BY DEF exPieces, exParts, x, y, z
<1> HIDE DEF p1, p2
<1>5. /\ <<p1, p2>> \in Seq(AnyPiece) /\ Len(<<p1, p2>>) = 2
      /\ <<z, y>> \in Seq(Seq(Int)) /\ Len(<<z, y>>) = 2
      /\ <<p1, p2>>[1] = p1 /\ <<p1, p2>>[2] = p2 /\ <<z, y>>[1] = z /\ <<z, y>>[2] = y
  BY <1>1, <1>3
<1>6. p \in Seq(AnyPiece) /\ s \in Seq(Seq(Int)) /\ Len(s) = N /\ N \in Nat
  BY DEF Carries
<1> HIDE DEF N
<1>7. /\ all \in Seq(AnyPiece) /\ Len(all) = 2 + N
      /\ \A i \in 1..(2 + N) : all[i] = IF i <= 2 THEN <<p1, p2>>[i] ELSE p[i - 2]
  <2> DEFINE q == <<p1, p2>>
  <2>1. all = q \o p /\ q \in Seq(AnyPiece) /\ Len(q) = 2
    BY <1>4, <1>5
  <2> HIDE DEF q, all
  <2>2. /\ q \o p \in Seq(AnyPiece) /\ Len(q \o p) = Len(q) + Len(p)
        /\ \A i \in 1..(Len(q) + Len(p)) : (q \o p)[i] = IF i <= Len(q) THEN q[i] ELSE p[i - Len(q)]
    BY <1>6, <2>1, ConcatProperties
  <2> QED
    BY <2>1, <2>2, Zenon DEF N, q
<1>8. /\ parts \in Seq(Seq(Int)) /\ Len(parts) = 2 + N
      /\ \A i \in 1..(2 + N) : parts[i] = IF i <= 2 THEN <<z, y>>[i] ELSE s[i - 2]
  <2> DEFINE q == <<z, y>>
  <2>1. parts = q \o s /\ q \in Seq(Seq(Int)) /\ Len(q) = 2
    BY <1>4, <1>5
  <2> HIDE DEF q, parts
  <2>2. /\ q \o s \in Seq(Seq(Int)) /\ Len(q \o s) = Len(q) + Len(s)
        /\ \A i \in 1..(Len(q) + Len(s)) : (q \o s)[i] = IF i <= Len(q) THEN q[i] ELSE s[i - Len(q)]
    BY <1>6, <2>1, ConcatProperties
  <2> QED
    BY <1>6, <2>1, <2>2, Zenon DEF q
<1> HIDE DEF all, parts
<1>9. all[1] = p1 /\ all[2] = p2 /\ parts[1] = z /\ parts[2] = y
  BY <1>5, <1>6, <1>7, <1>8
<1>10. \A i \in 3..(2 + N) : /\ i - 2 \in 1..N /\ all[i] = p[i - 2] /\ parts[i] = s[i - 2]
                             /\ ~all[i].urgent
  <2> TAKE i \in 3..(2 + N)
  <2>1. i - 2 \in 1..N /\ i \in 1..(2 + N) /\ ~(i <= 2)
    BY <1>6
  <2> QED
    BY <1>7, <1>8, <2>1 DEF N
<1>11. ASSUME NEW i \in 1..(2 + N)
       PROVE  IF all[i].urgent /\ ~Superseded(all, i)
              THEN \E byte \in Int : all[i].data = Append(parts[i], byte)
              ELSE all[i].data = parts[i]
  <2>1. CASE i = 1
    <3>1. Superseded(all, 1)
      <4>1. 2 \in (1 + 1)..Len(all)
        BY <1>6, <1>7
      <4> QED
        BY <1>3, <1>9, <4>1 DEF Superseded
    <3> QED
      BY <1>3, <1>9, <2>1, <3>1
  <2>2. CASE i = 2
    <3>1. ~Superseded(all, 2)
      <4>1. \A j \in (2 + 1)..Len(all) : j \in 3..(2 + N)
        BY <1>6, <1>7
      <4> QED
        BY <1>10, <4>1, Zenon DEF Superseded
    <3>2. all[2].data = Append(parts[2], 0) /\ 0 \in Int
      BY <1>3, <1>9
    <3>3. IF all[2].urgent /\ ~Superseded(all, 2)
          THEN \E byte \in Int : all[2].data = Append(parts[2], byte)
          ELSE all[2].data = parts[2]
      BY <1>3, <1>9, <3>1, <3>2, Zenon
    <3> QED
      BY <2>2, <3>3
  <2>3. CASE i \in 3..(2 + N)
    <3>1. /\ i - 2 \in 1..N /\ all[i] = p[i - 2] /\ parts[i] = s[i - 2] /\ ~p[i - 2].urgent
      BY <1>10, <2>3
    <3>2. p[i - 2].data = s[i - 2]
      BY <3>1 DEF Carries, N
    <3> QED
      BY <3>1, <3>2
  <2> QED
    BY <1>6, <2>1, <2>2, <2>3
<1> QED
  BY <1>7, <1>8, <1>11 DEF Carries, all, parts

----
\* Reading goes on as long as there is a header.
LEMMA ReadingIs ==
  ASSUME NEW s \in Seq(Int), NEW n \in Nat, n = Len(s) \div tlsRecordHeaderLen, NEW f,
         f = [i \in 0..n |-> IF i = 0 THEN [at |-> 1, records |-> <<>>] ELSE NextRecord(s, f[i - 1])]
  PROVE  Reading(s) = f[n]
<1> DEFINE first == [at |-> 1, records |-> <<>>]
           Is(w) == w = [i \in 0..n |-> IF i = 0 THEN [at |-> 1, records |-> <<>>]
                                        ELSE NextRecord(s, w[i - 1])]
           read[i \in 0..n] == IF i = 0 THEN [at |-> 1, records |-> <<>>]
                               ELSE NextRecord(s, read[i - 1])
<1>1. Reading(s) = read[n]
  BY DEF Reading
<1>2. Is(read)
  BY Zenon DEF read
<1> HIDE DEF read, first
<1>3. /\ read[0] = f[0] /\ \A i \in 1..n : read[i] = NextRecord(s, read[i - 1])
      /\ \A i \in 1..n : f[i] = NextRecord(s, f[i - 1])
  <2>1. \A i \in 0..n : read[i] = IF i = 0 THEN first ELSE NextRecord(s, read[i - 1])
    BY <1>2 DEF first
  <2>2. \A i \in 0..n : f[i] = IF i = 0 THEN first ELSE NextRecord(s, f[i - 1])
    BY DEF first
  <2>3. 0 \in 0..n /\ \A i \in 1..n : i \in 0..n /\ i # 0
    OBVIOUS
  <2> QED
    BY <2>1, <2>2, <2>3, Zenon
<1> DEFINE bad == {k \in Nat : k <= n /\ read[k] # f[k]}
<1>4. bad = {}
  <2> SUFFICES ASSUME bad # {} PROVE FALSE
    OBVIOUS
  <2>0. bad \subseteq Nat
    OBVIOUS
  <2>1. PICK d \in bad : \A e \in bad : d <= e
    BY <2>0, Smallest
  <2>2. d # 0
    BY <1>3, <2>1
  <2>3. d - 1 \in Nat /\ d - 1 <= n /\ d \in 1..n /\ ~(d <= d - 1)
    BY <2>1, <2>2
  <2>4. read[d - 1] = f[d - 1]
    BY <2>1, <2>3
  <2> QED
    BY <1>3, <2>1, <2>3, <2>4
<1>5. n \notin bad
  BY <1>4
<1>6. read[n] = f[n]
  BY <1>5
<1> QED
  BY <1>1, <1>6

\* A record as long as its header says.
Sound(r) == Len(r) > tlsRecordHeaderLen /\ Len(r) = tlsRecordHeaderLen + 256 * r[4] + r[5]

\* Where the records lie in the stream, if J is what is put together of the first ones.
Places(p, J) ==
  /\ \A i \in 0..Len(p) : /\ Len(J[i]) \in Nat /\ 5 * i <= Len(J[i])
                          /\ Len(J[i]) <= Len(J[Len(p)])
                          /\ \A k \in 1..Len(J[i]) : J[Len(p)][k] = J[i][k]
  /\ \A i \in 1..Len(p) : /\ Len(J[i]) = Len(J[i - 1]) + Len(p[i])
                          /\ \A k \in 1..Len(p[i]) : J[i][Len(J[i - 1]) + k] = p[i][k]

LEMMA PutsLie ==
  ASSUME NEW p \in Seq(Seq(Int)), NEW J, Puts(p, J), \A i \in 1..Len(p) : Len(p[i]) > 5
  PROVE  Places(p, J)
<1> DEFINE m == Len(p)
           s == J[m]
<1>1. /\ m \in Nat /\ \A i \in 1..m : p[i] \in Seq(Int) /\ Len(p[i]) \in Nat /\ Len(p[i]) > 5
  OBVIOUS
<1>2. \A i \in 0..m : J[i] \in Seq(Int) /\ Len(J[i]) \in Nat
  <2>1. \A i \in 0..m : J[i] \in Seq(Int)
    BY DEF Puts
  <2> QED
    BY <2>1, LenProperties
<1>3. J[0] = <<>> /\ Len(J[0]) = 0
  BY DEF Puts
<1> HIDE DEF m
<1>4. ASSUME NEW i \in 1..m
      PROVE  /\ Len(J[i]) = Len(J[i - 1]) + Len(p[i])
             /\ \A k \in 1..Len(J[i - 1]) : J[i][k] = J[i - 1][k]
             /\ \A k \in 1..Len(p[i]) : J[i][Len(J[i - 1]) + k] = p[i][k]
             /\ i - 1 \in 0..m /\ i \in 0..m
  <2>1. i - 1 \in 0..m /\ i \in 0..m
    BY <1>1
  <2>2. J[i] = J[i - 1] \o p[i] /\ J[i - 1] \in Seq(Int) /\ p[i] \in Seq(Int)
    BY <1>1, <1>2, <2>1 DEF Puts, m
  <2> DEFINE x == J[i - 1]
             y == p[i]
             z == J[i]
  <2>3. z = x \o y /\ x \in Seq(Int) /\ y \in Seq(Int)
    BY <2>2
  <2> HIDE DEF x, y, z
  <2>4. /\ Len(x \o y) = Len(x) + Len(y) /\ Len(x) \in Nat /\ Len(y) \in Nat
        /\ \A k \in 1..(Len(x) + Len(y)) : (x \o y)[k] = IF k <= Len(x) THEN x[k] ELSE y[k - Len(x)]
    BY <2>3, ConcatProperties
  <2>5. \A k \in 1..Len(x) : z[k] = x[k]
    BY <2>3, <2>4
  <2>6. ASSUME NEW k \in 1..Len(y)
        PROVE  z[Len(x) + k] = y[k]
    <3>1. Len(x) + k \in 1..(Len(x) + Len(y)) /\ ~(Len(x) + k <= Len(x)) /\ Len(x) + k - Len(x) = k
      BY <2>4
    <3> QED
      BY <2>3, <2>4, <3>1
  <2> QED
    BY <2>1, <2>3, <2>4, <2>5, <2>6 DEF x, y, z
<1>5. \A i \in 0..m : 5 * i <= Len(J[i])
  <2> DEFINE bad == {k \in Nat : k <= m /\ ~(5 * k <= Len(J[k]))}
  <2>1. bad = {}
    <3> SUFFICES ASSUME bad # {} PROVE FALSE
      OBVIOUS
    <3>0. bad \subseteq Nat
      OBVIOUS
    <3>1. PICK d \in bad : \A e \in bad : d <= e
      BY <3>0, Smallest
    <3>2. d # 0
      BY <1>3, <3>1
    <3>3. d - 1 \in Nat /\ d - 1 <= m /\ d \in 1..m /\ ~(d <= d - 1)
      BY <1>1, <3>1, <3>2
    <3>4. 5 * (d - 1) <= Len(J[d - 1])
      BY <3>1, <3>3
    <3>5. Len(J[d]) = Len(J[d - 1]) + Len(p[d]) /\ Len(J[d]) \in Nat /\ Len(J[d - 1]) \in Nat
          /\ Len(p[d]) \in Nat /\ Len(p[d]) > 5
      BY <1>1, <1>2, <1>4, <3>3
    <3>6. 5 * d <= Len(J[d])
      <4> DEFINE x == Len(J[d - 1])
                 y == Len(p[d])
                 z == Len(J[d])
      <4>1. z = x + y /\ x \in Nat /\ y \in Nat /\ y > 5 /\ 5 * (d - 1) <= x /\ d \in Nat
        BY <3>3, <3>4, <3>5
      <4> HIDE DEF x, y, z
      <4>2. 5 * d <= z
        BY <4>1
      <4> QED
        BY <4>2 DEF z
    <3> QED
      BY <3>1, <3>6
  <2>2. ASSUME NEW i \in 0..m PROVE 5 * i <= Len(J[i])
    <3>1. i \in Nat /\ i <= m
      BY <1>1
    <3>2. i \notin bad
      BY <2>1
    <3> QED
      BY <3>1, <3>2
  <2> QED
    BY <2>2
<1> DEFINE Lies(i) == Len(J[i]) <= Len(s) /\ \A k \in 1..Len(J[i]) : s[k] = J[i][k]
<1>6. \A i \in 0..m : Lies(i)
  <2> DEFINE bad == {k \in Nat : k <= m /\ ~Lies(m - k)}
  <2>1. bad = {}
    <3> SUFFICES ASSUME bad # {} PROVE FALSE
      OBVIOUS
    <3>0. bad \subseteq Nat
      OBVIOUS
    <3>1. PICK d \in bad : \A e \in bad : d <= e
      BY <3>0, Smallest
    <3>2. d # 0
      <4>1. Lies(m)
        BY <1>1, <1>2
      <4>2. m - 0 = m
        BY <1>1
      <4> QED
        BY <3>1, <4>1, <4>2
    <3>3. d - 1 \in Nat /\ d - 1 <= m /\ ~(d <= d - 1) /\ d \in Nat /\ d <= m
          /\ m - d + 1 \in 1..m /\ m - d + 1 - 1 = m - d /\ m - (d - 1) = m - d + 1
          /\ m - d \in 0..m /\ m - d + 1 \in 0..m
      BY <1>1, <3>1, <3>2
    <3>4. Lies(m - d + 1)
      <4>1. d - 1 \notin bad
        <5> HIDE DEF bad
        <5> QED
          BY <3>1, <3>3
      <4> HIDE DEF Lies
      <4> QED
        BY <3>3, <4>1
    <3> DEFINE i == m - d + 1
    <3>5. i \in 1..m /\ i - 1 = m - d /\ Lies(i)
      BY <3>3, <3>4
    <3> HIDE DEF i
    <3>6. Lies(i - 1)
      <4>1. Len(J[i]) = Len(J[i - 1]) + Len(p[i]) /\ \A k \in 1..Len(J[i - 1]) : J[i][k] = J[i - 1][k]
        BY <1>4, <3>5
      <4>2. Len(J[i]) \in Nat /\ Len(J[i - 1]) \in Nat /\ Len(s) \in Nat /\ Len(p[i]) \in Nat
        BY <1>1, <1>2, <1>4, <3>5, SMTT(30)
      <4>3. Len(J[i - 1]) <= Len(J[i]) /\ Len(J[i]) <= Len(s)
        <5>1. Len(J[i]) <= Len(s)
          BY <3>5
        <5> DEFINE x == Len(J[i - 1])
                   y == Len(p[i])
                   z == Len(J[i])
        <5>2. z = x + y /\ x \in Nat /\ y \in Nat
          BY <4>1, <4>2
        <5> HIDE DEF x, y, z
        <5>3. x <= z
          BY <5>2
        <5> QED
          BY <5>1, <5>3 DEF x, z
      <4>4. \A k \in 1..Len(J[i - 1]) : k \in 1..Len(J[i])
        BY <4>2, <4>3
      <4>5. \A k \in 1..Len(J[i - 1]) : s[k] = J[i - 1][k]
        BY <3>5, <4>1, <4>4, Zenon
      <4> HIDE DEF s
      <4> QED
        BY <4>2, <4>3, <4>5
    <3> HIDE DEF Lies
    <3> QED
      BY <3>1, <3>5, <3>6
  <2>2. \A i \in 0..m : m - i \in Nat /\ m - i <= m /\ m - (m - i) = i
    BY <1>1
  <2> HIDE DEF Lies
  <2>3. ASSUME NEW i \in 0..m PROVE Lies(i)
    <3>1. m - i \notin bad
      BY <2>1
    <3> QED
      BY <2>2, <3>1
  <2> QED
    BY <2>3
<1> QED
  BY <1>2, <1>4, <1>5, <1>6 DEF Places, m

\* The receiver makes the records out of a stream that it was put together of.
LEMMA ReadBack ==
  ASSUME NEW p \in Seq(Seq(Int)), \A i \in 1..Len(p) : Sound(p[i])
  PROVE  Reading(Joined(p)).at = Len(Joined(p)) + 1 /\ RecordsOf(Joined(p)) = p
<1>1. PICK J : Puts(p, J)
  BY PutsExist
<1> DEFINE m == Len(p)
           s == J[m]
           n == Len(s) \div tlsRecordHeaderLen
           least(i) == IF i <= m THEN i ELSE m
           f == [i \in 0..n |-> [at |-> Len(J[least(i)]) + 1, records |-> SubSeq(p, 1, least(i))]]
<1>2. s = Joined(p)
  BY <1>1, JoinedIs
<1>3. /\ m \in Nat /\ \A i \in 1..m : p[i] \in Seq(Int) /\ Len(p[i]) \in Nat /\ Len(p[i]) > 5
  BY DEF Sound, tlsRecordHeaderLen
<1>4. \A i \in 0..m : J[i] \in Seq(Int)
  BY <1>1 DEF Puts
<1>5. /\ \A i \in 0..m : /\ Len(J[i]) \in Nat /\ 5 * i <= Len(J[i]) /\ Len(J[i]) <= Len(s)
                         /\ \A k \in 1..Len(J[i]) : s[k] = J[i][k]
      /\ \A i \in 1..m : /\ Len(J[i]) = Len(J[i - 1]) + Len(p[i])
                         /\ \A k \in 1..Len(p[i]) : J[i][Len(J[i - 1]) + k] = p[i][k]
  <2>1. \A i \in 1..Len(p) : Len(p[i]) > 5
    BY <1>3
  <2> QED
    <3>1. Places(p, J)
      BY <1>1, <2>1, PutsLie, Zenon
    <3> QED
      BY <3>1 DEF Places
<1>6. J[0] = <<>> /\ Len(J[0]) = 0
  BY <1>1 DEF Puts
<1> HIDE DEF m
<1>7. s \in Seq(Int) /\ Len(s) \in Nat /\ n \in Nat /\ m <= n
  <2>1. s \in Seq(Int) /\ Len(s) \in Nat /\ 5 * m <= Len(s)
    BY <1>3, <1>4, <1>5
  <2> HIDE DEF s
  <2> QED
    BY <1>3, <2>1 DEF tlsRecordHeaderLen
<1> HIDE DEF s, n
<1>8. ASSUME NEW i \in 1..m
      PROVE  NextRecord(s, f[i - 1]) = [at |-> Len(J[i]) + 1, records |-> SubSeq(p, 1, i)]
  <2> DEFINE a == Len(J[i - 1])
             l == Len(p[i])
             r == [at |-> a + 1, records |-> SubSeq(p, 1, i - 1)]
             end == a + 1 + tlsRecordHeaderLen + 256 * s[a + 1 + 3] + s[a + 1 + 4]
  <2>1. i - 1 \in 0..n /\ i - 1 \in 0..m /\ i \in 0..m /\ i - 1 <= m /\ i \in 1..n
    BY <1>3, <1>7
  <2>2. f[i - 1] = r
    BY <2>1
  <2>3. a \in Nat /\ l \in Nat /\ l > 5 /\ Len(J[i]) = a + l /\ a + l <= Len(s)
    BY <1>3, <1>5, <2>1
  <2>4. \A k \in 1..l : s[a + k] = p[i][k]
    <3>1. \A k \in 1..l : J[i][a + k] = p[i][k]
      BY <1>5
    <3>2. \A k \in 1..Len(J[i]) : s[k] = J[i][k]
      BY <1>5, <2>1
    <3> HIDE DEF a, l
    <3>3. \A k \in 1..l : a + k \in 1..Len(J[i])
      BY <2>3
    <3> QED
      BY <3>1, <3>2, <3>3
  <2>5. /\ l = 5 + 256 * p[i][4] + p[i][5] /\ p[i][4] \in Int /\ p[i][5] \in Int
    <3>1. 4 \in 1..l /\ 5 \in 1..l
      BY <2>3
    <3> QED
      BY <1>3, <3>1 DEF Sound, tlsRecordHeaderLen, m
  <2> HIDE DEF a, l
  <2>6. s[a + 1 + 3] = p[i][4] /\ s[a + 1 + 4] = p[i][5]
    <3>1. a + 1 + 3 = a + 4 /\ a + 1 + 4 = a + 5 /\ 4 \in 1..l /\ 5 \in 1..l
      BY <2>3
    <3> QED
      BY <2>4, <3>1
  <2>7. end = a + l + 1 /\ end - 1 = a + l
    <3>1. end = a + 1 + 5 + 256 * p[i][4] + p[i][5]
      BY <2>6, Zenon DEF tlsRecordHeaderLen
    <3>2. a + l <= Len(s) /\ l = 5 + 256 * p[i][4] + p[i][5]
      BY <2>3, <2>5
    <3> DEFINE x == p[i][4]
               y == p[i][5]
    <3>3. x \in Int /\ y \in Int /\ end = a + 1 + 5 + 256 * x + y /\ l = 5 + 256 * x + y
      BY <2>5, <3>1
    <3> HIDE DEF end, x, y
    <3> QED
      BY <2>3, <3>3
  <2>8. SubSeq(s, a + 1, a + l) = p[i]
    <3> DEFINE to == a + l
               t == Slice(s, a, to)
    <3>1. a \in 0..Len(s) /\ to \in a..Len(s) /\ to - a = l
      BY <1>7, <2>3
    <3> HIDE DEF to
    <3>2. t \in Seq(Int) /\ Len(t) = to - a /\ \A k \in 1..(to - a) : t[k] = s[a + k]
      BY <1>7, <3>1, SliceIs
    <3> HIDE DEF t
    <3>3. t \in Seq(Int) /\ Len(t) = l /\ \A k \in 1..l : t[k] = p[i][k]
      BY <2>4, <3>1, <3>2
    <3>4. p[i] \in Seq(Int) /\ Len(p[i]) = l
      BY <1>3 DEF l
    <3>5. t = p[i]
      BY <3>3, <3>4, SeqEqual
    <3> QED
      BY <3>5 DEF t, to, Slice
  <2>9. Append(SubSeq(p, 1, i - 1), p[i]) = SubSeq(p, 1, i)
    <3>1. SubSeq(p, 1, i) = SubSeq(p, 1, i - 1) \o <<p[i]>>
      BY <1>3, SubSeqRecursiveSecond DEF m
    <3>2. SubSeq(p, 1, i - 1) \in Seq(Seq(Int))
      <4>1. \A k \in 1..(i - 1) : p[k] \in Seq(Int)
        BY <1>3
      <4> QED
        BY <4>1, SubSeqProperties
    <3>3. Append(SubSeq(p, 1, i - 1), p[i]) = SubSeq(p, 1, i - 1) \o <<p[i]>>
      BY <1>3, <3>2, AppendIsConcat
    <3> QED
      BY <3>1, <3>3
  <2>10. r.at = a + 1 /\ r.records = SubSeq(p, 1, i - 1)
    OBVIOUS
  <2> HIDE DEF r, end
  <2>11. NextRecord(s, r) = IF a + 1 + 4 > Len(s) THEN r
                            ELSE [at |-> end, records |-> Append(r.records, SubSeq(s, a + 1, end - 1))]
    BY <2>10, Zenon DEF NextRecord, end
  <2>12. ~(a + 1 + 4 > Len(s))
    BY <1>7, <2>3
  <2> QED
    BY <2>2, <2>3, <2>7, <2>8, <2>9, <2>10, <2>11, <2>12
<1>9. ASSUME NEW i \in 1..n, i > m
      PROVE  NextRecord(s, f[i - 1]) = [at |-> Len(J[m]) + 1, records |-> SubSeq(p, 1, m)]
  <2> DEFINE r == [at |-> Len(J[m]) + 1, records |-> SubSeq(p, 1, m)]
  <2>1. i - 1 \in 0..n /\ least(i - 1) = m
    BY <1>3, <1>7, <1>9
  <2>2. f[i - 1] = r
    BY <2>1
  <2>3. r.at + 4 > Len(s)
    BY <1>7 DEF s
  <2> HIDE DEF r
  <2>4. NextRecord(s, r) = r
    BY <2>3, Zenon DEF NextRecord
  <2> QED
    BY <2>2, <2>4 DEF r
<1>10. f = [i \in 0..n |-> IF i = 0 THEN [at |-> 1, records |-> <<>>] ELSE NextRecord(s, f[i - 1])]
  <2>1. ASSUME NEW i \in 0..n
        PROVE  f[i] = IF i = 0 THEN [at |-> 1, records |-> <<>>] ELSE NextRecord(s, f[i - 1])
    <3>1. CASE i = 0
      <4>1. SubSeq(p, 1, 0) = <<>> /\ least(0) = 0
        BY <1>3, SubSeqEmpty
      <4> QED
        BY <1>6, <3>1, <4>1
    <3>2. CASE i \in 1..m
      <4>1. f[i] = [at |-> Len(J[i]) + 1, records |-> SubSeq(p, 1, i)] /\ i # 0
        BY <1>3, <3>2
      <4> HIDE DEF f
      <4> QED
        BY <1>8, <3>2, <4>1, Zenon
    <3>3. CASE i > m /\ i # 0
      <4>1. f[i] = [at |-> Len(J[m]) + 1, records |-> SubSeq(p, 1, m)] /\ i \in 1..n
        BY <1>3, <1>7, <3>3
      <4> HIDE DEF f
      <4> QED
        BY <1>9, <3>3, <4>1, Zenon
    <3> QED
      BY <1>3, <3>1, <3>2, <3>3
  <2> HIDE DEF f
  <2>2. f = [i \in 0..n |-> f[i]]
    BY DEF f
  <2> QED
    BY <2>1, <2>2
<1>11. f[n] = [at |-> Len(s) + 1, records |-> SubSeq(p, 1, m)]
  BY <1>3, <1>7 DEF s
<1>12. SubSeq(p, 1, m) = p
  BY SubSeqFull DEF m
<1> HIDE DEF f
<1>13. Reading(s) = f[n]
  BY <1>7, <1>10, ReadingIs DEF n
<1> QED
  BY <1>2, <1>11, <1>12, <1>13 DEF RecordsOf

----
\* A record that holds a name, as ClientHelloAssumption has it.
Fits(h) ==
  /\ h \in [len: 0..(tlsRecordHeaderLen + 256 * 256 - 1), sniStart: Nat, sniLen: Nat, dot: Int]
  /\ h.sniStart >= 58 /\ h.sniStart + h.sniLen <= h.len
  /\ h.dot \in -1..(h.sniLen - 1)

\* Something is left behind the cut.
Inside(h) == h.sniStart < h.len

\* Long enough for a name, and a length that a header can have.
Short(len) == len \in Nat /\ len >= 58 /\ len <= 256 * 256 + 4

LEMMA CutInName ==
  ASSUME NEW h, Fits(h)
  PROVE  /\ h.sniLen > 0 => CutAt(h) \in h.sniStart..(h.sniStart + h.sniLen - 1)
         /\ h.sniLen = 0 => CutAt(h) = h.sniStart
         /\ Inside(h) => CutAt(h) \in 58..(h.len - 1)
         /\ CutAt(h) \in 58..h.len /\ Short(h.len)
<1> DEFINE l == h.sniLen
           b == h.sniStart
           d == h.dot
           n == h.len
<1>1. /\ l \in Nat /\ b \in Nat /\ d \in Int /\ b >= 58 /\ b + l <= n
      /\ d \in -1..(l - 1)
  BY DEF Fits
<1>a. n \in 0..(tlsRecordHeaderLen + 256 * 256 - 1) /\ CutAt(h) = IF d = -1 THEN l \div 2 + b ELSE b + d
  BY Zenon DEF Fits, CutAt
<1> HIDE DEF l, b, d, n
<1>b. n \in Nat /\ n <= 256 * 256 + 4
  <2> DEFINE most == tlsRecordHeaderLen + 256 * 256 - 1
  <2>1. most = 256 * 256 + 4
    BY DEF tlsRecordHeaderLen
  <2>2. n \in 0..most
    BY <1>a
  <2> HIDE DEF most
  <2>3. n \in Nat /\ n <= most
    BY <2>2
  <2> QED
    BY <2>1, <2>3, Zenon
<1>2. /\ l > 0 => CutAt(h) \in b..(b + l - 1)
      /\ l = 0 => CutAt(h) = b
  BY <1>1, <1>a
<1>3. /\ b < n => CutAt(h) \in 58..(n - 1)
      /\ CutAt(h) \in 58..n /\ Short(n)
  BY <1>1, <1>2, <1>b DEF Short
<1> QED
  BY <1>2, <1>3 DEF l, b, n, Inside

\* The record with the version that is to be sent.
HelloOf(h, minor) == IF minor = 0 THEN Hello(h) ELSE [Hello(h) EXCEPT ![3] = minor]
version(minor) == IF minor = 0 THEN 1 ELSE minor

IsByte(n) == n \in Nat /\ n < 256

\* A sequence with the bytes of such a record.
IsHello(hello, h, minor) ==
  /\ hello \in Seq(Int) /\ Len(hello) = h.len
  /\ hello[1] = 22 /\ hello[2] = 3 /\ hello[3] = version(minor)
  /\ hello[4] = (h.len - 5) \div 256 /\ hello[5] = (h.len - 5) % 256
  /\ \A i \in 1..5 : IsByte(hello[i])
  /\ \A i \in 6..h.len : hello[i] = Payload + (i - 5)

LEMMA PlainHello ==
  ASSUME NEW h, Fits(h)
  PROVE  IsHello(Hello(h), h, 0)
<1> DEFINE n == h.len
           head == <<22, 3, 1, (n - 5) \div 256, (n - 5) % 256>>
           pay == [i \in 1..(n - 5) |-> Payload + i]
           hello == head \o pay
<1>1. n \in Nat /\ n >= 58 /\ n <= 256 * 256 + 4
  BY CutInName DEF Short
<1>2. Hello(h) = hello
  BY Zenon DEF Hello, tlsRecordHeaderLen
<1> HIDE DEF n
<1>3. IsByte((n - 5) \div 256) /\ IsByte((n - 5) % 256) /\ n - 5 \in Nat
  BY <1>1 DEF IsByte
<1>4. /\ head \in Seq(Int) /\ Len(head) = 5 /\ head[1] = 22 /\ head[2] = 3 /\ head[3] = 1
      /\ head[4] = (n - 5) \div 256 /\ head[5] = (n - 5) % 256
  BY <1>3 DEF IsByte
<1>5. pay \in Seq(Int) /\ Len(pay) = n - 5 /\ \A i \in 1..(n - 5) : pay[i] = Payload + i
  <2>1. pay \in [1..(n - 5) -> Int]
    BY DEF Payload
  <2> QED
    BY <1>3, <2>1
<1> HIDE DEF head, pay
<1>6. /\ hello \in Seq(Int) /\ Len(hello) = Len(head) + Len(pay)
      /\ \A i \in 1..(Len(head) + Len(pay)) :
           hello[i] = IF i <= Len(head) THEN head[i] ELSE pay[i - Len(head)]
  <2>1. head \in Seq(Int) /\ pay \in Seq(Int)
    BY <1>4, <1>5
  <2> QED
    BY <2>1, ConcatIs
<1> HIDE DEF hello
<1>7. hello \in Seq(Int) /\ Len(hello) = n
  BY <1>1, <1>4, <1>5, <1>6
<1>8. \A i \in 1..n : hello[i] = IF i <= 5 THEN head[i] ELSE pay[i - 5]
  <2>1. Len(head) = 5 /\ Len(head) + Len(pay) = n
    BY <1>1, <1>4, <1>5
  <2> QED
    BY <1>6, <2>1
<1>9. \A i \in 1..5 : hello[i] = head[i]
  BY <1>1, <1>8
<1>10. \A i \in 6..n : hello[i] = Payload + (i - 5)
  <2> TAKE i \in 6..n
  <2>1. i \in 1..n /\ ~(i <= 5) /\ i - 5 \in 1..(n - 5)
    BY <1>1
  <2> QED
    BY <1>5, <1>8, <2>1
<1>11. \A i \in 1..5 : IsByte(hello[i])
  <2>1. IsByte(22) /\ IsByte(3) /\ IsByte(1)
    BY DEF IsByte
  <2> QED
    BY <1>3, <1>4, <1>9, <2>1
<1>12. hello[1] = 22 /\ hello[2] = 3 /\ hello[3] = 1 /\ hello[4] = (n - 5) \div 256
       /\ hello[5] = (n - 5) % 256
  BY <1>4, <1>9
<1> QED
  BY <1>2, <1>7, <1>10, <1>11, <1>12 DEF IsHello, version, n

LEMMA ThirdByte ==
  ASSUME NEW t \in Seq(Int), 3 \in 1..Len(t), NEW byte \in Int
  PROVE  /\ [t EXCEPT ![3] = byte] \in Seq(Int) /\ Len([t EXCEPT ![3] = byte]) = Len(t)
         /\ \A j \in 1..Len(t) : [t EXCEPT ![3] = byte][j] = IF j = 3 THEN byte ELSE t[j]
BY ExceptSeq

LEMMA HelloIs ==
  ASSUME NEW h, Fits(h), NEW minor, IsByte(minor)
  PROVE  IsHello(HelloOf(h, minor), h, minor)
<1> DEFINE t == Hello(h)
           u == HelloOf(h, minor)
<1>1. IsHello(t, h, 0) /\ h.len \in Nat /\ h.len >= 58
  BY PlainHello, CutInName DEF Short
<1>2. CASE minor = 0
  BY <1>1, <1>2, Zenon DEF HelloOf
<1>3. CASE minor # 0
  <2>0. u = [t EXCEPT ![3] = minor]
    BY <1>3, Zenon DEF HelloOf
  <2> HIDE DEF t, u
  <2>1. t \in Seq(Int) /\ Len(t) = h.len /\ 3 \in 1..Len(t) /\ minor \in Int
    BY <1>1 DEF IsHello, IsByte
  <2>2. u \in Seq(Int) /\ Len(u) = Len(t) /\ \A j \in 1..Len(t) : u[j] = IF j = 3 THEN minor ELSE t[j]
    BY <2>0, <2>1, ThirdByte
  <2>3. \A j \in 1..h.len : u[j] = IF j = 3 THEN minor ELSE t[j]
    BY <2>1, <2>2
  <2>4. \A i \in 1..5 : i \in 1..h.len
    BY <1>1
  <2>5. \A i \in 6..h.len : i \in 1..h.len /\ i # 3
    BY <1>1
  <2>6. u[1] = 22 /\ u[2] = 3 /\ u[3] = minor /\ u[4] = (h.len - 5) \div 256 /\ u[5] = (h.len - 5) % 256
    <3>1. 1 \in 1..h.len /\ 2 \in 1..h.len /\ 3 \in 1..h.len /\ 4 \in 1..h.len /\ 5 \in 1..h.len
      BY <1>1
    <3>2. u[1] = t[1] /\ u[2] = t[2] /\ u[3] = minor /\ u[4] = t[4] /\ u[5] = t[5]
      BY <2>3, <3>1
    <3> QED
      BY <1>1, <3>2, Zenon DEF IsHello
  <2>7. \A i \in 1..5 : IsByte(u[i])
    <3> TAKE i \in 1..5
    <3>1. IsByte(t[i])
      BY <1>1, Zenon DEF IsHello
    <3>2. u[i] = IF i = 3 THEN minor ELSE t[i]
      BY <2>3, <2>4, Zenon
    <3> QED
      BY <3>1, <3>2, Zenon
  <2>8. \A i \in 6..h.len : u[i] = Payload + (i - 5)
    BY <1>1, <2>3, <2>5 DEF IsHello
  <2>9. IsHello(u, h, minor)
    BY <1>3, <2>1, <2>2, <2>6, <2>7, <2>8 DEF IsHello, version
  <2> QED
    BY <2>9 DEF u
<1> QED
  BY <1>2, <1>3

\* The byte of the payload at a place is in no slice that does not reach there.
LEMMA SliceLacks ==
  ASSUME NEW hello, NEW h, NEW minor, IsHello(hello, h, minor),
         NEW from \in 0..Len(hello), NEW to \in from..Len(hello),
         NEW place \in 6..(Len(hello) + 1), place \notin (from + 1)..to
  PROVE  Lacks(Slice(hello, from, to), Payload + (place - 5))
<1> DEFINE s == Slice(hello, from, to)
<1>1. hello \in Seq(Int) /\ Len(hello) = h.len
  BY DEF IsHello
<1>2. Len(s) = to - from /\ \A i \in 1..(to - from) : s[i] = hello[from + i]
  BY <1>1, SliceIs
<1> HIDE DEF s
<1>3. ASSUME NEW i \in 1..Len(s), s[i] = Payload + (place - 5) PROVE FALSE
  <2>1. from + i \in (from + 1)..to /\ from + i \in 1..Len(hello) /\ s[i] = hello[from + i]
    <3>1. Len(hello) \in Nat /\ i \in 1..(to - from)
      BY <1>1, <1>2
    <3>2. s[i] = hello[from + i]
      BY <1>2, <3>1
    <3> QED
      BY <3>1, <3>2
  <2> DEFINE k == from + i
  <2>2. k \in 1..h.len /\ hello[k] = Payload + (place - 5) /\ k # place
    BY <1>1, <1>3, <2>1
  <2> HIDE DEF k
  <2>3. CASE k \in 1..5
    <3>1. IsByte(hello[k])
      BY <2>3 DEF IsHello
    <3> QED
      BY <2>2, <3>1 DEF Payload, IsByte
  <2>4. CASE k \in 6..h.len
    <3>1. hello[k] = Payload + (k - 5)
      BY <2>4 DEF IsHello
    <3> QED
      BY <1>1, <2>2, <2>4, <3>1 DEF Payload
  <2> QED
    BY <1>1, <2>2, <2>3, <2>4
<1> QED
  BY <1>3 DEF Lacks, s

\* One of the two bytes of the name between which it is cut is not in data.
Apart(data, h) == Lacks(data, Payload + (CutAt(h) - 5)) \/ Lacks(data, Payload + (CutAt(h) + 1 - 5))

LEMMA NameCut ==
  ASSUME NEW h, Fits(h), CutAt(h) # h.sniStart, NEW data \in Seq(Int), Apart(data, h)
  PROVE  ~HoldsName(data, h)
<1> DEFINE hello == Hello(h)
           from == h.sniStart
           to == h.sniStart + h.sniLen
           name == Slice(hello, from, to)
           mid == CutAt(h)
<1>1. IsHello(hello, h, 0)
  BY PlainHello
<1>2. /\ mid \in from..(to - 1) /\ mid # from /\ from \in Nat /\ to \in Nat /\ from >= 58
      /\ to <= h.len /\ h.len \in Nat
  <2>1. h.sniStart \in Nat /\ h.sniLen \in Nat
    BY DEF Fits
  <2>2. h.len \in Nat /\ h.sniLen > 0 /\ CutAt(h) \in h.sniStart..(h.sniStart + h.sniLen - 1)
    BY <2>1, CutInName DEF Short
  <2>3. h.sniStart >= 58 /\ h.sniStart + h.sniLen <= h.len
    BY DEF Fits
  <2> DEFINE l == h.sniLen
             b == h.sniStart
             n == h.len
  <2>4. l \in Nat /\ b \in Nat /\ n \in Nat /\ b >= 58 /\ b + l <= n /\ CutAt(h) \in b..(b + l - 1) /\ CutAt(h) # b
    BY <2>1, <2>2, <2>3
  <2> HIDE DEF l, b, n
  <2>5. b + l \in Nat
    BY <2>4
  <2> QED
    BY <2>4, <2>5 DEF l, b, n
<1>3. hello \in Seq(Int) /\ Len(hello) = h.len
  BY <1>1 DEF IsHello
<1> HIDE DEF hello, from, to, mid
<1>4. from \in 0..Len(hello) /\ to \in from..Len(hello)
  BY <1>2, <1>3
<1>5. name \in Seq(Int) /\ Len(name) = to - from /\ \A i \in 1..(to - from) : name[i] = hello[from + i]
  BY <1>3, <1>4, SliceIs
<1> HIDE DEF name
<1>6. \A i \in (from + 1)..to : hello[i] \in ToSet(name)
  <2> TAKE i \in (from + 1)..to
  <2>1. i - from \in 1..(to - from) /\ from + (i - from) = i /\ i - from \in DOMAIN name
    BY <1>2, <1>5
  <2>2. name[i - from] = hello[i]
    BY <1>5, <2>1
  <2> QED
    BY <2>1, <2>2, Zenon DEF ToSet
<1>7. \A i \in 6..h.len : hello[i] = Payload + (i - 5)
  BY <1>1 DEF IsHello
<1>8. Payload + (mid - 5) \in ToSet(name) /\ Payload + (mid + 1 - 5) \in ToSet(name)
  <2>1. /\ mid \in (from + 1)..to /\ mid + 1 \in (from + 1)..to
        /\ mid \in 6..h.len /\ mid + 1 \in 6..h.len
    BY <1>2
  <2> QED
    BY <1>6, <1>7, <2>1
<1>9. \A byte : Lacks(data, byte) => byte \notin ToSet(data)
  BY LenProperties DEF Lacks, ToSet
<1>10. ~(ToSet(name) \subseteq ToSet(data))
  BY <1>8, <1>9 DEF Apart, mid
<1> QED
  BY <1>10 DEF HoldsName, name, from, to, hello

----


\* A record made of a header and a payload.
Made(r, head, pay) ==
  /\ r \in Seq(Int) /\ Len(r) = 5 + Len(pay) /\ Len(pay) \in Nat \ {0} /\ Sound(r)
  /\ Slice(r, 0, 3) = head /\ Slice(r, tlsRecordHeaderLen, Len(r)) = pay
  /\ r[4] = Len(pay) \div 256 /\ r[5] = Len(pay) % 256
  /\ \A i \in 1..3 : r[i] = head[i]
  /\ \A i \in 1..Len(pay) : r[5 + i] = pay[i]

LEMMA RecordIs ==
  ASSUME NEW head \in Seq(Int), Len(head) = 3, NEW pay \in Seq(Int), pay # <<>>
  PROVE  Made(makeRecord(head, pay), head, pay)
<1> DEFINE l == Len(pay)
           size == <<l \div 256, l % 256>>
           front == head \o size
           r == front \o pay
<1>1. makeRecord(head, pay) = r
  BY DEF makeRecord
<1>2. l \in Nat \ {0}
  BY EmptySeq
<1> HIDE DEF l
<1>3. size \in Seq(Int) /\ Len(size) = 2 /\ size[1] = l \div 256 /\ size[2] = l % 256
  BY <1>2
<1> HIDE DEF size
<1>4. /\ front \in Seq(Int) /\ Len(front) = Len(head) + Len(size)
      /\ \A i \in 1..(Len(head) + Len(size)) :
           front[i] = IF i <= Len(head) THEN head[i] ELSE size[i - Len(head)]
  BY <1>3, ConcatIs
<1> HIDE DEF front
<1>5. front \in Seq(Int) /\ Len(front) = 5 /\ \A i \in 1..5 : front[i] = IF i <= 3 THEN head[i] ELSE size[i - 3]
  BY <1>3, <1>4
<1>6. /\ r \in Seq(Int) /\ Len(r) = Len(front) + Len(pay)
      /\ \A i \in 1..(Len(front) + Len(pay)) :
           r[i] = IF i <= Len(front) THEN front[i] ELSE pay[i - Len(front)]
  BY <1>5, ConcatProperties
<1> HIDE DEF r
<1>7. r \in Seq(Int) /\ Len(r) = 5 + l
  BY <1>5, <1>6 DEF l
<1>8. \A i \in 1..(5 + l) : r[i] = IF i <= 5 THEN front[i] ELSE pay[i - 5]
  BY <1>5, <1>6 DEF l
<1>9. \A i \in 1..5 : r[i] = front[i]
  BY <1>2, <1>8
<1>10. \A i \in 1..l : r[5 + i] = pay[i]
  <2> TAKE i \in 1..l
  <2>1. 5 + i \in 1..(5 + l) /\ ~(5 + i <= 5) /\ 5 + i - 5 = i
    BY <1>2
  <2> QED
    BY <1>8, <2>1
<1>11. r[4] = l \div 256 /\ r[5] = l % 256 /\ \A i \in 1..3 : r[i] = head[i]
  <2>1. r[4] = front[4] /\ r[5] = front[5] /\ front[4] = size[1] /\ front[5] = size[2]
    BY <1>5, <1>9
  <2>2. \A i \in 1..3 : r[i] = head[i]
    BY <1>5, <1>9
  <2> QED
    BY <1>3, <2>1, <2>2
<1>12. Sound(r)
  <2>1. l = 256 * (l \div 256) + (l % 256)
    BY <1>2
  <2>2. 5 + l > 5 /\ 5 + l = 5 + 256 * (l \div 256) + (l % 256)
    BY <1>2, <2>1
  <2> QED
    BY <1>7, <1>11, <2>2 DEF Sound, tlsRecordHeaderLen
<1>13. Slice(r, 0, 3) = head
  <2> DEFINE t == Slice(r, 0, 3)
  <2>1. 0 \in 0..Len(r) /\ 3 \in 0..Len(r)
    BY <1>2, <1>7
  <2>2. t \in Seq(Int) /\ Len(t) = 3 - 0 /\ \A i \in 1..(3 - 0) : t[i] = r[0 + i]
    BY <1>7, <2>1, SliceIs
  <2> HIDE DEF t
  <2>3. Len(t) = Len(head) /\ \A i \in 1..Len(t) : t[i] = head[i]
    BY <1>11, <2>2
  <2>4. t = head
    BY <2>2, <2>3, SeqEqual
  <2> QED
    BY <2>4 DEF t
<1>14. Slice(r, 5, 5 + l) = pay
  <2> DEFINE e == 5 + l
             t == Slice(r, 5, e)
  <2>1. 5 \in 0..Len(r) /\ e \in 5..Len(r) /\ e - 5 = l
    BY <1>2, <1>7
  <2> HIDE DEF e
  <2>2. t \in Seq(Int) /\ Len(t) = e - 5 /\ \A i \in 1..(e - 5) : t[i] = r[5 + i]
    BY <1>7, <2>1, SliceIs
  <2> HIDE DEF t
  <2>3. Len(t) = Len(pay) /\ \A i \in 1..Len(t) : t[i] = pay[i]
    BY <1>10, <2>1, <2>2 DEF l
  <2>4. t = pay
    BY <2>2, <2>3, SeqEqual
  <2> QED
    BY <2>4 DEF t, e
<1> QED
  BY <1>1, <1>2, <1>7, <1>10, <1>11, <1>12, <1>13, <1>14, Zenon DEF l, tlsRecordHeaderLen, Made

\* The header a record of the ClientHello begins with.
IsHead(head, minor) == head = <<22, 3, version(minor)>>

\* The payloads of records that carry the ClientHello.
Payloads(pays, h) ==
  /\ pays \in Seq(Seq(Int)) /\ Len(pays) \in Nat \ {0}
  /\ \A i \in 1..Len(pays) : pays[i] # <<>> /\ Len(pays[i]) <= h.len
  /\ Joined(pays) = Slice(Hello(h), tlsRecordHeaderLen, h.len)

\* Such records are a well fragmented stream.
LEMMA RecordsFragment ==
  ASSUME NEW h, Fits(h), NEW minor, IsByte(minor), NEW head, IsHead(head, minor),
         NEW pays, Payloads(pays, h), NEW chunks,
         chunks = [i \in 1..Len(pays) |-> makeRecord(head, pays[i])]
  PROVE  /\ chunks \in Seq(Seq(Int)) /\ Len(chunks) = Len(pays)
         /\ RecordsOf(Joined(chunks)) = chunks
         /\ WellFragmented(Joined(chunks), h, version(minor))
         /\ Joined(chunks) \in Seq(Int) /\ Len(Joined(chunks)) >= 53
<1> DEFINE n == Len(pays)
           s == Joined(chunks)
<1>0. version(minor) \in Int
  BY DEF version, IsByte
<1>1. head \in Seq(Int) /\ Len(head) = 3
  BY <1>0 DEF IsHead
<1>2. /\ n \in Nat \ {0} /\ pays \in Seq(Seq(Int))
      /\ \A i \in 1..n : pays[i] \in Seq(Int) /\ pays[i] # <<>>
  BY DEF Payloads
<1> HIDE DEF n
<1>3. \A i \in 1..n : /\ makeRecord(head, pays[i]) \in Seq(Int) /\ Sound(makeRecord(head, pays[i]))
                      /\ Slice(makeRecord(head, pays[i]), 0, 3) = head
                      /\ Slice(makeRecord(head, pays[i]), tlsRecordHeaderLen, Len(makeRecord(head, pays[i]))) = pays[i]
  <2>1. \A i \in 1..n : Made(makeRecord(head, pays[i]), head, pays[i])
    BY <1>1, <1>2, RecordIs
  <2> QED
    BY <2>1 DEF Made
<1>4. chunks \in [1..n -> Seq(Int)] /\ \A i \in 1..n : chunks[i] = makeRecord(head, pays[i])
  <2>1. \A i \in 1..n : makeRecord(head, pays[i]) \in Seq(Int)
    BY <1>3
  <2>2. chunks = [i \in 1..n |-> makeRecord(head, pays[i])]
    BY DEF n
  <2> QED
    BY <2>1, <2>2
<1>5. chunks \in Seq(Seq(Int)) /\ Len(chunks) = n
  BY <1>2, <1>4
<1>6. \A i \in 1..Len(chunks) : /\ Sound(chunks[i]) /\ Slice(chunks[i], 0, 3) = head
                                /\ Slice(chunks[i], tlsRecordHeaderLen, Len(chunks[i])) = pays[i]
  BY <1>3, <1>4, <1>5
<1>7. Reading(s).at = Len(s) + 1 /\ RecordsOf(s) = chunks
  BY <1>5, <1>6, ReadBack
<1>8. s \in Seq(Int)
  BY <1>5, JoinedTyped
<1> HIDE DEF s
<1>9. WellFragmented(s, h, version(minor))
  <2> DEFINE payload(i) == Slice(chunks[i], tlsRecordHeaderLen, Len(chunks[i]))
  <2>1. \A i \in 1..Len(chunks) : Slice(chunks[i], 0, 3) = <<22, 3, version(minor)>> /\ payload(i) # <<>>
    <3> TAKE i \in 1..Len(chunks)
    <3>1. i \in 1..n /\ pays[i] # <<>>
      BY <1>2, <1>5
    <3>2. Slice(chunks[i], 0, 3) = head /\ payload(i) = pays[i]
      BY <1>6, Zenon
    <3> QED
      BY <3>1, <3>2, Zenon DEF IsHead
  <2>2. [i \in 1..Len(chunks) |-> payload(i)] = pays
    <3>1. \A i \in 1..n : payload(i) = pays[i]
      BY <1>5, <1>6
    <3>2. pays = [i \in 1..n |-> pays[i]]
      BY <1>2, LenProperties DEF n
    <3> HIDE DEF payload
    <3> QED
      BY <1>5, <3>1, <3>2
  <2>3. Joined([i \in 1..Len(chunks) |-> payload(i)]) = Slice(Hello(h), tlsRecordHeaderLen, h.len)
    BY <2>2 DEF Payloads
  <2> QED
    BY <1>7, <2>1, <2>3, Zenon DEF WellFragmented
<1>10. Len(s) >= 53
  <2>1. PICK J : Puts(chunks, J)
    BY <1>5, PutsExist
  <2>2. PICK G : Puts(pays, G)
    BY <1>2, PutsExist
  <2>3. /\ J \in [0..n -> Seq(Int)] /\ J[0] = <<>> /\ \A i \in 1..n : J[i] = J[i - 1] \o chunks[i]
        /\ G \in [0..n -> Seq(Int)] /\ G[0] = <<>> /\ \A i \in 1..n : G[i] = G[i - 1] \o pays[i]
    BY <1>5, <2>1, <2>2, Zenon DEF Puts, n
  <2>4. \A i \in 1..n : Len(chunks[i]) = 5 + Len(pays[i]) /\ chunks[i] \in Seq(Int)
    <3>1. \A i \in 1..n : Made(chunks[i], head, pays[i])
      BY <1>1, <1>2, <1>4, RecordIs
    <3> QED
      BY <3>1 DEF Made
  <2> DEFINE Less(i) == Len(G[i]) <= Len(J[i])
             bad == {k \in Nat : k <= n /\ ~Less(k)}
  <2>5. bad = {}
    <3> SUFFICES ASSUME bad # {} PROVE FALSE
      OBVIOUS
    <3>0. bad \subseteq Nat
      OBVIOUS
    <3>1. PICK d \in bad : \A e \in bad : d <= e
      BY <3>0, Smallest
    <3>2. d # 0
      BY <2>3, <3>1
    <3>3. d - 1 \in Nat /\ d - 1 <= n /\ d \in 1..n /\ ~(d <= d - 1) /\ d - 1 \in 0..n
      BY <1>2, <3>1, <3>2
    <3>4. Less(d - 1)
      BY <3>1, <3>3
    <3> DEFINE x == J[d - 1]
               y == chunks[d]
               u == G[d - 1]
               v == pays[d]
    <3>5. /\ x \in Seq(Int) /\ y \in Seq(Int) /\ u \in Seq(Int) /\ v \in Seq(Int)
          /\ J[d] = x \o y /\ G[d] = u \o v /\ Len(y) = 5 + Len(v) /\ Len(u) <= Len(x)
      BY <1>2, <2>3, <2>4, <3>3, <3>4
    <3> HIDE DEF x, y, u, v
    <3>6. Len(x \o y) = Len(x) + Len(y) /\ Len(u \o v) = Len(u) + Len(v)
      <4>1. x \in Seq(Int) /\ y \in Seq(Int) /\ u \in Seq(Int) /\ v \in Seq(Int)
        BY <3>5
      <4> QED
        BY <4>1, ConcatIs
    <3>7. Len(u \o v) <= Len(x \o y)
      BY <3>5, <3>6
    <3> QED
      BY <3>1, <3>5, <3>7
  <2>6. Less(n)
    <3>1. n \in Nat /\ n <= n /\ n \notin bad
      BY <1>2, <2>5
    <3> QED
      BY <3>1
  <2>7. Joined(pays) = G[n] /\ s = J[n]
    BY <1>2, <1>5, <2>1, <2>2, JoinedIs DEF n, s
  <2>8. Len(Slice(Hello(h), tlsRecordHeaderLen, h.len)) >= 53
    <3>1. IsHello(Hello(h), h, 0) /\ Short(h.len)
      BY PlainHello, CutInName
    <3>2. /\ Hello(h) \in Seq(Int) /\ 5 \in 0..Len(Hello(h)) /\ h.len \in 5..Len(Hello(h))
          /\ h.len - 5 >= 53
      <4>1. Hello(h) \in Seq(Int) /\ Len(Hello(h)) = h.len
        BY <3>1, Zenon DEF IsHello
      <4>2. h.len \in Nat /\ h.len >= 58
        BY <3>1 DEF Short
      <4> QED
        BY <4>1, <4>2
    <3>3. Len(Slice(Hello(h), 5, h.len)) = h.len - 5
      BY <3>2, SliceIs
    <3> QED
      BY <3>2, <3>3 DEF tlsRecordHeaderLen
  <2>9. Len(G[n]) >= 53
    BY <2>7, <2>8 DEF Payloads
  <2>10. Len(G[n]) \in Nat /\ Len(J[n]) \in Nat
    BY <1>2, <2>3, LenProperties
  <2> QED
    BY <2>6, <2>7, <2>9, <2>10
<1> QED
  BY <1>5, <1>7, <1>8, <1>9, <1>10 DEF s, n

\* A record is apart from the name if its payload is.
LEMMA RecordApart ==
  ASSUME NEW h, Fits(h), NEW minor, IsByte(minor), NEW head, IsHead(head, minor),
         NEW pay \in Seq(Int), pay # <<>>, Len(pay) <= h.len, Apart(pay, h)
  PROVE  Apart(makeRecord(head, pay), h)
<1> DEFINE r == makeRecord(head, pay)
<1>0. IsByte(version(minor)) /\ IsByte(22) /\ IsByte(3)
  BY DEF version, IsByte
<1>1. head \in Seq(Int) /\ Len(head) = 3 /\ \A i \in 1..3 : IsByte(head[i])
  <2>1. head = <<22, 3, version(minor)>> /\ version(minor) \in Int
    BY <1>0 DEF IsHead, IsByte
  <2>2. head \in Seq(Int) /\ Len(head) = 3 /\ head[1] = 22 /\ head[2] = 3 /\ head[3] = version(minor)
    BY <2>1
  <2> QED
    BY <1>0, <2>2
<1>2. /\ Len(r) = 5 + Len(pay) /\ Len(pay) \in Nat
      /\ r[4] = Len(pay) \div 256 /\ r[5] = Len(pay) % 256 /\ \A i \in 1..3 : r[i] = head[i]
      /\ \A i \in 1..Len(pay) : r[5 + i] = pay[i]
  <2>1. Made(r, head, pay)
    BY <1>1, RecordIs
  <2> QED
    BY <2>1 DEF Made
<1> DEFINE l == Len(pay)
<1>3. l \in Nat /\ l <= 256 * 256 + 4
  <2>1. h.len \in Nat /\ h.len <= 256 * 256 + 4 /\ l \in Nat /\ l <= h.len
    BY <1>2, CutInName DEF Short
  <2> HIDE DEF l
  <2> QED
    BY <2>1
<1> HIDE DEF l, r
<1>4. l \div 256 \in Nat /\ l % 256 \in Nat /\ l \div 256 <= 256 /\ l % 256 < 256
  BY <1>3
<1>5. ASSUME NEW place \in 7..(h.len + 1), Lacks(pay, Payload + (place - 5))
      PROVE  Lacks(r, Payload + (place - 5))
  <2>1. ASSUME NEW i \in 1..Len(r), r[i] = Payload + (place - 5)
        PROVE  FALSE
    <3>1. CASE i \in 1..3
      <4>1. IsByte(r[i])
        BY <1>1, <1>2, <3>1
      <4> QED
        BY <2>1, <4>1, CutInName DEF IsByte, Payload, Short
    <3>2. CASE i = 4
      BY <1>2, <1>4, <2>1, <3>2, CutInName DEF l, Payload, Short
    <3>3. CASE i = 5
      BY <1>2, <1>4, <2>1, <3>3, CutInName DEF l, Payload, Short
    <3>4. CASE i > 5
      <4>1. i - 5 \in 1..Len(pay) /\ 5 + (i - 5) = i
        BY <1>2, <3>4
      <4>2. r[i] = pay[i - 5]
        BY <1>2, <4>1
      <4> QED
        BY <1>5, <2>1, <4>1, <4>2 DEF Lacks
    <3> QED
      BY <1>2, <3>1, <3>2, <3>3, <3>4
  <2> QED
    BY <2>1 DEF Lacks
<1>6. CutAt(h) \in 7..(h.len + 1) /\ CutAt(h) + 1 \in 7..(h.len + 1)
  BY CutInName DEF Short
<1> QED
  BY <1>5, <1>6 DEF Apart, r

LEMMA SliceOfSlice ==
  ASSUME NEW data \in Seq(Int), NEW a \in 0..Len(data), NEW b \in a..Len(data),
         NEW x \in 0..(b - a), NEW y \in x..(b - a)
  PROVE  Slice(Slice(data, a, b), x, y) = Slice(data, a + x, a + y)
<1> DEFINE s == Slice(data, a, b)
           t == Slice(s, x, y)
           u == Slice(data, a + x, a + y)
<1>1. s \in Seq(Int) /\ Len(s) = b - a /\ \A i \in 1..(b - a) : s[i] = data[a + i]
  BY SliceIs
<1> HIDE DEF s
<1>2. t \in Seq(Int) /\ Len(t) = y - x /\ \A i \in 1..(y - x) : t[i] = s[x + i]
  <2>1. x \in 0..Len(s) /\ y \in x..Len(s)
    BY <1>1
  <2> QED
    BY <1>1, <2>1, SliceIs
<1>3. u \in Seq(Int) /\ Len(u) = y - x /\ \A i \in 1..(y - x) : u[i] = data[a + x + i]
  <2>1. a + x \in 0..Len(data) /\ a + y \in (a + x)..Len(data) /\ (a + y) - (a + x) = y - x
    OBVIOUS
  <2> DEFINE v == a + x
             w == a + y
  <2> HIDE DEF v, w
  <2>2. v \in 0..Len(data) /\ w \in v..Len(data) /\ w - v = y - x
    BY <2>1 DEF v, w
  <2>3. /\ Slice(data, v, w) \in Seq(Int) /\ Len(Slice(data, v, w)) = w - v
        /\ \A i \in 1..(w - v) : Slice(data, v, w)[i] = data[v + i]
    BY <2>2, SliceIs
  <2> QED
    BY <2>2, <2>3 DEF v, w
<1>4. \A i \in 1..(y - x) : s[x + i] = data[a + x + i]
  <2> TAKE i \in 1..(y - x)
  <2>1. x + i \in 1..(b - a) /\ a + (x + i) = a + x + i
    OBVIOUS
  <2> QED
    BY <1>1, <2>1
<1> HIDE DEF t, u
<1>5. t = u
  <2>1. Len(t) = Len(u) /\ \A i \in 1..Len(t) : t[i] = u[i]
    BY <1>2, <1>3, <1>4
  <2> QED
    BY <1>2, <1>3, <2>1, SeqEqual
<1> QED
  BY <1>5 DEF s, t, u

\* The parts of data, from a place to its end, each without one of two bytes.
Parts(parts, data, from, x, y) ==
  /\ parts \in Seq(Seq(Int)) /\ Len(parts) \in Nat \ {0, 1}
  /\ Joined(parts) = Slice(data, from, Len(data))
  /\ \A i \in 1..Len(parts) :
       /\ parts[i] \in Seq(Int) /\ Len(parts[i]) <= Len(data)
       /\ Lacks(parts[i], x) \/ Lacks(parts[i], y)

NoneEmpty(parts) == \A i \in 1..Len(parts) : parts[i] # <<>>

\* The parts of what may be empty.
LEMMA SplitAny ==
  ASSUME NEW data \in Seq(Int), NEW n \in Nat \ {0}
  PROVE  LET parts == Split(data, n)
         IN /\ parts \in Seq(Seq(Int)) /\ Len(parts) \in Nat \ {0} /\ Joined(parts) = data
            /\ \A i \in 1..Len(parts) :
                 /\ Len(parts[i]) \in 0..Len(data) /\ (data # <<>> => Len(parts[i]) > 0)
                 /\ \A byte \in Int : Lacks(data, byte) => Lacks(parts[i], byte)
<1> DEFINE parts == Split(data, n)
<1>1. CASE data = <<>>
  <2>1. Len(data) = 0 /\ 0 < n
    BY <1>1
  <2>2. parts = <<data>>
    BY <2>1 DEF Split
  <2>3. Joined(<<data>>) = data
    BY JoinedOne
  <2> HIDE DEF parts
  <2>4. parts \in Seq(Seq(Int)) /\ Len(parts) = 1 /\ parts[1] = data
    BY <2>2
  <2> QED
    BY <1>1, <2>1, <2>2, <2>3, <2>4 DEF parts
<1>2. CASE data # <<>>
  <2>1. /\ parts \in Seq(Seq(Int)) /\ Len(parts) \in Nat \ {0} /\ Joined(parts) = data
        /\ \A i \in 1..Len(parts) :
             /\ Len(parts[i]) \in 1..Len(data)
             /\ \A byte \in Int : Lacks(data, byte) => Lacks(parts[i], byte)
    BY <1>2, SplitParts, Zenon
  <2> HIDE DEF parts
  <2>2. \A i \in 1..Len(parts) : Len(parts[i]) \in 0..Len(data) /\ Len(parts[i]) > 0
    BY <2>1
  <2> QED
    BY <2>1, <2>2 DEF parts
<1> QED
  BY <1>1, <1>2

\* What is cut between two bytes and then cut further.
LEMMA TwoSplits ==
  ASSUME NEW data \in Seq(Int), NEW from \in Nat, NEW at \in Nat, from < at, at <= Len(data),
         NEW m \in Nat \ {0}, NEW n \in Nat \ {0}, NEW x \in Int, NEW y \in Int,
         Lacks(Slice(data, from, at), y), Lacks(Slice(data, at, Len(data)), x)
  PROVE  LET parts == Split(Slice(data, from, at), m) \o Split(Slice(data, at, Len(data)), n)
         IN Parts(parts, data, from, x, y) /\ (at < Len(data) => NoneEmpty(parts))
<1> DEFINE L == Len(data)
           left == Slice(data, from, at)
           right == Slice(data, at, L)
           u == Split(left, m)
           v == Split(right, n)
           parts == u \o v
<1>1. L \in Nat /\ from \in 0..L /\ at \in from..L /\ at \in 0..L /\ L \in at..L
  OBVIOUS
<1>2. left \in Seq(Int) /\ right \in Seq(Int) /\ Len(left) = at - from /\ Len(right) = L - at
  BY <1>1, SliceIs
<1>3. left \o right = Slice(data, from, L)
  BY <1>1, SlicesMeet
<1> HIDE DEF left, right
<1>4. /\ left # <<>> /\ (at < L => right # <<>>)
      /\ Len(left) \in 0..L /\ Len(right) \in 0..L
  <2>1. Len(left) > 0 /\ (at < L => Len(right) > 0) /\ Len(left) \in 0..L /\ Len(right) \in 0..L
    <3>1. L \in Nat /\ from \in Nat /\ at \in Nat /\ from < at /\ at <= L
      BY <1>1
    <3> HIDE DEF L
    <3>2. at - from > 0 /\ (at < L => L - at > 0) /\ at - from \in 0..L /\ L - at \in 0..L
      BY <3>1
    <3> QED
      BY <1>2, <3>2
  <2> QED
    BY <2>1, EmptySeq
<1>5. /\ u \in Seq(Seq(Int)) /\ Len(u) \in Nat \ {0} /\ Joined(u) = left
      /\ \A i \in 1..Len(u) : /\ Len(u[i]) \in 1..Len(left)
                              /\ \A byte \in Int : Lacks(left, byte) => Lacks(u[i], byte)
  BY <1>2, <1>4, SplitParts, Zenon
<1>6. /\ v \in Seq(Seq(Int)) /\ Len(v) \in Nat \ {0} /\ Joined(v) = right
      /\ \A i \in 1..Len(v) : /\ Len(v[i]) \in 0..Len(right) /\ (right # <<>> => Len(v[i]) > 0)
                              /\ \A byte \in Int : Lacks(right, byte) => Lacks(v[i], byte)
  BY <1>2, SplitAny, Zenon
<1> HIDE DEF u, v
<1>7. /\ parts \in Seq(Seq(Int)) /\ Len(parts) = Len(u) + Len(v)
      /\ \A i \in 1..(Len(u) + Len(v)) : parts[i] = IF i <= Len(u) THEN u[i] ELSE v[i - Len(u)]
  BY <1>5, <1>6, ConcatProperties
<1>8. Joined(parts) = left \o right
  BY <1>5, <1>6, JoinedConcat
<1> HIDE DEF parts
<1>a. Len(u) \in Nat \ {0} /\ Len(v) \in Nat \ {0} /\ Len(parts) = Len(u) + Len(v)
  BY <1>5, <1>6, <1>7
<1>9. Lacks(left, y) /\ Lacks(right, x)
  BY DEF left, right, L
<1> HIDE DEF L
<1>10. ASSUME NEW i \in 1..Len(parts)
       PROVE  /\ parts[i] \in Seq(Int) /\ Len(parts[i]) <= L /\ (at < L => parts[i] # <<>>)
              /\ Lacks(parts[i], x) \/ Lacks(parts[i], y)
  <2>1. CASE i <= Len(u)
    <3>1. i \in 1..Len(u) /\ parts[i] = u[i]
      BY <1>5, <1>6, <1>7, <2>1
    <3>2. parts[i] \in Seq(Int) /\ Len(parts[i]) \in 1..Len(left) /\ Lacks(parts[i], y)
      BY <1>5, <1>9, <3>1
    <3> QED
      BY <1>4, <1>1, <3>2, EmptySeq, SMTT(30)
  <2>2. CASE ~(i <= Len(u))
    <3>1. i - Len(u) \in 1..Len(v) /\ parts[i] = v[i - Len(u)]
      <4>1. i - Len(u) \in 1..Len(v) /\ i \in 1..(Len(u) + Len(v))
        BY <1>a, <2>2
      <4> QED
        BY <1>7, <2>2, <4>1
    <3> DEFINE k == i - Len(u)
    <3> HIDE DEF k
    <3>2. /\ parts[i] \in Seq(Int) /\ Len(parts[i]) \in 0..Len(right) /\ Lacks(parts[i], x)
          /\ right # <<>> => Len(parts[i]) > 0
      <4>1. k \in 1..Len(v) /\ parts[i] = v[k]
        BY <3>1 DEF k
      <4> QED
        BY <1>6, <1>9, <4>1, SMTT(30)
    <3> QED
      BY <1>4, <1>1, <3>2, EmptySeq, SMTT(30)
  <2> QED
    BY <2>1, <2>2
<1>11. Len(parts) \in Nat \ {0, 1}
  BY <1>a
<1>12. Parts(parts, data, from, x, y) /\ (at < L => NoneEmpty(parts))
  BY <1>3, <1>7, <1>8, <1>10, <1>11, Zenon DEF Parts, NoneEmpty, L
<1> QED
  BY <1>12 DEF parts, u, v, left, right, L

\* The two bytes between which the name is cut.
atCut(h) == Payload + (CutAt(h) - 5)
pastCut(h) == Payload + (CutAt(h) + 1 - 5)

\* The record cut between them, from its beginning, behind its header or behind what
\* oob_ex sends first.
LEMMA RecordParts ==
  ASSUME NEW h, Fits(h), NEW minor, NEW hello, IsHello(hello, h, minor),
         NEW from \in Nat, from <= 35, NEW m \in Nat \ {0}, NEW n \in Nat \ {0}
  PROVE  LET parts == Split(Slice(hello, from, CutAt(h)), m)
                        \o Split(Slice(hello, CutAt(h), Len(hello)), n)
         IN /\ Parts(parts, hello, from, atCut(h), pastCut(h))
            /\ Inside(h) => NoneEmpty(parts)
<1> DEFINE mid == CutAt(h)
           L == Len(hello)
<1>1. mid \in 58..L /\ (Inside(h) => mid < L) /\ L \in Nat /\ hello \in Seq(Int)
  BY CutInName DEF IsHello, Short
<1> HIDE DEF mid, L
<1>2. /\ from \in 0..L /\ mid \in from..L /\ mid \in 0..L /\ L \in mid..L /\ from < mid
      /\ mid \in 6..(L + 1) /\ mid + 1 \in 6..(L + 1) /\ mid \notin (mid + 1)..L
      /\ mid + 1 \notin (from + 1)..mid /\ mid <= L /\ mid \in Nat
  BY <1>1
<1>3. Lacks(Slice(hello, mid, L), Payload + (mid - 5))
  BY <1>2, SliceLacks DEF L
<1>4. Lacks(Slice(hello, from, mid), Payload + (mid + 1 - 5))
  BY <1>2, SliceLacks DEF L
<1>5. atCut(h) \in Int /\ pastCut(h) \in Int
  BY <1>2 DEF atCut, pastCut, mid, Payload
<1> QED
  BY <1>1, <1>2, <1>3, <1>4, <1>5, TwoSplits, Zenon DEF L, mid, atCut, pastCut

\* What oob_ex sends first, or nothing.
first(data, oobex) == IF oobex THEN exPieces(data) ELSE <<>>
\* And what it leaves.
rest(data, oobex) == IF oobex THEN exRest(data) ELSE data

\* The segments of what oob_ex leaves, behind what it sends first, are the data.
LEMMA Sent ==
  ASSUME NEW data \in Seq(Int), Len(data) >= 35, NEW oob \in BOOLEAN, NEW oobex \in BOOLEAN,
         ~(oob /\ oobex), NEW segs \in Seq(Seq(Int)), Joined(segs) = rest(data, oobex), NEW p,
         p = first(data, oobex) \o Writes(segs, oob)
  PROVE  Received(p, Len(p), FALSE) = data
<1> DEFINE w == Writes(segs, oob)
<1>1. Carries(w, segs) /\ (~oob => \A i \in 1..Len(w) : ~w[i].urgent)
  BY WritesCarry
<1> HIDE DEF w
<1>2. CASE ~oobex
  <2>1. p = <<>> \o w
    BY <1>2 DEF first, w
  <2>2. w \in Seq(AnyPiece)
    BY <1>1 DEF Carries
  <2>3. p = w
    BY <2>1, <2>2, ConcatEmptySeq
  <2>4. Joined(segs) = data
    BY <1>2 DEF rest
  <2> QED
    BY <1>1, <2>3, <2>4, ReceivedIs
<1>3. CASE oobex
  <2>1. p = exPieces(data) \o w /\ \A i \in 1..Len(w) : ~w[i].urgent
    BY <1>1, <1>3 DEF first, w
  <2>2. Carries(p, exParts(data) \o segs)
    BY <1>1, <2>1, ExCarries
  <2>3. /\ exParts(data) \in Seq(Seq(Int)) /\ Joined(exParts(data)) \o exRest(data) = data
    BY ExJoined
  <2>4. Joined(exParts(data) \o segs) = Joined(exParts(data)) \o Joined(segs)
    BY <2>3, JoinedConcat
  <2>5. Joined(segs) = exRest(data)
    BY <1>3 DEF rest
  <2>6. Joined(exParts(data) \o segs) = data
    BY <2>3, <2>4, <2>5
  <2> QED
    BY <2>2, <2>6, ReceivedIs
<1> QED
  BY <1>2, <1>3

\* Where the name is cut in what oob_ex leaves.
LEMMA CutOfRest ==
  ASSUME NEW h, Fits(h), NEW minor, NEW hello, IsHello(hello, h, minor), NEW oobex \in BOOLEAN
  PROVE  LET data == rest(hello, oobex)
             at == IF oobex THEN CutAt(h) - 35 ELSE CutAt(h)
             from == IF oobex THEN 35 ELSE 0
         IN /\ Slice(data, 0, at) = Slice(hello, from, CutAt(h))
            /\ Slice(data, at, Len(data)) = Slice(hello, CutAt(h), Len(hello))
            /\ Slice(hello, from, Len(hello)) = data
            /\ data \in Seq(Int)
<1> DEFINE mid == CutAt(h)
           L == Len(hello)
<1>1. mid \in 58..L /\ L \in Nat /\ hello \in Seq(Int)
  BY CutInName DEF IsHello, Short
<1> HIDE DEF mid, L
<1>2. CASE ~oobex
  <2>1. Slice(hello, 0, L) = hello
    BY <1>1, SliceAll DEF L
  <2> QED
    BY <1>1, <1>2, <2>1 DEF rest, L
<1>3. CASE oobex
  <2> DEFINE data == exRest(hello)
  <2>1. /\ 35 \in 0..L /\ L \in 35..L /\ 0 \in 0..(L - 35) /\ mid - 35 \in 0..(L - 35)
        /\ L - 35 \in (mid - 35)..(L - 35)
        /\ 35 + 0 = 35 /\ 35 + (mid - 35) = mid /\ 35 + (L - 35) = L
    BY <1>1
  <2>2. data = Slice(hello, 35, L)
    BY DEF exRest, L
  <2> HIDE DEF data
  <2>3. data \in Seq(Int) /\ Len(data) = L - 35
    BY <1>1, <2>1, <2>2, SliceIs DEF L
  <2>4. Slice(data, 0, mid - 35) = Slice(hello, 35, mid)
    <3>1. Slice(Slice(hello, 35, L), 0, mid - 35) = Slice(hello, 35 + 0, 35 + (mid - 35))
      BY <1>1, <2>1, SliceOfSlice DEF L
    <3> QED
      BY <2>1, <2>2, <3>1
  <2>5. Slice(data, mid - 35, L - 35) = Slice(hello, mid, L)
    <3>1. Slice(Slice(hello, 35, L), mid - 35, L - 35) = Slice(hello, 35 + (mid - 35), 35 + (L - 35))
      BY <1>1, <2>1, SliceOfSlice DEF L
    <3> QED
      BY <2>1, <2>2, <3>1
  <2> QED
    BY <1>3, <2>2, <2>3, <2>4, <2>5 DEF rest, data, mid, L
<1> QED
  BY <1>2, <1>3 DEF mid, L

LEMMA AppendLacks ==
  ASSUME NEW data \in Seq(Int), NEW byte \in Int, NEW other \in Int, other # byte,
         Lacks(data, byte)
  PROVE  Append(data, other) \in Seq(Int) /\ Lacks(Append(data, other), byte)
<1> DEFINE t == Append(data, other)
<1>1. /\ t \in Seq(Int) /\ Len(t) = Len(data) + 1 /\ t[Len(data) + 1] = other
      /\ \A i \in 1..Len(data) : t[i] = data[i]
      /\ Len(data) \in Nat
  BY AppendProperties
<1> HIDE DEF t
<1>2. \A i \in 1..Len(t) : i \in 1..Len(data) \/ i = Len(data) + 1
  BY <1>1
<1>3. Lacks(t, byte)
  BY <1>1, <1>2, Zenon DEF Lacks
<1> QED
  BY <1>1, <1>3 DEF t

\* The beginning of the record has none of the bytes at which the name is cut.
LEMMA FrontApart ==
  ASSUME NEW h, Fits(h), NEW minor, NEW hello, IsHello(hello, h, minor), NEW i \in 1..2
  PROVE  /\ exPieces(hello)[i].data \in Seq(Int) /\ Lacks(exPieces(hello)[i].data, atCut(h))
         /\ exPieces(hello) \in Seq(AnyPiece) /\ Len(exPieces(hello)) = 2
<1> DEFINE mid == CutAt(h)
           L == Len(hello)
           x == Slice(hello, 0, 15)
           y == Slice(hello, 16, 35)
           byte == Payload + (mid - 5)
<1>1. mid \in 58..L /\ L \in Nat /\ L = h.len /\ hello \in Seq(Int)
  BY CutInName DEF IsHello, Short
<1> HIDE DEF mid, L
<1>2. /\ 0 \in 0..L /\ 15 \in 0..L /\ 16 \in 0..L /\ 35 \in 16..L
      /\ mid \in 6..L /\ mid \notin (0 + 1)..15 /\ mid \notin (16 + 1)..35
      /\ 16 \in 6..L /\ 16 \in 1..L
  BY <1>1
<1>3. x \in Seq(Int) /\ y \in Seq(Int) /\ hello[16] \in Int
  <2>1. x \in Seq(Int)
    BY <1>1, <1>2, SliceIs DEF L
  <2>2. y \in Seq(Int)
    BY <1>1, <1>2, SliceIs DEF L
  <2>3. hello[16] \in Int
    BY <1>1, <1>2 DEF L
  <2> QED
    BY <2>1, <2>2, <2>3
<1>4. Lacks(x, byte) /\ Lacks(y, byte)
  BY <1>2, SliceLacks DEF L
<1>5. byte \in Int /\ byte # 0 /\ hello[16] # byte
  <2>1. hello[16] = Payload + (16 - 5)
    BY <1>1, <1>2 DEF IsHello
  <2> QED
    BY <1>1, <2>1 DEF Payload
<1> HIDE DEF x, y, byte
<1>6. /\ Append(x, hello[16]) \in Seq(Int) /\ Lacks(Append(x, hello[16]), byte)
      /\ Append(y, 0) \in Seq(Int) /\ Lacks(Append(y, 0), byte)
  BY <1>3, <1>4, <1>5, AppendLacks
<1> DEFINE p1 == OOB(x, hello[16])
           p2 == OOB(y, 0)
<1>7. p1 \in AnyPiece /\ p2 \in AnyPiece /\ Lacks(p1.data, byte) /\ Lacks(p2.data, byte)
  BY <1>6 DEF OOB, AnyPiece
<1> HIDE DEF p1, p2
<1>8. /\ <<p1, p2>> \in Seq(AnyPiece) /\ Len(<<p1, p2>>) = 2
      /\ <<p1, p2>>[1] = p1 /\ <<p1, p2>>[2] = p2
  BY <1>7
<1>9. exPieces(hello) = <<p1, p2>>
  BY DEF exPieces, x, y, p1, p2
<1>10. byte = atCut(h)
  BY DEF byte, mid, atCut
<1>11. i = 1 \/ i = 2
  OBVIOUS
<1>12. <<p1, p2>>[i].data \in Seq(Int) /\ Lacks(<<p1, p2>>[i].data, byte)
  <2>1. p1.data \in Seq(Int) /\ p2.data \in Seq(Int)
    BY <1>7 DEF AnyPiece
  <2> QED
    BY <1>7, <1>8, <1>11, <2>1
<1> QED
  BY <1>8, <1>9, <1>10, <1>12

\* The payload does not depend on the version.
LEMMA SamePayload ==
  ASSUME NEW h, Fits(h), NEW minor, NEW hello, IsHello(hello, h, minor)
  PROVE  LET pay == Slice(hello, 5, Len(hello))
         IN /\ pay \in Seq(Int) /\ Len(pay) = h.len - 5 /\ pay # <<>>
            /\ pay = Slice(Hello(h), tlsRecordHeaderLen, h.len)
            /\ \A i \in 1..(h.len - 5) : pay[i] = hello[5 + i]
<1> DEFINE L == h.len
           t == Hello(h)
           pay == Slice(hello, 5, L)
           own == Slice(t, 5, L)
<1>1. /\ L \in Nat /\ L >= 58 /\ hello \in Seq(Int) /\ t \in Seq(Int)
      /\ Len(hello) = L /\ Len(t) = L
      /\ \A i \in 6..L : hello[i] = t[i]
  <2>1. IsHello(t, h, 0) /\ Short(L)
    BY PlainHello, CutInName
  <2> HIDE DEF t, L
  <2> QED
    BY <2>1, Zenon DEF IsHello, Short, L
<1> HIDE DEF L, t
<1>a. L \in Nat /\ L >= 58
  BY <1>1
<1>2. 5 \in 0..L /\ L \in 5..L
  BY <1>a
<1>3. /\ pay \in Seq(Int) /\ Len(pay) = L - 5 /\ \A i \in 1..(L - 5) : pay[i] = hello[5 + i]
      /\ own \in Seq(Int) /\ Len(own) = L - 5 /\ \A i \in 1..(L - 5) : own[i] = t[5 + i]
  <2>1. hello \in Seq(Int) /\ t \in Seq(Int) /\ Len(hello) = L /\ Len(t) = L
    BY <1>1
  <2>2. pay \in Seq(Int) /\ Len(pay) = L - 5 /\ \A i \in 1..(L - 5) : pay[i] = hello[5 + i]
    <3>1. 5 \in 0..Len(hello) /\ L \in 5..Len(hello)
      BY <1>2, <2>1
    <3> QED
      BY <2>1, <3>1, SliceIs
  <2>3. own \in Seq(Int) /\ Len(own) = L - 5 /\ \A i \in 1..(L - 5) : own[i] = t[5 + i]
    <3>1. 5 \in 0..Len(t) /\ L \in 5..Len(t)
      BY <1>2, <2>1
    <3> QED
      BY <2>1, <3>1, SliceIs
  <2> QED
    BY <2>2, <2>3
<1>4. \A i \in 1..(L - 5) : 5 + i \in 6..L
  BY <1>a
<1> HIDE DEF pay, own
<1>5. pay = own
  <2>1. Len(pay) = Len(own) /\ \A i \in 1..Len(pay) : pay[i] = own[i]
    BY <1>1, <1>3, <1>4
  <2> QED
    BY <1>3, <2>1, SeqEqual
<1>6. pay # <<>>
  <2>1. Len(pay) # 0
    BY <1>1, <1>3
  <2> QED
    BY <1>3, <2>1, EmptySeq
<1> QED
  BY <1>1, <1>3, <1>5, <1>6 DEF pay, own, L, t, tlsRecordHeaderLen

\* A record that is not cut into records is one that is read as it was.
LEMMA OwnRecord ==
  ASSUME NEW h, Fits(h), NEW minor, IsByte(minor), NEW hello, IsHello(hello, h, minor)
  PROVE  WellFragmented(hello, h, version(minor))
<1> DEFINE head == <<22, 3, version(minor)>>
           pay == Slice(hello, 5, Len(hello))
           pays == <<pay>>
           r == makeRecord(head, pay)
           chunks == [i \in 1..Len(pays) |-> makeRecord(head, pays[i])]
<1>1. /\ pay \in Seq(Int) /\ Len(pay) = h.len - 5 /\ pay # <<>>
      /\ pay = Slice(Hello(h), tlsRecordHeaderLen, h.len)
      /\ \A i \in 1..(h.len - 5) : pay[i] = hello[5 + i]
  BY SamePayload
<1>2. /\ IsHead(head, minor) /\ head \in Seq(Int) /\ Len(head) = 3
      /\ head[1] = 22 /\ head[2] = 3 /\ head[3] = version(minor)
  <2>1. version(minor) \in Int
    BY DEF version, IsByte
  <2> QED
    BY <2>1 DEF IsHead
<1>3. hello \in Seq(Int) /\ Len(hello) = h.len /\ h.len \in Nat /\ h.len >= 58
  BY CutInName DEF IsHello, Short
<1> HIDE DEF head, pay
<1>4. Made(r, head, pay)
  BY <1>1, <1>2, RecordIs
<1>5. r = hello
  <2>1. /\ r \in Seq(Int) /\ Len(r) = 5 + (h.len - 5) /\ r[4] = (h.len - 5) \div 256
        /\ r[5] = (h.len - 5) % 256 /\ r[1] = 22 /\ r[2] = 3 /\ r[3] = version(minor)
        /\ \A i \in 1..(h.len - 5) : r[5 + i] = pay[i]
    <3>1. 1 \in 1..3 /\ 2 \in 1..3 /\ 3 \in 1..3
      OBVIOUS
    <3> HIDE DEF r
    <3> QED
      BY <1>1, <1>2, <1>4, <3>1, SMTT(30) DEF Made
  <2> HIDE DEF r
  <2>2. r[1] = hello[1] /\ r[2] = hello[2] /\ r[3] = hello[3] /\ r[4] = hello[4] /\ r[5] = hello[5]
    BY <2>1 DEF IsHello
  <2>3. \A i \in 1..h.len : r[i] = hello[i]
    <3> TAKE i \in 1..h.len
    <3>1. CASE i \in 1..5
      <4>1. i = 1 \/ i = 2 \/ i = 3 \/ i = 4 \/ i = 5
        BY <3>1
      <4> QED
        BY <2>2, <4>1
    <3>2. CASE i > 5
      <4>1. i - 5 \in 1..(h.len - 5) /\ 5 + (i - 5) = i
        BY <1>3, <3>2
      <4> DEFINE k == i - 5
      <4> HIDE DEF k
      <4>2. k \in 1..(h.len - 5) /\ 5 + k = i
        BY <4>1 DEF k
      <4>3. r[5 + k] = hello[5 + k]
        BY <1>1, <2>1, <4>2
      <4> QED
        BY <4>2, <4>3
    <3> QED
      BY <3>1, <3>2
  <2>4. Len(r) = h.len
    BY <1>3, <2>1, SMTT(30)
  <2> QED
    BY <1>3, <2>1, <2>3, <2>4, SeqEqual
<1> HIDE DEF r
<1>6. pays \in Seq(Seq(Int)) /\ Len(pays) = 1 /\ pays[1] = pay
  BY <1>1
<1>7. Joined(pays) = pay
  BY <1>1, JoinedOne
<1> HIDE DEF pays
<1>8. Payloads(pays, h)
  <2>1. \A i \in 1..Len(pays) : pays[i] # <<>> /\ Len(pays[i]) <= h.len
    BY <1>1, <1>3, <1>6
  <2> QED
    BY <1>1, <1>6, <1>7, <2>1 DEF Payloads
<1>9. /\ chunks \in Seq(Seq(Int)) /\ Len(chunks) = Len(pays)
      /\ WellFragmented(Joined(chunks), h, version(minor))
  BY <1>2, <1>8, RecordsFragment
<1>10. chunks[1] = hello
  BY <1>5, <1>6 DEF r
<1> HIDE DEF chunks
<1>11. chunks = <<hello>>
  <2>1. <<hello>> \in Seq(Seq(Int)) /\ Len(<<hello>>) = 1 /\ <<hello>>[1] = hello
    BY <1>3
  <2> DEFINE t == <<hello>>
  <2> HIDE DEF t
  <2>2. Len(chunks) = Len(t) /\ \A i \in 1..Len(chunks) : chunks[i] = t[i]
    BY <1>6, <1>9, <1>10, <2>1 DEF t
  <2>3. chunks = t
    BY <1>9, <2>1, <2>2, SeqEqual DEF t
  <2> QED
    BY <2>3 DEF t
<1>12. Joined(chunks) = hello
  BY <1>3, <1>11, JoinedOne
<1> QED
  BY <1>9, <1>12

\* A piece is apart from the name if what it carries is.
LEMMA WritesApart ==
  ASSUME NEW h, Fits(h), NEW segs \in Seq(Seq(Int)), NEW oob \in BOOLEAN,
         \A i \in 1..Len(segs) : Lacks(segs[i], atCut(h)) \/ Lacks(segs[i], pastCut(h))
  PROVE  \A i \in 1..Len(segs) : /\ Writes(segs, oob)[i].data \in Seq(Int)
                                 /\ Apart(Writes(segs, oob)[i].data, h)
<1> DEFINE w == Writes(segs, oob)
<1>1. \A i \in 1..Len(segs) : w[i].data \in {segs[i], Append(segs[i], 0)}
  BY WritesCarry
<1> HIDE DEF w
<1>2. atCut(h) \in Int /\ atCut(h) # 0 /\ pastCut(h) \in Int /\ pastCut(h) # 0 /\ 0 \in Int
  <2> DEFINE mid == CutAt(h)
  <2>1. mid \in Int /\ mid >= 58
    BY CutInName DEF Short
  <2> HIDE DEF mid
  <2>2. Payload + (mid - 5) # 0 /\ Payload + (mid + 1 - 5) # 0
        /\ Payload + (mid - 5) \in Int /\ Payload + (mid + 1 - 5) \in Int
    BY <2>1 DEF Payload
  <2> QED
    BY <2>2 DEF atCut, pastCut, mid
<1>3. ASSUME NEW i \in 1..Len(segs)
      PROVE  w[i].data \in Seq(Int) /\ Apart(w[i].data, h)
  <2>1. segs[i] \in Seq(Int) /\ (Lacks(segs[i], atCut(h)) \/ Lacks(segs[i], pastCut(h)))
    OBVIOUS
  <2> DEFINE t == segs[i]
  <2> HIDE DEF t
  <2>2. t \in Seq(Int) /\ (Lacks(t, atCut(h)) \/ Lacks(t, pastCut(h)))
    BY <2>1 DEF t
  <2>3. Append(t, 0) \in Seq(Int) /\ (Lacks(Append(t, 0), atCut(h)) \/ Lacks(Append(t, 0), pastCut(h)))
    BY <1>2, <2>2, AppendLacks
  <2>4. w[i].data = t \/ w[i].data = Append(t, 0)
    BY <1>1 DEF t
  <2> QED
    BY <2>2, <2>3, <2>4, Zenon DEF Apart, atCut, pastCut
<1> QED
  BY <1>3 DEF w

LEMMA Halves ==
  ASSUME NEW n \in Nat, n >= 2
  PROVE  n \div 2 \in Nat \ {0} /\ n - (n \div 2) \in Nat \ {0}
OBVIOUS

LEMMA PiecesConcat ==
  ASSUME NEW x \in Seq(AnyPiece), NEW y \in Seq(AnyPiece)
  PROVE  /\ x \o y \in Seq(AnyPiece) /\ Len(x \o y) = Len(x) + Len(y)
         /\ \A i \in 1..(Len(x) + Len(y)) :
              (x \o y)[i] = IF i <= Len(x) THEN x[i] ELSE y[i - Len(x)]
BY ConcatProperties

\* The record as one, in segments.
LEMMA OneIntact ==
  ASSUME NEW h, Fits(h), NEW minor, IsByte(minor), NEW hello, IsHello(hello, h, minor),
         NEW o, o.segments \in Nat \ {0}, o.oob \in BOOLEAN, o.oobex \in BOOLEAN,
         ~(o.oob /\ o.oobex), NEW p, p = OneRecord(hello, CutAt(h), o)
  PROVE  /\ Received(p, Len(p), FALSE) = hello
         /\ o.segments > 1 => \A i \in 1..Len(p) : p[i].data \in Seq(Int) /\ Apart(p[i].data, h)
<1> DEFINE mid == CutAt(h)
           data == rest(hello, o.oobex)
           at == IF o.oobex THEN mid - 35 ELSE mid
           from == IF o.oobex THEN 35 ELSE 0
           left == o.segments \div 2
           cutSegs == Split(Slice(data, 0, at), left)
                        \o Split(Slice(data, at, Len(data)), o.segments - left)
           begin == first(hello, o.oobex)
<1>1. hello \in Seq(Int) /\ Len(hello) >= 35
  BY CutInName DEF IsHello, Short
<1>2. /\ Slice(data, 0, at) = Slice(hello, from, mid)
      /\ Slice(data, at, Len(data)) = Slice(hello, mid, Len(hello))
      /\ Slice(hello, from, Len(hello)) = data
      /\ data \in Seq(Int)
  BY CutOfRest
<1>3. p = begin \o IF o.segments = 1 THEN <<Plain(data)>>
                   ELSE IF o.segments < 0 THEN <<>> ELSE Writes(cutSegs, o.oob)
  BY Zenon DEF OneRecord, first, rest
<1>4. CASE o.segments = 1
  <2> DEFINE segs == <<data>>
  <2>1. p = begin \o Writes(segs, FALSE)
    <3>1. <<Plain(data)>> = Writes(segs, FALSE)
      BY <1>2, PlainWrite
    <3> QED
      BY <1>3, <1>4, <3>1
  <2>2. segs \in Seq(Seq(Int)) /\ Joined(segs) = data
    BY <1>2, JoinedOne
  <2> HIDE DEF segs, data, begin
  <2>3. Received(p, Len(p), FALSE) = hello
    <3>1. FALSE \in BOOLEAN /\ ~(FALSE /\ o.oobex)
      OBVIOUS
    <3>2. Joined(segs) = rest(hello, o.oobex) /\ p = first(hello, o.oobex) \o Writes(segs, FALSE)
      BY <2>1, <2>2 DEF data, begin
    <3> QED
      BY <1>1, <2>2, <3>1, <3>2, Sent
  <2>4. ~(o.segments > 1)
    BY <1>4
  <2> QED
    BY <2>3, <2>4, Zenon
<1>5. CASE o.segments # 1
  <2>0. left \in Nat \ {0} /\ o.segments - left \in Nat \ {0} /\ ~(o.segments < 0)
    <3> DEFINE n == o.segments
    <3>1. n \in Nat /\ n >= 2 /\ ~(n < 0)
      BY <1>5
    <3> HIDE DEF n
    <3>2. n \div 2 \in Nat \ {0} /\ n - (n \div 2) \in Nat \ {0}
      BY <3>1, Halves
    <3> QED
      BY <3>1, <3>2 DEF n
  <2>1. p = begin \o Writes(cutSegs, o.oob)
    BY <1>3, <1>5, <2>0, Zenon
  <2>2. Parts(cutSegs, hello, from, atCut(h), pastCut(h))
    <3>1. from \in Nat /\ from <= 35
      OBVIOUS
    <3> HIDE DEF left, from, data, at
    <3>2. Parts(Split(Slice(hello, from, CutAt(h)), left)
                  \o Split(Slice(hello, CutAt(h), Len(hello)), o.segments - left),
                hello, from, atCut(h), pastCut(h))
      BY <2>0, <3>1, RecordParts
    <3> QED
      BY <1>2, <3>2, Zenon
  <2> HIDE DEF cutSegs
  <2>3. cutSegs \in Seq(Seq(Int)) /\ Joined(cutSegs) = data
        /\ \A i \in 1..Len(cutSegs) : Lacks(cutSegs[i], atCut(h)) \/ Lacks(cutSegs[i], pastCut(h))
    BY <1>2, <2>2, Zenon DEF Parts
  <2> HIDE DEF data, at, left, from
  <2>4. Received(p, Len(p), FALSE) = hello
    <3>1. Joined(cutSegs) = rest(hello, o.oobex) /\ p = first(hello, o.oobex) \o Writes(cutSegs, o.oob)
      BY <2>1, <2>3 DEF data
    <3> HIDE DEF begin
    <3> QED
      BY <1>1, <2>3, <3>1, Sent
  <2> DEFINE w == Writes(cutSegs, o.oob)
  <2>5. /\ w \in Seq(AnyPiece) /\ Len(w) = Len(cutSegs)
        /\ \A i \in 1..Len(w) : w[i].data \in Seq(Int) /\ Apart(w[i].data, h)
    <3>1. Carries(w, cutSegs) /\ Len(w) = Len(cutSegs)
      BY <2>3, WritesCarry
    <3>2. \A i \in 1..Len(cutSegs) : w[i].data \in Seq(Int) /\ Apart(w[i].data, h)
      BY <2>3, WritesApart
    <3> HIDE DEF w
    <3> QED
      BY <3>1, <3>2 DEF Carries
  <2> HIDE DEF w
  <2>6. ASSUME NEW i \in 1..Len(p)
        PROVE  p[i].data \in Seq(Int) /\ Apart(p[i].data, h)
    <3>1. begin \in Seq(AnyPiece) /\ \A k \in 1..Len(begin) : begin[k].data \in Seq(Int) /\ Apart(begin[k].data, h)
      <4>1. CASE o.oobex
        <5>1. begin = exPieces(hello)
          BY <4>1 DEF first
        <5> DEFINE q == exPieces(hello)
        <5>2. \A k \in 1..2 : /\ q[k].data \in Seq(Int) /\ Lacks(q[k].data, atCut(h))
                              /\ q \in Seq(AnyPiece) /\ Len(q) = 2
          BY FrontApart
        <5> HIDE DEF q
        <5>3. 1 \in 1..2
          OBVIOUS
        <5> QED
          BY <5>1, <5>2, <5>3, Zenon DEF q, Apart, atCut
      <4>2. CASE ~o.oobex
        BY <4>2, EmptySeq DEF first
      <4> QED
        BY <4>1, <4>2
    <3> HIDE DEF begin
    <3>2. p = begin \o w
      BY <2>1 DEF w
    <3>3. /\ Len(p) = Len(begin) + Len(w)
          /\ \A k \in 1..(Len(begin) + Len(w)) : p[k] = IF k <= Len(begin) THEN begin[k] ELSE w[k - Len(begin)]
      <4>1. w \in Seq(AnyPiece) /\ begin \in Seq(AnyPiece)
        BY <2>5, <3>1
      <4>2. /\ Len(begin \o w) = Len(begin) + Len(w)
            /\ \A k \in 1..(Len(begin) + Len(w)) :
                 (begin \o w)[k] = IF k <= Len(begin) THEN begin[k] ELSE w[k - Len(begin)]
        BY <4>1, PiecesConcat
      <4> QED
        BY <3>2, <4>2, Zenon
    <3>4. CASE i <= Len(begin)
      <4>1. i \in 1..Len(begin)
        BY <3>1, <3>4
      <4>2. p[i] = begin[i]
        BY <3>3, <3>4
      <4> QED
        BY <3>1, <4>1, <4>2
    <3>5. CASE ~(i <= Len(begin))
      <4>1. i - Len(begin) \in 1..Len(w)
        <5>1. Len(begin) \in Nat /\ Len(w) \in Nat /\ i \in 1..(Len(begin) + Len(w))
          BY <2>5, <3>1, <3>3
        <5> QED
          BY <3>5, <5>1
      <4>2. p[i] = w[i - Len(begin)]
        BY <3>3, <3>5
      <4> QED
        BY <2>5, <4>1, <4>2
    <3> QED
      BY <3>4, <3>5
  <2> QED
    BY <2>4, <2>6
<1> QED
  BY <1>4, <1>5

\* The first three bytes are the head of every record.
LEMMA HeadIs ==
  ASSUME NEW h, Fits(h), NEW minor, IsByte(minor), NEW hello, IsHello(hello, h, minor)
  PROVE  IsHead(Slice(hello, 0, 3), minor)
<1> DEFINE s == Slice(hello, 0, 3)
           t == <<22, 3, version(minor)>>
<1>1. hello \in Seq(Int) /\ 0 \in 0..Len(hello) /\ 3 \in 0..Len(hello)
  BY CutInName DEF IsHello, Short
<1>2. s \in Seq(Int) /\ Len(s) = 3 - 0 /\ \A i \in 1..(3 - 0) : s[i] = hello[0 + i]
  BY <1>1, SliceIs
<1>3. t \in Seq(Int) /\ Len(t) = 3 /\ t[1] = 22 /\ t[2] = 3 /\ t[3] = version(minor)
  BY DEF version, IsByte
<1> HIDE DEF s, t
<1>4. s[1] = t[1] /\ s[2] = t[2] /\ s[3] = t[3]
  BY <1>2, <1>3 DEF IsHello
<1>5. s = t
  <2>1. Len(s) = Len(t) /\ \A i \in 1..Len(s) : s[i] = t[i]
    BY <1>2, <1>3, <1>4
  <2> QED
    BY <1>2, <1>3, <2>1, SeqEqual
<1> QED
  BY <1>5 DEF s, t, IsHead

\* The records a ClientHello is cut into: well fragmented, and the name is whole in none.
LEMMA ChunksIntact ==
  ASSUME NEW h, Fits(h), Inside(h), NEW minor, IsByte(minor), NEW hello, IsHello(hello, h, minor),
         NEW o, o.records \in Nat, o.records >= 2, NEW chunks, chunks = Chunks(hello, CutAt(h), o)
  PROVE  /\ chunks \in Seq(Seq(Int)) /\ Len(chunks) \in Nat \ {0, 1}
         /\ \A i \in 1..Len(chunks) : chunks[i] # <<>>
         /\ Joined(chunks) \in Seq(Int) /\ Len(Joined(chunks)) >= 53
         /\ WellFragmented(Joined(chunks), h, version(minor))
         /\ CutAt(h) # h.sniStart => NameCutByRecords(Joined(chunks), h)
<1> DEFINE left == o.records \div 2
           right == o.records - left
           parts == Split(Slice(hello, 5, CutAt(h)), left) \o Split(Slice(hello, CutAt(h), Len(hello)), right)
           head == Slice(hello, 0, 3)
<1>1. chunks = [i \in 1..Len(parts) |-> makeRecord(head, parts[i])]
  BY Zenon DEF Chunks, tlsRecordHeaderLen
<1>2. left \in Nat \ {0} /\ right \in Nat \ {0}
  <2> DEFINE n == o.records
  <2>1. n \in Nat /\ n >= 2
    OBVIOUS
  <2> HIDE DEF n
  <2>2. n \div 2 \in Nat \ {0} /\ n - (n \div 2) \in Nat \ {0}
    BY <2>1, Halves
  <2> QED
    BY <2>2 DEF n
<1>3. IsHead(head, minor)
  BY HeadIs
<1> HIDE DEF left, right, head
<1>4. Parts(parts, hello, 5, atCut(h), pastCut(h)) /\ NoneEmpty(parts)
  <2>1. 5 \in Nat /\ 5 <= 35
    OBVIOUS
  <2> QED
    BY <1>2, <2>1, RecordParts
<1> HIDE DEF parts
<1>5. hello \in Seq(Int) /\ Len(hello) = h.len
  BY DEF IsHello
<1>6. /\ parts \in Seq(Seq(Int)) /\ Len(parts) \in Nat \ {0, 1}
      /\ Joined(parts) = Slice(hello, 5, Len(hello))
      /\ \A i \in 1..Len(parts) : /\ parts[i] \in Seq(Int) /\ parts[i] # <<>>
                                  /\ Len(parts[i]) <= h.len /\ Apart(parts[i], h)
  BY <1>4, <1>5, Zenon DEF Parts, NoneEmpty, Apart, atCut, pastCut
<1>7. Payloads(parts, h)
  <2>1. Slice(hello, 5, Len(hello)) = Slice(Hello(h), tlsRecordHeaderLen, h.len)
    BY SamePayload
  <2>2. Len(parts) \in Nat \ {0}
    BY <1>6
  <2> QED
    BY <1>6, <2>1, <2>2, Zenon DEF Payloads
<1>8. /\ chunks \in Seq(Seq(Int)) /\ Len(chunks) = Len(parts)
      /\ RecordsOf(Joined(chunks)) = chunks
      /\ WellFragmented(Joined(chunks), h, version(minor))
      /\ Joined(chunks) \in Seq(Int) /\ Len(Joined(chunks)) >= 53
  BY <1>1, <1>3, <1>7, RecordsFragment
<1>9. \A i \in 1..Len(chunks) : chunks[i] # <<>> /\ chunks[i] \in Seq(Int) /\ Apart(chunks[i], h)
  <2> TAKE i \in 1..Len(chunks)
  <2>1. i \in 1..Len(parts) /\ chunks[i] = makeRecord(head, parts[i])
    BY <1>1, <1>8
  <2> DEFINE pay == parts[i]
  <2>2. pay \in Seq(Int) /\ pay # <<>> /\ Len(pay) <= h.len /\ Apart(pay, h)
    BY <1>6, <2>1
  <2> HIDE DEF pay
  <2>3. Apart(makeRecord(head, pay), h)
    BY <1>3, <2>2, RecordApart
  <2>4. makeRecord(head, pay) \in Seq(Int) /\ makeRecord(head, pay) # <<>>
    <3>1. head \in Seq(Int) /\ Len(head) = 3
      <4>1. version(minor) \in Int
        BY DEF version, IsByte
      <4> QED
        BY <1>3, <4>1 DEF IsHead
    <3>2. Made(makeRecord(head, pay), head, pay)
      BY <2>2, <3>1, RecordIs
    <3> DEFINE r == makeRecord(head, pay)
    <3> HIDE DEF r
    <3>3. r \in Seq(Int) /\ Len(r) = 5 + Len(pay) /\ Len(pay) \in Nat
      BY <3>2 DEF Made, r
    <3>4. r # <<>>
      BY <3>3, EmptySeq
    <3> QED
      BY <3>3, <3>4 DEF r
  <2> QED
    BY <2>1, <2>3, <2>4 DEF pay
<1>10. CutAt(h) # h.sniStart => \A i \in 1..Len(chunks) : ~HoldsName(chunks[i], h)
  BY <1>9, NameCut
<1>11. CutAt(h) # h.sniStart => NameCutByRecords(Joined(chunks), h)
  BY <1>8, <1>10, Zenon DEF NameCutByRecords
<1> QED
  BY <1>6, <1>8, <1>9, <1>11

LEMMA LastBack ==
  ASSUME NEW data \in Seq(Int), data # <<>>
  PROVE  /\ Append(Front(data), Last(data)) = data
         /\ Front(data) \in Seq(Int) /\ Last(data) \in Int
<1>1. Len(data) \in Nat \ {0}
  BY EmptySeq
<1>2. Slice(data, 0, Len(data) - 1) \in Seq(Int) /\ data[Len(data)] \in Int
  <2>1. 0 \in 0..Len(data) /\ Len(data) - 1 \in 0..Len(data) /\ Len(data) \in 1..Len(data)
    BY <1>1
  <2>2. Slice(data, 0, Len(data) - 1) \in Seq(Int)
    BY <2>1, SliceIs
  <2>3. data[Len(data)] \in Int
    BY <2>1
  <2> QED
    BY <2>2, <2>3
<1>3. Front(data) \in Seq(Int) /\ Last(data) \in Int
  BY <1>2 DEF Front, Last, Slice
<1>4. SubSeq(data, 1, Len(data)) = SubSeq(data, 1, Len(data) - 1) \o <<data[Len(data)]>>
  <2>1. 1 \in 1..(Len(data) + 1) /\ Len(data) \in 1..Len(data)
    BY <1>1
  <2> QED
    BY <2>1, SubSeqRecursiveSecond
<1>5. SubSeq(data, 1, Len(data)) = data
  BY SubSeqFull
<1>6. Append(Front(data), Last(data)) = Front(data) \o <<Last(data)>>
  BY <1>3, AppendIsConcat
<1> QED
  BY <1>3, <1>4, <1>5, <1>6 DEF Front, Last

LEMMA UrgentIs ==
  ASSUME NEW data, NEW byte, Append(data, byte) \in Seq(Int)
  PROVE  /\ OOB(data, byte) \in AnyPiece /\ OOB(data, byte).urgent
         /\ OOB(data, byte).data = Append(data, byte)
BY DEF OOB, AnyPiece

LEMMA UrgentZero ==
  ASSUME NEW data \in Seq(Int)
  PROVE  /\ OOB(data, 0) \in AnyPiece /\ OOB(data, 0).urgent
         /\ OOB(data, 0).data = Append(data, 0)
<1>1. Append(data, 0) \in Seq(Int)
  BY AppendProperties
<1> QED
  BY <1>1 DEF OOB, AnyPiece

\* More than one record.
Several(chunks) ==
  /\ chunks \in Seq(Seq(Int)) /\ Len(chunks) \in Nat \ {0, 1}
  /\ \A i \in 1..Len(chunks) : chunks[i] # <<>>

\* Not both of oob and oob_ex.
OneOOB(o) == o.oob \in BOOLEAN /\ o.oobex \in BOOLEAN /\ ~(o.oob /\ o.oobex)

\* A piece for each record.
LEMMA EachCarries ==
  ASSUME NEW chunks, Several(chunks), NEW o, OneOOB(o)
  PROVE  Carries(PerRecord(chunks, o), chunks)
<1> SUFFICES ASSUME chunks \in Seq(Seq(Int)), Len(chunks) \in Nat \ {0, 1},
                    \A i \in 1..Len(chunks) : chunks[i] # <<>>,
                    o.oob \in BOOLEAN, o.oobex \in BOOLEAN, ~(o.oob /\ o.oobex)
             PROVE  Carries(PerRecord(chunks, o), chunks)
  BY Zenon DEF Several, OneOOB
<1> DEFINE p == PerRecord(chunks, o)
           n == Len(chunks)
           piece(i) == CASE i = 1 /\ o.oob -> OOB(chunks[1], 0)
                         [] i = 1 /\ ~o.oob /\ o.oobex -> OOB(Front(chunks[1]), Last(chunks[1]))
                         [] i = 2 /\ o.oobex -> OOB(chunks[2], 0)
                         [] OTHER -> Plain(chunks[i])
<1>1. p = [i \in 1..n |-> piece(i)]
  BY Zenon DEF PerRecord
<1>2. n \in Nat /\ n >= 2 /\ 1 \in 1..n /\ 2 \in 1..n /\ \A i \in 1..n : chunks[i] \in Seq(Int)
  <2>1. \A i \in 1..n : chunks[i] \in Seq(Int)
    OBVIOUS
  <2> HIDE DEF n
  <2>2. n \in Nat /\ n # 0 /\ n # 1
    BY DEF n
  <2>3. n >= 2
    BY <2>2
  <2> QED
    BY <2>1, <2>2, <2>3
<1>3. \A i \in 1..n : /\ Append(chunks[i], 0) \in Seq(Int)
                      /\ Append(Front(chunks[i]), Last(chunks[i])) = chunks[i]
  <2> TAKE i \in 1..n
  <2> DEFINE c == chunks[i]
  <2>1. c \in Seq(Int) /\ c # <<>>
    BY <1>2
  <2> HIDE DEF c
  <2>2. Append(c, 0) \in Seq(Int)
    BY <2>1, AppendProperties
  <2>3. Append(Front(c), Last(c)) = c
    BY <2>1, LastBack
  <2> QED
    BY <2>2, <2>3 DEF c
<1> HIDE DEF n
<1>4. ASSUME NEW i \in 1..n
      PROVE  /\ piece(i) \in AnyPiece
             /\ piece(i).urgent <=> (i = 1 /\ (o.oob \/ o.oobex)) \/ (i = 2 /\ o.oobex)
             /\ piece(i).data = IF (i = 1 /\ o.oob) \/ (i = 2 /\ o.oobex) THEN Append(chunks[i], 0)
                                ELSE chunks[i]
  <2>1. CASE i = 1 /\ o.oob
    <3>1. piece(i) = OOB(chunks[i], 0)
      BY <2>1
    <3> HIDE DEF piece
    <3>2. piece(i) \in AnyPiece /\ piece(i).urgent /\ piece(i).data = Append(chunks[i], 0)
      <4>1. chunks[i] \in Seq(Int)
        BY <1>2
      <4> QED
        BY <3>1, <4>1, UrgentZero
    <3> QED
      BY <2>1, <3>2
  <2>2. CASE i = 1 /\ ~o.oob /\ o.oobex
    <3>1. piece(i) = OOB(Front(chunks[i]), Last(chunks[i]))
      BY <2>2
    <3> HIDE DEF piece
    <3> QED
      <4>1. chunks[i] \in Seq(Int) /\ Append(Front(chunks[i]), Last(chunks[i])) = chunks[i]
        BY <1>2, <1>3
      <4>2. piece(i) \in AnyPiece /\ piece(i).urgent /\ piece(i).data = chunks[i]
        BY <3>1, <4>1, UrgentIs
      <4>3. ~(i = 1 /\ o.oob) /\ ~(i = 2 /\ o.oobex)
        BY <2>2
      <4> QED
        BY <2>2, <4>2, <4>3
  <2>3. CASE i = 2 /\ o.oobex
    <3>1. piece(i) = OOB(chunks[i], 0)
      BY <2>3
    <3> HIDE DEF piece
    <3> QED
      <4>1. piece(i) \in AnyPiece /\ piece(i).urgent /\ piece(i).data = Append(chunks[i], 0)
        <5>1. chunks[i] \in Seq(Int)
          BY <1>2
        <5> QED
          BY <3>1, <5>1, UrgentZero
      <4> QED
        BY <2>3, <4>1
  <2>4. CASE ~(i = 1 /\ (o.oob \/ o.oobex)) /\ ~(i = 2 /\ o.oobex)
    <3>1. piece(i) = Plain(chunks[i])
      BY <2>4
    <3> HIDE DEF piece
    <3> QED
      BY <1>2, <2>4, <3>1 DEF Plain, AnyPiece
  <2> QED
    BY <2>1, <2>2, <2>3, <2>4
<1>5. \A i \in 1..n : p[i] = piece(i)
  BY <1>1
<1>6. p \in Seq(AnyPiece) /\ Len(p) = n
  <2>1. p \in [1..n -> AnyPiece]
    <3>1. \A i \in 1..n : piece(i) \in AnyPiece
      BY <1>4
    <3> HIDE DEF piece, p
    <3> QED
      BY <1>1, <3>1
  <2> HIDE DEF p
  <2> QED
    BY <1>2, <2>1
<1>7. ASSUME NEW i \in 1..n
      PROVE  /\ p[i].urgent <=> (i = 1 /\ (o.oob \/ o.oobex)) \/ (i = 2 /\ o.oobex)
             /\ p[i].data = IF (i = 1 /\ o.oob) \/ (i = 2 /\ o.oobex) THEN Append(chunks[i], 0)
                            ELSE chunks[i]
  <2>1. p[i] = piece(i)
    BY <1>5
  <2> HIDE DEF p, piece
  <2> QED
    BY <1>4, <2>1
<1> HIDE DEF p, piece
<1>8. o.oobex => Superseded(p, 1)
  <2> SUFFICES ASSUME o.oobex PROVE Superseded(p, 1)
    OBVIOUS
  <2>1. p[2].urgent /\ 2 \in (1 + 1)..Len(p)
    BY <1>2, <1>6, <1>7
  <2> QED
    BY <2>1 DEF Superseded
<1>9. /\ ~Superseded(p, 2)
      /\ o.oob => ~Superseded(p, 1)
  <2>1. \A j \in (2 + 1)..Len(p) : ~p[j].urgent
    BY <1>2, <1>6, <1>7
  <2>2. o.oob => \A j \in (1 + 1)..Len(p) : ~p[j].urgent
    BY <1>2, <1>6, <1>7
  <2> QED
    BY <2>1, <2>2 DEF Superseded
<1>10. ASSUME NEW i \in 1..n
       PROVE  IF p[i].urgent /\ ~Superseded(p, i)
              THEN \E byte \in Int : p[i].data = Append(chunks[i], byte)
              ELSE p[i].data = chunks[i]
  <2>0. 0 \in Int
    OBVIOUS
  <2>1. CASE i = 1 /\ o.oob
    <3>1. p[i].urgent /\ ~Superseded(p, i) /\ p[i].data = Append(chunks[i], 0)
      BY <1>7, <1>9, <2>1
    <3> QED
      BY <2>0, <3>1
  <2>2. CASE i = 1 /\ ~o.oob /\ o.oobex
    <3>1. Superseded(p, i) /\ p[i].data = chunks[i]
      BY <1>7, <1>8, <2>2
    <3> QED
      BY <3>1
  <2>3. CASE i = 2 /\ o.oobex
    <3>1. p[i].urgent /\ ~Superseded(p, i) /\ p[i].data = Append(chunks[i], 0)
      BY <1>7, <1>9, <2>3
    <3> QED
      BY <2>0, <3>1
  <2>4. CASE ~(i = 1 /\ (o.oob \/ o.oobex)) /\ ~(i = 2 /\ o.oobex)
    <3>1. ~p[i].urgent /\ p[i].data = chunks[i]
      BY <1>7, <2>4
    <3> QED
      BY <3>1
  <2> QED
    BY <2>1, <2>2, <2>3, <2>4
<1> QED
  BY <1>6, <1>10 DEF Carries, p, n

\* The records put together and cut anew.
LEMMA MergedIntact ==
  ASSUME NEW chunks, NEW all, all = Joined(chunks), all \in Seq(Int), Len(all) >= 53,
         NEW o, o.segments \in Nat \ {0}, o.oob \in BOOLEAN, o.oobex \in BOOLEAN,
         ~(o.oob /\ o.oobex), NEW p, p = Merged(chunks, o)
  PROVE  Received(p, Len(p), FALSE) = all
<1> DEFINE data == rest(all, o.oobex)
           plain == o.segments = 1 \/ (o.segments > 0 /\ Len(data) <= o.segments)
           segs == IF plain THEN <<data>> ELSE Split(data, o.segments)
           oob == IF plain THEN FALSE ELSE o.oob
<1>1. data \in Seq(Int) /\ data # <<>>
  <2>1. CASE o.oobex
    <3>1. exRest(all) \in Seq(Int) /\ Len(exRest(all)) = Len(all) - 35
      BY ExJoined
    <3>2. exRest(all) # <<>>
      <4>1. Len(all) - 35 # 0
        <5> DEFINE l == Len(all)
        <5>1. l \in Nat /\ l >= 53
          BY LenProperties
        <5> HIDE DEF l
        <5>2. l - 35 # 0
          BY <5>1
        <5> QED
          BY <5>2 DEF l
      <4> QED
        BY <3>1, <4>1, EmptySeq
    <3> QED
      BY <2>1, <3>1, <3>2 DEF rest
  <2>2. CASE ~o.oobex
    <3>1. all # <<>>
      BY EmptySeq
    <3> QED
      BY <2>2, <3>1 DEF rest
  <2> QED
    BY <2>1, <2>2
<1>2. p = first(all, o.oobex) \o IF plain THEN <<Plain(data)>>
                                ELSE IF o.segments < 0 THEN <<>>
                                ELSE Writes(Split(data, o.segments), o.oob)
  BY Zenon DEF Merged, first, rest
<1>3. ~(o.segments < 0) /\ o.segments \in Nat \ {0}
  OBVIOUS
<1> HIDE DEF plain, data
<1>4. p = first(all, o.oobex) \o Writes(segs, oob)
  <2>1. <<Plain(data)>> = Writes(<<data>>, FALSE)
    BY <1>1, PlainWrite
  <2>2. CASE plain
    BY <1>2, <2>1, <2>2
  <2>3. CASE ~plain
    BY <1>2, <1>3, <2>3
  <2> QED
    BY <2>2, <2>3
<1>5. segs \in Seq(Seq(Int)) /\ Joined(segs) = data
  <2>1. CASE plain
    BY <1>1, <2>1, JoinedOne
  <2>2. CASE ~plain
    BY <1>1, <1>3, <2>2, SplitParts
  <2> QED
    BY <2>1, <2>2
<1>6. oob \in BOOLEAN /\ ~(oob /\ o.oobex)
  OBVIOUS
<1> HIDE DEF segs, oob
<1> DEFINE a == all
           oobex == o.oobex
<1>7. /\ a \in Seq(Int) /\ Len(a) >= 35 /\ Joined(segs) = rest(a, oobex)
      /\ p = first(a, oobex) \o Writes(segs, oob)
  <2>1. Len(all) \in Nat
    BY LenProperties
  <2> QED
    BY <1>4, <1>5, <2>1 DEF data
<1>b. oobex \in BOOLEAN /\ oob \in BOOLEAN /\ ~(oob /\ oobex) /\ segs \in Seq(Seq(Int))
  BY <1>5, <1>6
<1> HIDE DEF a, oobex
<1>8. Received(p, Len(p), FALSE) = a
  BY <1>7, <1>b, Sent
<1> QED
  BY <1>8 DEF a

\* The options of a session, as ClientHelloAssumption has them.
Settings(o) == o \in [records: Nat, segments: Int, minor: 0..255, oob: BOOLEAN, oobex: BOOLEAN]

\* What FragmentsIntact says of pieces that have all been received.
Intact(p, h, o) ==
  LET stream == Received(p, Len(p), FALSE)
  IN /\ WellFragmented(stream, h, version(o.minor))
     /\ \/ CutAt(h) = h.sniStart
        \/ o.records > 1 /\ NameCutByRecords(stream, h)
        \/ o.records <= 1 /\ (orOne(o.segments) > 1 => NameCutByPieces(p, h))

LEMMA SettingsAre ==
  ASSUME NEW opts, Settings(opts), NEW o, o = [opts EXCEPT !.records = orOne(@), !.segments = orOne(@)]
  PROVE  /\ IsByte(opts.minor) /\ opts.records \in Nat /\ opts.segments \in Int
         /\ o.records = orOne(opts.records) /\ o.segments = orOne(opts.segments)
         /\ o.records \in Nat \ {0} /\ o.segments \in Int \ {0}
         /\ o.oob = opts.oob /\ o.oobex = opts.oobex /\ o.oob \in BOOLEAN /\ o.oobex \in BOOLEAN
<1>1. /\ opts.records \in Nat /\ opts.segments \in Int /\ opts.oob \in BOOLEAN /\ opts.oobex \in BOOLEAN
      /\ IsByte(opts.minor)
  BY DEF Settings, IsByte
<1>2. /\ o.records = orOne(opts.records) /\ o.segments = orOne(opts.segments)
      /\ o.oob = opts.oob /\ o.oobex = opts.oobex
  BY DEF Settings
<1> QED
  BY <1>1, <1>2 DEF orOne

\* Whatever the options, the pieces give the record back and the name is cut.
LEMMA PiecesIntact ==
  ASSUME NEW h, Fits(h), NEW opts, Settings(opts), ~(opts.oob /\ opts.oobex),
         opts.segments >= -1, ~(opts.records > 1 /\ h.sniStart = h.len), ~Panics(opts),
         NEW p, p = Pieces(h, opts)
  PROVE  Intact(p, h, opts)
<1> DEFINE minor == opts.minor
           hello == HelloOf(h, minor)
           o == [opts EXCEPT !.records = orOne(@), !.segments = orOne(@)]
           chunks == Chunks(hello, CutAt(h), o)
           stream == Received(p, Len(p), FALSE)
<1>1. /\ IsByte(minor) /\ opts.records \in Nat /\ opts.segments \in Int
      /\ o.records = orOne(opts.records) /\ o.segments = orOne(opts.segments)
      /\ o.records \in Nat \ {0} /\ o.segments \in Int \ {0}
      /\ o.oob = opts.oob /\ o.oobex = opts.oobex /\ o.oob \in BOOLEAN /\ o.oobex \in BOOLEAN
  BY SettingsAre
<1>2. p = IF o.records = 1 THEN OneRecord(hello, CutAt(h), o)
          ELSE IF o.segments = -1 THEN PerRecord(chunks, o) ELSE Merged(chunks, o)
  BY Zenon DEF Pieces, HelloOf
<1>3. IsHello(hello, h, minor)
  BY <1>1, HelloIs
<1> HIDE DEF minor, hello, o
<1>4. o.segments >= -1 /\ ~(o.oob /\ o.oobex) /\ ~(o.records = 1 /\ o.segments < 0)
  BY <1>1 DEF orOne, Panics
<1>5. CASE o.records = 1
  <2>1. o.segments \in Nat \ {0}
    BY <1>1, <1>4, <1>5
  <2>2. p = OneRecord(hello, CutAt(h), o)
    BY <1>2, <1>5
  <2>3. /\ stream = hello
        /\ o.segments > 1 => \A i \in 1..Len(p) : p[i].data \in Seq(Int) /\ Apart(p[i].data, h)
    BY <1>1, <1>3, <1>4, <2>1, <2>2, OneIntact
  <2> HIDE DEF stream
  <2>4. WellFragmented(stream, h, version(minor))
    BY <1>1, <1>3, <2>3, OwnRecord
  <2>5. o.segments > 1 /\ CutAt(h) # h.sniStart => NameCutByPieces(p, h)
    BY <2>3, NameCut DEF NameCutByPieces
  <2>6. opts.records <= 1
    BY <1>1, <1>5 DEF orOne
  <2> QED
    BY <1>1, <2>4, <2>5, <2>6, Zenon DEF Intact, stream, minor
<1>6. CASE o.records # 1
  <2>1. /\ chunks \in Seq(Seq(Int)) /\ Len(chunks) \in Nat \ {0, 1}
        /\ \A i \in 1..Len(chunks) : chunks[i] # <<>>
        /\ Joined(chunks) \in Seq(Int) /\ Len(Joined(chunks)) >= 53
        /\ WellFragmented(Joined(chunks), h, version(minor))
        /\ CutAt(h) # h.sniStart => NameCutByRecords(Joined(chunks), h)
    <3>1. o.records \in Nat /\ o.records >= 2
      BY <1>1, <1>6
    <3>2. Inside(h)
      <4>1. h.sniStart # h.len
        BY <1>1, <1>6 DEF orOne
      <4>2. h.sniStart \in Nat /\ h.sniLen \in Nat /\ h.sniStart + h.sniLen <= h.len
        BY DEF Fits
      <4>3. h.len \in Nat
        BY CutInName DEF Short
      <4> QED
        BY <4>1, <4>2, <4>3 DEF Inside
    <3> QED
      BY <1>1, <1>3, <3>1, <3>2, ChunksIntact
  <2> HIDE DEF chunks
  <2>2. stream = Joined(chunks)
    <3>1. CASE o.segments = -1
      <4>1. p = PerRecord(chunks, o)
        BY <1>2, <1>6, <3>1
      <4>2. Carries(p, chunks)
        <5>1. Carries(PerRecord(chunks, o), chunks)
          <6>1. OneOOB(o)
            BY <1>1, <1>4 DEF OneOOB
          <6>2. Several(chunks)
            BY <2>1, Zenon DEF Several
          <6> QED
            BY <6>1, <6>2, EachCarries
        <5> QED
          BY <4>1, <5>1
      <4> QED
        BY <4>2, ReceivedIs
    <3>2. CASE o.segments # -1
      <4>1. p = Merged(chunks, o)
        BY <1>2, <1>6, <3>2
      <4>2. o.segments \in Nat \ {0}
        BY <1>1, <1>4, <3>2
      <4> QED
        BY <1>1, <1>4, <2>1, <4>1, <4>2, MergedIntact
    <3> QED
      BY <3>1, <3>2
  <2> HIDE DEF stream
  <2>3. opts.records > 1
    BY <1>1, <1>6 DEF orOne
  <2> QED
    BY <2>1, <2>2, <2>3, Zenon DEF Intact, stream, minor
<1> QED
  BY <1>5, <1>6

----
\* What a session has to send: the record as it is where no SNI was found, and a success only
\* with all pieces written and without a panic.
CutInv(c) ==
  world.mode[c] = "tls-rf" =>
    /\ asItIs(c) \/ cut[c] = Pieces(world.hello, world.opts[c])
    /\ frag[c].pc = "direct" => asItIs(c)
    /\ frag[c].pc = "ok" => asItIs(c) \/ (frag[c].n = Len(cut[c]) /\ ~Panics(world.opts[c]))

CutsInv == DOMAIN cut = Sessions /\ \A c \in Sessions : CutInv(c)

\* What ClientHelloAssumption says of the world that was chosen.
LEMMA HelloTyped ==
  ASSUME world \in Worlds
  PROVE  Fits(world.hello) /\ \A c \in Sessions : Settings(world.opts[c])
BY ClientHelloAssumption DEF Fits, Settings

\* Steps of the search and of the fake packet.
LEMMA CutKept ==
  ASSUME CutsInv, UNCHANGED <<world, frag, cut>>
  PROVE  CutsInv'
BY DEF CutsInv, CutInv, asItIs, Whole

\* One session gets to another place with its pieces as they are or the whole record.
LEMMA CutMoves ==
  ASSUME IInv, CutsInv, NEW c \in Sessions, NEW f, frag' = [frag EXCEPT ![c] = f],
         world' = world,
         cut' = cut \/ (world.via[c] = "doh" /\ cut' = [cut EXCEPT ![c] = Whole]),
         (f.pc = "direct" /\ world.mode[c] = "tls-rf") => asItIs(c)',
         (f.pc = "ok" /\ world.mode[c] = "tls-rf") =>
           asItIs(c)' \/ (f.n = Len(cut'[c]) /\ ~Panics(world.opts[c]))
  PROVE  CutsInv'
<1>1. Whole' = Whole
  BY DEF Whole
<1>2. DOMAIN cut' = Sessions /\ \A d \in Sessions : d # c => cut'[d] = cut[d]
  BY DEF CutsInv
<1>3. cut'[c] = cut[c] \/ asItIs(c)'
  BY <1>1 DEF CutsInv, asItIs
<1>4. frag'[c] = f /\ \A d \in Sessions : d # c => frag'[d] = frag[d]
  BY DEF IInv
<1>5. ASSUME NEW d \in Sessions
      PROVE  CutInv(d)'
  <2>1. CASE d = c
    BY <1>1, <1>3, <1>4, <2>1 DEF CutsInv, CutInv, asItIs
  <2>2. CASE d # c
    BY <1>1, <1>2, <1>4, <2>2 DEF CutsInv, CutInv, asItIs
  <2> QED
    BY <2>1, <2>2
<1> QED
  BY <1>2, <1>5 DEF CutsInv

\* A session goes on in the switch.
LEMMA CutGoto ==
  ASSUME IInv, CutsInv, NEW c \in Sessions, NEW to, Goto(c, to),
         (to = "direct" /\ world.mode[c] = "tls-rf") => asItIs(c),
         (to = "ok" /\ world.mode[c] = "tls-rf") =>
           asItIs(c) \/ (frag[c].n = Len(cut[c]) /\ ~Panics(world.opts[c]))
  PROVE  CutsInv'
<1> DEFINE f == [frag[c] EXCEPT !.pc = to]
<1>1. frag' = [frag EXCEPT ![c] = f] /\ world' = world /\ cut' = cut
  BY DEF Goto, probeVars
<1>2. f.pc = to /\ f.n = frag[c].n
  BY DEF IInv, Frags
<1>3. asItIs(c)' = asItIs(c)
  BY <1>1 DEF asItIs, Whole
<1> HIDE DEF f
<1> QED
  BY <1>1, <1>2, <1>3, CutMoves

\* A write moves on among the pieces, and only all of them are a success.
LEMMA CutsStep ==
  ASSUME IInv, CutsInv, [Next]_vars
  PROVE  CutsInv'
<1>1. CASE UNCHANGED vars
  BY <1>1, CutKept DEF vars
<1>2. CASE Expire /\ UNCHANGED <<snd, frag, cut>>
  BY <1>2, CutKept DEF Expire
<1>3. ASSUME NEW c \in Sessions, handleTLS(c) \/ policyConnWrite(c)
      PROVE  CutsInv'
  <2>1. CASE Dispatch(c)
    <3>1. CASE world.mode[c] = "tls-rf"
      BY <2>1, <3>1, CutGoto DEF Dispatch
    <3>2. CASE world.mode[c] # "tls-rf"
      BY <2>1, <3>2, CutGoto DEF Dispatch
    <3> QED
      BY <3>1, <3>2
  <2>2. CASE Goto(c, "failed")
    BY <2>2, CutGoto
  <2>3. CASE /\ frag' = [frag EXCEPT ![c].pc = "direct"] /\ cut' = [cut EXCEPT ![c] = Whole]
             /\ UNCHANGED <<probeVars, snd>>
    <3> DEFINE f == [frag[c] EXCEPT !.pc = "direct"]
    <3>1. frag' = [frag EXCEPT ![c] = f] /\ world' = world /\ f.pc = "direct" /\ cut'[c] = Whole
      BY <2>3 DEF IInv, Frags, CutsInv, probeVars
    <3>2. CASE world.via[c] = "doh"
      <4>1. asItIs(c)'
        BY <3>1, <3>2 DEF asItIs, Whole
      <4> HIDE DEF f
      <4> QED
        BY <2>3, <3>1, <3>2, <4>1, CutMoves
    <3>3. CASE world.via[c] # "doh"
      BY <1>3, <2>1, <3>3 DEF handleTLS, policyConnWrite
    <3> QED
      BY <3>2, <3>3
  <2> QED
    BY <1>3, <2>1, <2>2, <2>3 DEF handleTLS, policyConnWrite
<1>4. ASSUME NEW c \in Sessions, WritePiece(c)
      PROVE  CutsInv'
  <2>1. CASE Goto(c, "failed")
    BY <2>1, CutGoto
  <2>2. CASE frag' = [frag EXCEPT ![c].n = @ + 1] /\ UNCHANGED <<probeVars, snd, cut>>
    <3> DEFINE f == [frag[c] EXCEPT !.n = @ + 1]
    <3>1. /\ frag' = [frag EXCEPT ![c] = f] /\ world' = world /\ cut' = cut
          /\ f.pc = frag[c].pc /\ f.pc # "ok"
      BY <1>4, <2>2 DEF IInv, Frags, probeVars, WritePiece, writing
    <3> HIDE DEF f
    <3>2. (f.pc = "direct" /\ world.mode[c] = "tls-rf") => asItIs(c)'
      BY <3>1 DEF CutsInv, CutInv, asItIs, Whole
    <3> QED
      BY <3>1, <3>2, CutMoves
  <2> QED
    BY <1>4, <2>1, <2>2 DEF WritePiece
<1>5. ASSUME NEW c \in Sessions, Written(c)
      PROVE  CutsInv'
  <2>1. CASE Goto(c, "panic")
    BY <2>1, CutGoto
  <2>2. CASE Goto(c, "ok") /\ ~(frag[c].pc = "tls-rf" /\ Panics(world.opts[c]))
    <3>1. (frag[c].pc = "direct" /\ world.mode[c] = "tls-rf") => asItIs(c)
      BY DEF CutsInv, CutInv
    <3>2. frag[c].n = Len(cut[c]) /\ (frag[c].pc = "direct" \/ frag[c].pc = "tls-rf")
      BY <1>5 DEF Written, writing
    <3> QED
      BY <2>2, <3>1, <3>2, CutGoto
  <2> QED
    BY <1>5, <2>1, <2>2 DEF Written
<1>6. ASSUME NEW c \in Sessions, ServerReads(c)
      PROVE  CutsInv'
  <2> DEFINE f == [frag[c] EXCEPT !.early = TRUE]
  <2>1. /\ frag' = [frag EXCEPT ![c] = f] /\ world' = world /\ cut' = cut /\ f.pc = "tls-rf"
    BY <1>6 DEF ServerReads, IInv, Frags, probeVars
  <2> HIDE DEF f
  <2> QED
    BY <2>1, CutMoves
<1>7. ASSUME NEW c \in Sessions, FakeTTL(c)
      PROVE  CutsInv'
  <2>1. world' = world
    BY <1>7, SearchStep DEF FakeTTL
  <2> QED
    BY <1>7, <2>1, CutKept DEF FakeTTL
<1>8. ASSUME NEW c \in Sessions, Desync(c) \/ Writer(c) \/ WriterFault(c) \/ Network(c)
      PROVE  CutsInv'
  <2>1. UNCHANGED <<world, frag, cut>>
    BY <1>8 DEF Desync, Writer, WriterFault, Network, probeVars
  <2> QED
    BY <2>1, CutKept
<1> QED
  BY <1>1, <1>2, <1>3, <1>4, <1>5, <1>6, <1>7, <1>8, Zenon DEF Next, Handler

\* sendRecords, for every record and all options, and with the errors and the early reads
\* of every session: the server gets well-formed records with the same ClientHello in
\* them, and the host name is whole in no record, or in no segment.
THEOREM FragmentsAreIntact == Spec => []FragmentsIntact
<1>1. Init => CutsInv
  <2> SUFFICES ASSUME Init PROVE CutsInv
    OBVIOUS
  <2>1. DOMAIN cut = Sessions /\ \A c \in Sessions : frag[c].pc = "new"
    BY DEF Init
  <2>2. ASSUME NEW c \in Sessions
        PROVE  cut[c] = IF world.mode[c] = "tls-rf" THEN Pieces(world.hello, world.opts[c]) ELSE Whole
    BY Zenon DEF Init
  <2>3. ASSUME NEW c \in Sessions
        PROVE  CutInv(c)
    <3>1. frag[c].pc # "direct" /\ frag[c].pc # "ok"
      BY <2>1
    <3> QED
      BY <2>2, <3>1, Zenon DEF CutInv
  <2> QED
    BY <2>1, <2>3 DEF CutsInv
<1>2. IInv /\ CutsInv /\ [Next]_vars => CutsInv'
  BY CutsStep
<1>3. IInv /\ CutsInv => FragmentsIntact
  <2> SUFFICES ASSUME IInv, CutsInv PROVE FragmentsIntact
    OBVIOUS
  <2>1. Fits(world.hello) /\ \A c \in Sessions : Settings(world.opts[c])
    BY HelloTyped DEF IInv, ProbeInv, ProbeTypeOK
  <2>2. ASSUME NEW c \in Sessions, frag[c].pc = "ok", world.mode[c] = "tls-rf",
               ~frag[c].early, ~(world.opts[c].oob /\ world.opts[c].oobex),
               ~(world.opts[c].segments < -1), ~asItIs(c),
               ~(world.opts[c].records > 1 /\ world.hello.sniStart = world.hello.len)
        PROVE  /\ Intact(cut[c], world.hello, world.opts[c])
               /\ frag[c].n = Len(cut[c]) /\ frag[c].early = FALSE
    <3>1. /\ cut[c] = Pieces(world.hello, world.opts[c]) /\ ~Panics(world.opts[c])
          /\ frag[c].n = Len(cut[c])
      BY <2>2, Zenon DEF CutsInv, CutInv
    <3>2. world.opts[c].segments >= -1
      <4>1. world.opts[c].segments \in Int
        BY <2>1 DEF Settings
      <4> QED
        BY <2>2, <4>1
    <3>3. frag[c].early = FALSE
      BY <2>2 DEF IInv, Frags
    <3>4. Intact(cut[c], world.hello, world.opts[c])
      BY <2>1, <2>2, <3>1, <3>2, PiecesIntact
    <3> QED
      BY <3>1, <3>3, <3>4
  <2> QED
    BY <2>2, Zenon DEF FragmentsIntact, Intact, version
<1> QED
  BY <1>1, <1>2, <1>3, Inductive, PTL DEF Spec
====
