---- MODULE Resolver ----
(***************************************************************************)
(* dnsResolver of internal/core/dns.go: Resolve looks in the cache, lets   *)
(* callers that ask for the same domain share one doResolve, and doResolve *)
(* asks the server, picks the addresses the mode wants, asks again for the *)
(* other family where the mode only prefers one, and fills the cache.      *)
(*                                                                         *)
(* An address list is abstracted to the families in it.  The cache is used *)
(* by the contract of LRUCache (entries expire and may be evicted) and the *)
(* group by that of SingleFlight: one flight per key, whose outcome goes   *)
(* to every caller that joined it, and is forgotten when it ends.          *)
(***************************************************************************)
EXTENDS Integers, FiniteSets

CONSTANTS
  Callers,    \* goroutines
  Domains,
  Modes,      \* the dns_modes of the policies in use, a subset of DNSModes
  MaxCalls    \* bound: calls of Resolve

v4 == 4
v6 == 6
Families == {v4, v6}
Other(f) == CHOOSE g \in Families : g # f

\* DNSMode: the family asked for first, whether the other one will do, and whether
\* all addresses are wanted.  DNSModeUnset has no family.
Unset == [first |-> 0, only |-> FALSE, multi |-> FALSE]
DNSModes == [first: Families, only: BOOLEAN, multi: BOOLEAN] \cup {Unset}

ASSUME ResolverAssumption ==
  Modes \subseteq DNSModes /\ MaxCalls \in Nat /\ "none" \notin Callers

\* A *dial.Dst: the families of its addresses; nil when there is none.  made is
\* history: the call that produced it.
Dsts == [made: 1..MaxCalls, multi: BOOLEAN, nil: BOOLEAN, has: SUBSET Families]
None == [made |-> 0]    \* no entry, no value

VARIABLES
  useCache, useGroup,   \* r.cache # nil, r.resolveGroup # nil
  cache,     \* domain to Dst, or None
  flight,    \* domain to the goroutine whose doResolve runs, or "none"
  n,         \* calls of Resolve so far
  call,      \* call number to what it was made with: domain, mode, a TTL to keep it
  pc, id,    \* control state and current call of each goroutine
  found,     \* the Dst doResolve is about to return
  reply,     \* call number to what Resolve returned
  over,      \* history: the calls that had ended when a call began
  lost       \* history: calls whose Dst has left the cache

vars == <<useCache, useGroup, cache, flight, n, call, pc, id, found, reply, over, lost>>
config == <<useCache, useGroup>>

noCall == [domain |-> "none", mode |-> Unset, keep |-> FALSE]
noReply == [kind |-> "none", dst |-> None]

\* Control states of a goroutine that runs doResolve.
resolving == {"ask", "askAgain", "store", "end"}

TypeOK ==
  /\ useCache \in BOOLEAN /\ useGroup \in BOOLEAN
  /\ cache \in [Domains -> Dsts \cup {None}]
  /\ flight \in [Domains -> Callers \cup {"none"}]
  /\ n \in 0..MaxCalls
  /\ call \in [1..MaxCalls -> [domain: Domains, mode: Modes, keep: BOOLEAN] \cup {noCall}]
  /\ pc \in [Callers -> {"idle", "missed", "wait"} \cup resolving]
  /\ id \in [Callers -> 0..MaxCalls]
  /\ found \in [Callers -> Dsts \cup {None}]
  /\ reply \in [1..MaxCalls -> [kind: {"none", "cached", "ok", "error"}, dst: Dsts \cup {None}]]
  /\ over \in [1..MaxCalls -> SUBSET (1..MaxCalls)] /\ lost \subseteq 1..MaxCalls
  /\ \A d \in Domains : flight[d] # "none" => pc[flight[d]] \in resolving

Init ==
  /\ useCache \in BOOLEAN /\ useGroup \in BOOLEAN
  /\ cache = [d \in Domains |-> None] /\ flight = [d \in Domains |-> "none"]
  /\ n = 0 /\ call = [k \in 1..MaxCalls |-> noCall]
  /\ pc = [c \in Callers |-> "idle"] /\ id = [c \in Callers |-> 0]
  /\ found = [c \in Callers |-> None]
  /\ reply = [k \in 1..MaxCalls |-> noReply]
  /\ over = [k \in 1..MaxCalls |-> {}] /\ lost = {}

my(c) == call[id[c]]

----
\* Mutant of Resolve: the cache is not looked into.
ResolvePastCache(c) ==
  /\ pc[c] = "idle" /\ n < MaxCalls
  /\ n' = n + 1 /\ id' = [id EXCEPT ![c] = n + 1]
  /\ over' = [over EXCEPT ![n + 1] = {k \in 1..n : reply[k].kind # "none"}]
  /\ \E d \in Domains, mode \in Modes, keep \in BOOLEAN :
       call' = [call EXCEPT ![n + 1] = [domain |-> d, mode |-> mode, keep |-> keep]]
  /\ pc' = [pc EXCEPT ![c] = "missed"]
  /\ UNCHANGED <<config, cache, flight, found, reply, lost>>

\* Resolve: the look into the cache.
Resolve(c) ==
  /\ pc[c] = "idle" /\ n < MaxCalls
  /\ n' = n + 1
  /\ over' = [over EXCEPT ![n + 1] = {k \in 1..n : reply[k].kind # "none"}]
  /\ \E d \in Domains, mode \in Modes, keep \in BOOLEAN :
       /\ call' = [call EXCEPT ![n + 1] = [domain |-> d, mode |-> mode, keep |-> keep]]
       /\ IF useCache /\ cache[d] # None
          THEN /\ reply' = [reply EXCEPT ![n + 1] = [kind |-> "cached", dst |-> cache[d]]]
               /\ UNCHANGED <<pc, id>>
          ELSE /\ pc' = [pc EXCEPT ![c] = "missed"] /\ id' = [id EXCEPT ![c] = n + 1]
               /\ UNCHANGED reply
  /\ UNCHANGED <<config, cache, flight, found, lost>>

\* Mutant of Lead: the cache is looked into again, and its answer is passed off as new.
LeadRecheck(c) ==
  /\ pc[c] = "missed"
  /\ useGroup => flight[my(c).domain] = "none"
  /\ flight' = IF useGroup THEN [flight EXCEPT ![my(c).domain] = c] ELSE flight
  /\ found' = [found EXCEPT ![c] = cache[my(c).domain]]
  /\ pc' = [pc EXCEPT ![c] = IF cache[my(c).domain] = None THEN "ask" ELSE "end"]
  /\ UNCHANGED <<config, cache, n, call, id, reply, over, lost>>

\* Resolve after a miss, without a group or as the first to ask: doResolve.
Lead(c) ==
  /\ pc[c] = "missed"
  /\ useGroup => flight[my(c).domain] = "none"
  /\ flight' = IF useGroup THEN [flight EXCEPT ![my(c).domain] = c] ELSE flight
  /\ pc' = [pc EXCEPT ![c] = "ask"]
  /\ UNCHANGED <<config, cache, n, call, id, found, reply, over, lost>>

\* Resolve after a miss, while somebody resolves the domain: wait for the outcome.
Join(c) ==
  /\ pc[c] = "missed" /\ useGroup /\ flight[my(c).domain] # "none"
  /\ pc' = [pc EXCEPT ![c] = "wait"]
  /\ UNCHANGED <<config, cache, flight, n, call, id, found, reply, over, lost>>

\* Those that get the outcome of c's call: c and the callers that joined its flight.
Sharers(c) ==
  {c} \cup {j \in Callers : useGroup /\ pc[j] = "wait" /\ my(j).domain = my(c).domain}

\* Mutant of Return: the flight is not forgotten.
ReturnNoDelete(c, kind, dst) ==
  /\ \E done \in {Sharers(c)} :
       /\ reply' = [k \in 1..MaxCalls |->
            IF \E j \in done : id[j] = k THEN [kind |-> kind, dst |-> dst] ELSE reply[k]]
       /\ pc' = [j \in Callers |-> IF j \in done THEN "idle" ELSE pc[j]]
       /\ id' = [j \in Callers |-> IF j \in done THEN 0 ELSE id[j]]
  /\ found' = [found EXCEPT ![c] = None]
  /\ UNCHANGED <<config, cache, flight, n, call, over, lost>>

\* c's doResolve returns, and with it the flight c leads ends.
Return(c, kind, dst) ==
  /\ \E done \in {Sharers(c)} :
       /\ reply' = [k \in 1..MaxCalls |->
            IF \E j \in done : id[j] = k THEN [kind |-> kind, dst |-> dst] ELSE reply[k]]
       /\ pc' = [j \in Callers |-> IF j \in done THEN "idle" ELSE pc[j]]
       /\ id' = [j \in Callers |-> IF j \in done THEN 0 ELSE id[j]]
  /\ flight' = IF useGroup THEN [flight EXCEPT ![my(c).domain] = "none"] ELSE flight
  /\ found' = [found EXCEPT ![c] = None]
  /\ UNCHANGED <<config, cache, n, call, over, lost>>

Fail(c) == Return(c, "error", None)

GoOn(c, dst, to) ==
  /\ found' = [found EXCEPT ![c] = dst] /\ pc' = [pc EXCEPT ![c] = to]
  /\ UNCHANGED <<config, cache, flight, n, call, id, reply, over, lost>>

\* A Dst of the call of c with these families, as NewSingleDst or NewDstFromIPs makes it.
newDst(c, has) ==
  [made |-> id[c], multi |-> my(c).mode.multi, nil |-> my(c).mode = Unset, has |-> has]

\* An exchange failed or had a bad rcode, for the first or the second question.
ExchangeFails(c) == pc[c] \in {"ask", "askAgain"} /\ Fail(c)

\* Mutant of resolveSingle: a failed fallback is taken for an answer.
resolveSingleOther(c, ans) ==
  LET mode == my(c).mode IN
  IF mode.first \in ans THEN GoOn(c, newDst(c, {mode.first}), "store")
  ELSE GoOn(c, newDst(c, {Other(mode.first)}), "store")

\* resolveSingle on the first answer: the first record of the family, else an error
\* or a question for the other family.
resolveSingle(c, ans) ==
  LET mode == my(c).mode IN
  IF mode.first \in ans THEN GoOn(c, newDst(c, {mode.first}), "store")
  ELSE IF mode.only THEN Fail(c)
  ELSE GoOn(c, None, "askAgain")

\* resolveMulti: pickARecords and pickAAAARecords return a slice that is empty and
\* not nil when there is no record, so neither the error nor the second question
\* of the code is reached.
resolveMulti(c, ans) == GoOn(c, newDst(c, ans \cap {my(c).mode.first}), "store")

\* doResolve has the first answer; its records may be of any family, and with
\* DNSModeUnset none is picked.
doResolve(c) ==
  /\ pc[c] = "ask"
  /\ \E ans \in SUBSET Families :
       IF my(c).mode = Unset THEN GoOn(c, newDst(c, {}), "store")
       ELSE IF my(c).mode.multi THEN resolveMulti(c, ans)
       ELSE resolveSingle(c, ans)

\* resolveSingle has the answer to its second question.
resolveSingleAgain(c) ==
  /\ pc[c] = "askAgain"
  /\ \E ans \in SUBSET Families, f \in {Other(my(c).mode.first)} :
       IF f \in ans THEN GoOn(c, newDst(c, {f}), "store") ELSE Fail(c)

\* doResolve: the answer goes to the cache, unless the TTL is 0 or unset.
Store(c) ==
  /\ pc[c] = "store"
  /\ IF my(c).keep /\ useCache
     THEN /\ cache' = [cache EXCEPT ![my(c).domain] = found[c]]
          /\ lost' = lost \cup ({cache[my(c).domain].made} \ {0})
     ELSE UNCHANGED <<cache, lost>>
  /\ pc' = [pc EXCEPT ![c] = "end"]
  /\ UNCHANGED <<config, flight, n, call, id, found, reply, over>>

End(c) == pc[c] = "end" /\ Return(c, "ok", found[c])

\* The lifetime of an entry is over, or the cache needs its place.
Expire(d) ==
  /\ cache[d] # None
  /\ cache' = [cache EXCEPT ![d] = None] /\ lost' = lost \cup {cache[d].made}
  /\ UNCHANGED <<config, flight, n, call, pc, id, found, reply, over>>

Step(c) ==
  \/ Lead(c) \/ Join(c) \/ ExchangeFails(c) \/ doResolve(c)
  \/ resolveSingleAgain(c) \/ Store(c) \/ End(c)

Next ==
  \/ \E c \in Callers : Resolve(c) \/ Step(c)
  \/ \E d \in Domains : Expire(d)

Spec == Init /\ [][Next]_vars

\* The goroutines run, and every exchange ends with an answer or an error.
FairSpec == Spec /\ \A c \in Callers : WF_vars(Step(c))

----
Calls == 1..MaxCalls
Answered == {k \in Calls : reply[k].kind \in {"cached", "ok"}}

\* Besides the types: whoever the answer comes from, the cache, a shared flight or the caller's own
\* question, it was made for the domain that was asked for, and it is what the mode
\* of the call that made it allows: one address of a family that mode admits.
AnswerExplained ==
  TypeOK /\ \A k \in Answered :
    LET d == reply[k].dst
        maker == call[d.made]
    IN /\ maker.domain = call[k].domain
       /\ d.multi = maker.mode.multi
       /\ maker.mode # Unset /\ (maker.mode.only \/ d.multi) => d.has \subseteq {maker.mode.first}
       /\ maker.mode # Unset /\ ~d.multi => Cardinality(d.has) = 1

\* An answer that is not from the cache is never an old one: the call that made it
\* had not ended when the caller asked.  Without the group it is the caller's own.
FreshUnlessCached ==
  \A k \in Answered : reply[k].kind = "ok" =>
    /\ reply[k].dst.made \notin over[k]
    /\ ~useGroup => reply[k].dst.made = k

\* What is in the cache is the answer of a successful call for that domain whose TTL
\* asked to keep it, and a resolver without a cache never answers from one.
OnlyKept ==
  /\ \A d \in Domains : cache[d] # None =>
       /\ call[cache[d].made].domain = d /\ call[cache[d].made].keep
       /\ reply[cache[d].made].kind # "error"
  /\ \A k \in Answered : reply[k].kind = "cached" => useCache

\* An answer that was to be kept spares every call that begins after it was returned
\* its question, until it leaves the cache; and nothing else is in the cache.
KeptAnswerIsUsed ==
  OnlyKept /\ \A c \in Callers : pc[c] # "idle" /\ useCache =>
    \A k \in over[id[c]] :
      (reply[k].kind = "ok" /\ call[k].domain = my(c).domain /\ call[reply[k].dst.made].keep)
        => reply[k].dst.made \in lost

\* A successful answer names an address: the code reports "A record not found" and
\* "AAAA record not found" where there is none.
AnswerNotEmpty ==
  \A k \in Answered : call[reply[k].dst.made].mode # Unset => reply[k].dst.has # {}

\* Every call of Resolve ends, those that wait for another one's question included.
ResolveEnds == \A c \in Callers : pc[c] # "idle" ~> pc[c] = "idle"
====
