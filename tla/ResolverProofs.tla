---- MODULE ResolverProofs ----
(***************************************************************************)
(* Proofs of the safety properties of Resolver for any goroutines, domains *)
(* and modes and any number of calls.                                      *)
(***************************************************************************)
EXTENDS Resolver, FiniteSetTheorems, TLAPS

\* d is an answer for the domain that the mode of the call that made it allows.
Good(d, domain) ==
  /\ d \in Dsts /\ d.made <= n /\ call[d.made].domain = domain
  /\ d.multi = call[d.made].mode.multi
  /\ (call[d.made].mode # Unset /\ (call[d.made].mode.only \/ d.multi)) =>
       d.has \subseteq {call[d.made].mode.first}
  /\ (call[d.made].mode # Unset /\ ~d.multi) => Cardinality(d.has) = 1

\* The calls made so far, and the others.
CallsMade ==
  \A k \in Calls :
    /\ k <= n => call[k] \in [domain: Domains, mode: Modes, keep: BOOLEAN]
    /\ k > n => reply[k] = noReply

\* Each goroutine inside Resolve has a call of its own that has no reply yet.
OwnCall ==
  /\ \A c \in Callers : pc[c] # "idle" => id[c] \in 1..n /\ reply[id[c]].kind = "none"
  /\ \A c, e \in Callers : (pc[c] # "idle" /\ pc[e] # "idle" /\ id[c] = id[e]) => c = e

\* With the group, the goroutines that run doResolve are those in flight; without it
\* there is no flight and nobody waits.
Flights ==
  /\ \A c \in Callers : (useGroup /\ pc[c] \in resolving) => flight[my(c).domain] = c
  /\ \A d \in Domains : flight[d] # "none" => useGroup /\ my(flight[d]).domain = d
  /\ \A c \in Callers : pc[c] = "wait" => useGroup

\* Only a mode that prefers a family asks for the other one.
SecondQuestion ==
  \A c \in Callers : pc[c] = "askAgain" =>
    my(c).mode # Unset /\ ~my(c).mode.only /\ ~my(c).mode.multi

GoodFound ==
  \A c \in Callers : pc[c] \in {"store", "end"} =>
    Good(found[c], my(c).domain) /\ found[c].made = id[c]

GoodCache == \A d \in Domains : cache[d] # None => Good(cache[d], d)

GoodReply == \A k \in Answered : Good(reply[k].dst, call[k].domain)

\* A call that was over when another began has a reply, and keeps it.
OverReplied == \A k \in Calls : \A j \in over[k] : reply[j].kind # "none"

CachedFromCache == \A k \in Calls : reply[k].kind = "cached" => useCache

\* The call that made what is in the cache succeeded, or is about to.
KeptMaker ==
  \A d \in Domains : cache[d] # None =>
    /\ call[cache[d].made].keep
    /\ \/ reply[cache[d].made].kind = "ok"
       \/ \E c \in Callers : pc[c] = "end" /\ id[c] = cache[d].made

\* The answer of call k was in the cache: it is there, or has left.
Stored(k, domain) == k \in lost \/ (cache[domain] # None /\ cache[domain].made = k)

StoredFound ==
  \A c \in Callers : (useCache /\ pc[c] = "end" /\ my(c).keep) => Stored(id[c], my(c).domain)

StoredReply ==
  \A k \in Calls : (useCache /\ reply[k].kind = "ok" /\ call[reply[k].dst.made].keep) =>
    Stored(reply[k].dst.made, call[k].domain)

\* KeptAnswerIsUsed without OnlyKept.
KeptIsUsed ==
  \A c \in Callers : pc[c] # "idle" /\ useCache =>
    \A k \in over[id[c]] :
      (reply[k].kind = "ok" /\ call[k].domain = my(c).domain /\ call[reply[k].dst.made].keep)
        => reply[k].dst.made \in lost

IInv ==
  /\ TypeOK /\ CallsMade /\ OwnCall /\ Flights /\ SecondQuestion
  /\ GoodFound /\ GoodCache /\ GoodReply
  /\ OverReplied /\ FreshUnlessCached /\ CachedFromCache
  /\ KeptMaker /\ StoredFound /\ StoredReply /\ KeptIsUsed

----
\* Changing n and call for new calls only, as every step does, keeps an answer good.
LEMMA GoodStable ==
  ASSUME NEW d, NEW domain, Good(d, domain), n \in Nat, n' \in Nat, n <= n',
         \A k \in 1..n : call'[k] = call[k]
  PROVE  Good(d, domain)'
<1>1. d.made \in 1..n
  BY ResolverAssumption DEF Good, Dsts
<1>2. call'[d.made] = call[d.made]
  BY <1>1
<1>3. d.made <= n'
  BY <1>1
<1>4. QED
  BY <1>2, <1>3 DEF Good

\* What a goroutine inside Resolve asks for.
LEMMA MyCall ==
  ASSUME IInv, NEW c \in Callers, pc[c] # "idle"
  PROVE  /\ id[c] \in Calls /\ id[c] <= n
         /\ my(c).domain \in Domains /\ my(c).mode \in DNSModes /\ my(c).keep \in BOOLEAN
<1>1. id[c] \in 1..n /\ n \in 0..MaxCalls
  BY DEF IInv, OwnCall, TypeOK
<1>2. id[c] \in Calls /\ id[c] <= n
  BY <1>1, ResolverAssumption DEF Calls
<1>3. my(c) \in [domain: Domains, mode: Modes, keep: BOOLEAN]
  BY <1>2 DEF IInv, CallsMade, my
<1>4. QED
  BY <1>2, <1>3, ResolverAssumption

\* The resolver before its first call.
LEMMA InitIInv == Init => IInv
<1> SUFFICES ASSUME Init PROVE IInv
  OBVIOUS
<1> USE ResolverAssumption DEF Init, Calls
<1>1. \A k \in Calls : reply[k] = noReply /\ noReply.kind = "none" /\ over[k] = {}
  BY DEF noReply
<1>2. TypeOK
  <2>1. reply \in [1..MaxCalls -> [kind: {"none", "cached", "ok", "error"}, dst: Dsts \cup {None}]]
    BY DEF noReply
  <2>2. QED
    BY <2>1 DEF TypeOK
<1>3. Answered = {}
  BY <1>1 DEF Answered
<1>4. CallsMade /\ OwnCall /\ Flights /\ SecondQuestion
  BY <1>1 DEF CallsMade, OwnCall, Flights, SecondQuestion, resolving
<1>5. GoodFound /\ GoodCache /\ GoodReply
  BY <1>3 DEF GoodFound, GoodCache, GoodReply
<1>6. OverReplied /\ FreshUnlessCached /\ CachedFromCache
  BY <1>1, <1>3 DEF OverReplied, FreshUnlessCached, CachedFromCache
<1>7. KeptMaker /\ StoredFound /\ StoredReply /\ KeptIsUsed
  BY <1>1 DEF KeptMaker, StoredFound, StoredReply, KeptIsUsed
<1>8. QED
  BY <1>2, <1>4, <1>5, <1>6, <1>7 DEF IInv

\* Resolve: an answer from the cache, or a miss, which finds all earlier answers that
\* were to be kept gone.
LEMMA ResolveStep ==
  ASSUME IInv, NEW c \in Callers, Resolve(c)
  PROVE  IInv'
<1> USE ResolverAssumption DEF IInv, Calls, config
<1>1. /\ pc[c] = "idle" /\ n \in Nat /\ n + 1 \in Calls /\ n' = n + 1
      /\ UNCHANGED <<useCache, useGroup, cache, flight, found, lost>>
  BY DEF Resolve, TypeOK
<1>2. PICK d \in Domains, mode \in Modes, keep \in BOOLEAN :
        /\ call' = [call EXCEPT ![n + 1] = [domain |-> d, mode |-> mode, keep |-> keep]]
        /\ IF useCache /\ cache[d] # None
           THEN /\ reply' = [reply EXCEPT ![n + 1] = [kind |-> "cached", dst |-> cache[d]]]
                /\ UNCHANGED <<pc, id>>
           ELSE /\ pc' = [pc EXCEPT ![c] = "missed"] /\ id' = [id EXCEPT ![c] = n + 1]
                /\ UNCHANGED reply
  BY DEF Resolve
<1>3. over' = [over EXCEPT ![n + 1] = {k \in 1..n : reply[k].kind # "none"}]
  BY DEF Resolve
<1>4. /\ \A k \in 1..n : call'[k] = call[k] /\ reply'[k] = reply[k] /\ over'[k] = over[k]
      /\ call'[n + 1] = [domain |-> d, mode |-> mode, keep |-> keep]
      /\ over'[n + 1] = {k \in 1..n : reply[k].kind # "none"}
      /\ \A k \in Calls : k > n + 1 => reply'[k] = reply[k] /\ over'[k] = over[k]
  BY <1>1, <1>2, <1>3 DEF TypeOK
<1>5. reply[n + 1] = noReply /\ noReply.kind = "none"
  BY <1>1 DEF CallsMade, noReply
<1>6. TypeOK'
  <2>1. call' \in [1..MaxCalls -> [domain: Domains, mode: Modes, keep: BOOLEAN] \cup {noCall}]
    BY <1>1, <1>2 DEF TypeOK
  <2>2. over' \in [1..MaxCalls -> SUBSET (1..MaxCalls)]
    BY <1>1, <1>3 DEF TypeOK
  <2>3. /\ reply' \in [1..MaxCalls -> [kind: {"none", "cached", "ok", "error"},
                                       dst: Dsts \cup {None}]]
        /\ pc' \in [Callers -> {"idle", "missed", "wait"} \cup resolving]
        /\ id' \in [Callers -> 0..MaxCalls]
    <3>1. CASE useCache /\ cache[d] # None
      <4>1. [kind |-> "cached", dst |-> cache[d]] \in
              [kind: {"none", "cached", "ok", "error"}, dst: Dsts \cup {None}]
        BY DEF TypeOK
      <4>2. QED
        BY <1>1, <1>2, <3>1, <4>1, ZenonT(40) DEF TypeOK
    <3>2. CASE ~(useCache /\ cache[d] # None)
      <4>1. pc' \in [Callers -> {"idle", "missed", "wait"} \cup resolving]
        BY <1>2, <3>2 DEF TypeOK
      <4>2. id' \in [Callers -> 0..MaxCalls]
        BY <1>1, <1>2, <3>2 DEF TypeOK
      <4>3. QED
        BY <1>2, <3>2, <4>1, <4>2 DEF TypeOK
    <3>3. QED
      BY <3>1, <3>2
  <2>4. \A e \in Domains : flight[e] # "none" => pc'[flight[e]] \in resolving
    BY <1>1, <1>2 DEF TypeOK, resolving
  <2>5. QED
    BY <1>1, <2>1, <2>2, <2>3, <2>4 DEF TypeOK
<1>7. \A e \in Callers : pc[e] # "idle" =>
        pc'[e] = pc[e] /\ id'[e] = id[e] /\ id[e] \in 1..n /\ my(e)' = my(e)
  BY <1>1, <1>2, <1>4 DEF TypeOK, OwnCall, my
<1>8. \A e \in Callers : pc'[e] # "idle" =>
        \/ pc[e] # "idle"
        \/ /\ e = c /\ pc'[e] = "missed" /\ id'[e] = n + 1 /\ ~(useCache /\ cache[d] # None)
           /\ reply' = reply
  BY <1>1, <1>2 DEF TypeOK
<1>9. CallsMade'
  BY <1>1, <1>2, <1>4 DEF CallsMade
<1>10. OwnCall'
  <2>1. \A e \in Callers : pc'[e] # "idle" => id'[e] \in 1..(n + 1) /\ reply'[id'[e]].kind = "none"
    BY <1>1, <1>4, <1>5, <1>7, <1>8 DEF OwnCall
  <2>2. \A e, f \in Callers : (pc'[e] # "idle" /\ pc'[f] # "idle" /\ id'[e] = id'[f]) => e = f
    BY <1>1, <1>7, <1>8 DEF OwnCall
  <2>3. QED
    BY <1>1, <2>1, <2>2 DEF OwnCall
<1>11. Flights'
  <2>1. \A e \in Callers : pc'[e] \in resolving \cup {"wait"} => pc[e] = pc'[e]
    BY <1>7, <1>8 DEF resolving
  <2>2. \A e \in Domains : flight[e] # "none" => my(flight[e])' = my(flight[e])
    <3> SUFFICES ASSUME NEW e \in Domains, flight[e] # "none"
                 PROVE  my(flight[e])' = my(flight[e])
      OBVIOUS
    <3>1. flight[e] \in Callers /\ pc[flight[e]] # "idle" /\ flight' = flight
      BY <1>1 DEF TypeOK, resolving
    <3>2. QED
      BY <1>7, <3>1 DEF my
  <2>3. QED
    BY <1>1, <1>7, <2>1, <2>2 DEF Flights, resolving
<1>12. SecondQuestion'
  BY <1>7, <1>8 DEF SecondQuestion
<1>13. \A x, y : Good(x, y) => Good(x, y)'
  BY <1>1, <1>4, GoodStable
<1>14. GoodFound' /\ GoodCache'
  BY <1>1, <1>7, <1>8, <1>13 DEF GoodFound, GoodCache
<1>15. GoodReply'
  <2> SUFFICES ASSUME NEW k \in Calls, reply'[k].kind \in {"cached", "ok"}
               PROVE  Good(reply[k].dst, call[k].domain)'
    BY DEF GoodReply, Answered
  <2>1. CASE k \in 1..n
    BY <1>4, <1>13, <2>1 DEF GoodReply, Answered
  <2>2. CASE k = n + 1
    <3>1. cache[d] # None /\ reply'[k] = [kind |-> "cached", dst |-> cache[d]]
      BY <1>1, <1>2, <1>5, <2>2 DEF TypeOK
    <3>2. Good(cache[d], d)'
      BY <1>1, <1>13, <3>1 DEF GoodCache
    <3>3. reply'[k].dst = cache'[d] /\ call'[k].domain = d
      BY <1>1, <1>4, <2>2, <3>1
    <3>4. QED
      BY <3>2, <3>3 DEF Good
  <2>3. CASE k > n + 1
    BY <1>1, <1>4, <2>3 DEF CallsMade, noReply
  <2>4. QED
    BY <1>1, <2>1, <2>2, <2>3
<1>16. OverReplied'
  <2> SUFFICES ASSUME NEW k \in Calls, NEW j \in over'[k]
               PROVE  reply'[j].kind # "none"
    BY DEF OverReplied
  <2>1. j \in Calls /\ reply[j].kind # "none"
    <3>1. CASE k = n + 1
      BY <1>1, <1>4, <3>1
    <3>2. CASE k # n + 1
      <4>1. over'[k] = over[k]
        BY <1>1, <1>4, <3>2
      <4>2. over[k] \subseteq Calls
        BY DEF TypeOK
      <4>3. QED
        BY <4>1, <4>2 DEF OverReplied
    <3>3. QED
      BY <3>1, <3>2
  <2>2. j \in 1..n
    BY <1>1, <2>1 DEF CallsMade, noReply
  <2>3. QED
    BY <1>4, <2>1, <2>2
<1>17. \A k \in Calls : reply'[k].kind = "ok" => k \in 1..n /\ reply[k].kind = "ok"
  <2> SUFFICES ASSUME NEW k \in Calls, reply'[k].kind = "ok"
               PROVE  k \in 1..n /\ reply[k].kind = "ok"
    OBVIOUS
  <2>1. k # n + 1
    BY <1>1, <1>2, <1>5 DEF TypeOK
  <2>2. ~(k > n + 1)
    BY <1>1, <1>4, <1>5 DEF CallsMade
  <2>3. QED
    BY <1>1, <1>4, <2>1, <2>2
<1>18. FreshUnlessCached'
  BY <1>1, <1>4, <1>17 DEF FreshUnlessCached, Answered
<1>19. CachedFromCache'
  BY <1>1, <1>2, <1>4, <1>5 DEF CachedFromCache, TypeOK
<1>20. \A k \in Calls : reply[k].kind = "ok" =>
         reply[k].dst.made \in 1..n /\ call'[reply[k].dst.made] = call[reply[k].dst.made]
  BY <1>1, <1>4 DEF GoodReply, Answered, Good, Dsts
<1>21. KeptMaker'
  <2> SUFFICES ASSUME NEW e \in Domains, cache[e] # None
               PROVE  /\ call'[cache[e].made].keep
                      /\ \/ reply'[cache[e].made].kind = "ok"
                         \/ \E f \in Callers : pc'[f] = "end" /\ id'[f] = cache[e].made
    BY <1>1 DEF KeptMaker
  <2>1. cache[e].made \in 1..n
    BY <1>1 DEF GoodCache, Good, Dsts
  <2>2. QED
    BY <1>4, <1>7, <2>1 DEF KeptMaker
<1>22. StoredFound'
  BY <1>1, <1>7, <1>8 DEF StoredFound, Stored
<1>23. StoredReply'
  BY <1>1, <1>4, <1>17, <1>20 DEF StoredReply, Stored
<1>24. KeptIsUsed'
  <2> SUFFICES ASSUME NEW e \in Callers, pc'[e] # "idle", useCache, NEW k \in over'[id'[e]],
                      reply'[k].kind = "ok", call'[k].domain = my(e)'.domain,
                      call'[reply'[k].dst.made].keep
               PROVE  reply'[k].dst.made \in lost
    BY <1>1 DEF KeptIsUsed
  <2>1. k \in Calls
    <3>1. id'[e] \in Calls
      BY <1>1, <1>10 DEF OwnCall
    <3>2. QED
      BY <1>6, <3>1 DEF TypeOK
  <2>2. /\ k \in 1..n /\ reply[k].kind = "ok" /\ reply'[k] = reply[k] /\ call'[k] = call[k]
        /\ call[reply[k].dst.made].keep
    BY <1>4, <1>17, <1>20, <2>1
  <2>3. CASE pc[e] # "idle"
    BY <1>4, <1>7, <2>2, <2>3 DEF KeptIsUsed
  <2>4. CASE pc[e] = "idle"
    <3>1. e = c /\ id'[e] = n + 1 /\ cache[d] = None
      BY <1>8, <2>4
    <3>2. call[k].domain = d
      BY <1>4, <2>2, <3>1 DEF my
    <3>3. QED
      BY <2>1, <2>2, <3>1, <3>2 DEF StoredReply, Stored
  <2>5. QED
    BY <2>3, <2>4
<1>25. QED
  BY <1>6, <1>9, <1>10, <1>11, <1>12, <1>14, <1>15, <1>16, <1>18, <1>19, <1>21, <1>22,
     <1>23, <1>24

\* A goroutine leads a flight for its domain.
LEMMA LeadStep ==
  ASSUME IInv, NEW c \in Callers, Lead(c)
  PROVE  IInv'
<1> USE ResolverAssumption DEF IInv, Calls, config
<1>1. /\ pc[c] = "missed" /\ pc' = [pc EXCEPT ![c] = "ask"]
      /\ useGroup => flight[my(c).domain] = "none"
      /\ flight' = IF useGroup THEN [flight EXCEPT ![my(c).domain] = c] ELSE flight
      /\ UNCHANGED <<useCache, useGroup, cache, n, call, id, found, reply, over, lost>>
  BY DEF Lead
<1>2. my(c).domain \in Domains
  BY <1>1, MyCall
<1>3. /\ \A e \in Callers : my(e)' = my(e)
      /\ \A e \in Callers : e # c => pc'[e] = pc[e]
      /\ pc'[c] = "ask"
  BY <1>1 DEF my, TypeOK
<1>4. TypeOK'
  <2>1. /\ flight' \in [Domains -> Callers \cup {"none"}]
        /\ pc' \in [Callers -> {"idle", "missed", "wait"} \cup resolving]
    BY <1>1, <1>2 DEF TypeOK, resolving
  <2>2. \A d \in Domains : flight'[d] # "none" => pc'[flight'[d]] \in resolving
    BY <1>1, <1>2, <1>3 DEF TypeOK, resolving
  <2>3. QED
    BY <1>1, <2>1, <2>2 DEF TypeOK
<1>5. OwnCall' /\ SecondQuestion'
  BY <1>1, <1>3 DEF OwnCall, SecondQuestion, TypeOK
<1>6. Flights'
  <2>1. \A e \in Callers : (useGroup /\ pc'[e] \in resolving) => flight'[my(e).domain] = e
    BY <1>1, <1>2, <1>3 DEF Flights, TypeOK, resolving
  <2>2. \A d \in Domains : flight'[d] # "none" => useGroup /\ my(flight'[d]).domain = d
    BY <1>1, <1>2 DEF Flights, TypeOK
  <2>3. \A d \in Domains : flight'[d] # "none" => my(flight[d])' = my(flight'[d])
    BY <1>1 DEF my
  <2>4. QED
    BY <1>1, <1>3, <2>1, <2>2, <2>3 DEF Flights
<1>7. \A x, y : Good(x, y) => Good(x, y)'
  BY <1>1 DEF Good
<1>8. GoodFound' /\ GoodCache' /\ GoodReply'
  BY <1>1, <1>3, <1>7 DEF GoodFound, GoodCache, GoodReply, Answered
<1>9. (CallsMade /\ OverReplied /\ FreshUnlessCached /\ CachedFromCache /\ StoredReply)'
  BY <1>1 DEF CallsMade, OverReplied, FreshUnlessCached, CachedFromCache, StoredReply, Answered,
              Stored
<1>10. KeptMaker' /\ StoredFound' /\ KeptIsUsed'
  BY <1>1, <1>3 DEF KeptMaker, StoredFound, Stored, KeptIsUsed
<1>11. QED
  BY <1>4, <1>5, <1>6, <1>8, <1>9, <1>10

\* A goroutine waits for the flight there is for its domain.
LEMMA JoinStep ==
  ASSUME IInv, NEW c \in Callers, Join(c)
  PROVE  IInv'
<1> USE ResolverAssumption DEF IInv, Calls, config
<1>1. /\ pc[c] = "missed" /\ useGroup /\ pc' = [pc EXCEPT ![c] = "wait"]
      /\ UNCHANGED <<useCache, useGroup, cache, flight, n, call, id, found, reply, over, lost>>
  BY DEF Join
<1>2. /\ \A e \in Callers : my(e)' = my(e)
      /\ \A e \in Callers : e # c => pc'[e] = pc[e]
      /\ pc'[c] = "wait"
  BY <1>1 DEF my, TypeOK
<1>3. TypeOK'
  <2>1. \A d \in Domains : flight[d] # "none" => pc'[flight[d]] \in resolving
    BY <1>1, <1>2 DEF TypeOK, resolving
  <2>2. QED
    BY <1>1, <2>1 DEF TypeOK
<1>4. OwnCall' /\ SecondQuestion'
  BY <1>1, <1>2 DEF OwnCall, SecondQuestion, TypeOK
<1>5. Flights'
  <2>1. \A d \in Domains : my(flight[d])' = my(flight[d])
    BY <1>1 DEF my
  <2>2. QED
    BY <1>1, <1>2, <2>1 DEF Flights, resolving
<1>6. \A x, y : Good(x, y) => Good(x, y)'
  BY <1>1 DEF Good
<1>7. GoodFound' /\ GoodCache' /\ GoodReply'
  BY <1>1, <1>2, <1>6 DEF GoodFound, GoodCache, GoodReply, Answered
<1>8. (CallsMade /\ OverReplied /\ FreshUnlessCached /\ CachedFromCache /\ StoredReply)'
  BY <1>1 DEF CallsMade, OverReplied, FreshUnlessCached, CachedFromCache, StoredReply, Answered,
              Stored
<1>9. KeptMaker' /\ StoredFound' /\ KeptIsUsed'
  BY <1>1, <1>2 DEF KeptMaker, StoredFound, Stored, KeptIsUsed
<1>10. QED
  BY <1>3, <1>4, <1>5, <1>7, <1>8, <1>9

\* doResolve goes on, with a good answer or to its second question.
LEMMA GoOnStep ==
  ASSUME IInv, NEW c \in Callers, NEW dst, NEW to \in {"store", "askAgain"},
         pc[c] \in {"ask", "askAgain"}, GoOn(c, dst, to),
         to = "store" => Good(dst, my(c).domain) /\ dst.made = id[c],
         to = "askAgain" => /\ dst = None
                            /\ my(c).mode # Unset /\ ~my(c).mode.only /\ ~my(c).mode.multi
  PROVE  IInv'
<1> USE ResolverAssumption DEF IInv, Calls, config
<1>1. /\ found' = [found EXCEPT ![c] = dst] /\ pc' = [pc EXCEPT ![c] = to]
      /\ UNCHANGED <<useCache, useGroup, cache, flight, n, call, id, reply, over, lost>>
  BY DEF GoOn
<1>2. /\ \A e \in Callers : my(e)' = my(e)
      /\ \A e \in Callers : e # c => pc'[e] = pc[e] /\ found'[e] = found[e]
      /\ pc'[c] = to /\ found'[c] = dst
  BY <1>1 DEF my, TypeOK
<1>3. TypeOK'
  <2>1. dst \in Dsts \cup {None}
    BY DEF Good
  <2>2. found' \in [Callers -> Dsts \cup {None}]
    BY <1>1, <2>1 DEF TypeOK
  <2>3. pc' \in [Callers -> {"idle", "missed", "wait"} \cup resolving]
    BY <1>1 DEF TypeOK, resolving
  <2>4. \A d \in Domains : flight[d] # "none" => pc'[flight[d]] \in resolving
    BY <1>1, <1>2 DEF TypeOK, resolving
  <2>5. QED
    BY <1>1, <2>2, <2>3, <2>4 DEF TypeOK
<1>4. OwnCall'
  BY <1>1, <1>2 DEF OwnCall
<1>5. SecondQuestion'
  BY <1>1, <1>2 DEF SecondQuestion
<1>6. Flights'
  <2>1. \A d \in Domains : my(flight[d])' = my(flight[d])
    BY <1>1 DEF my
  <2>2. QED
    BY <1>1, <1>2, <2>1 DEF Flights, resolving
<1>7. \A x, y : Good(x, y) => Good(x, y)'
  BY <1>1 DEF Good
<1>8. GoodFound'
  <2>1. ASSUME NEW e \in Callers, e # c, pc'[e] \in {"store", "end"}
        PROVE  Good(found[e], my(e).domain)' /\ found'[e].made = id'[e]
    BY <1>1, <1>2, <1>7, <2>1 DEF GoodFound
  <2>2. ASSUME pc'[c] \in {"store", "end"}
        PROVE  Good(found[c], my(c).domain)' /\ found'[c].made = id'[c]
    BY <1>1, <1>2, <1>7, <2>2
  <2>3. QED
    BY <2>1, <2>2 DEF GoodFound
<1>9. GoodCache' /\ GoodReply'
  BY <1>1 DEF GoodCache, GoodReply, Good, Answered
<1>10. (CallsMade /\ OverReplied /\ FreshUnlessCached /\ CachedFromCache /\ StoredReply)'
  BY <1>1 DEF CallsMade, OverReplied, FreshUnlessCached, CachedFromCache, StoredReply, Answered,
              Stored
<1>11. KeptMaker'
  BY <1>1, <1>2 DEF KeptMaker
<1>12. StoredFound'
  BY <1>1, <1>2 DEF StoredFound, Stored
<1>13. KeptIsUsed'
  BY <1>1, <1>2 DEF KeptIsUsed
<1>14. QED
  BY <1>3, <1>4, <1>5, <1>6, <1>8, <1>9, <1>10, <1>11, <1>12, <1>13

\* doResolve returns, with its answer or with an error, to all that share it.
LEMMA ReturnStep ==
  ASSUME IInv, NEW c \in Callers, NEW kind \in {"ok", "error"}, NEW dst,
         pc[c] \in resolving, Return(c, kind, dst),
         kind = "ok" => pc[c] = "end" /\ dst = found[c],
         kind = "error" => pc[c] # "end" /\ dst = None
  PROVE  IInv'
<1> USE ResolverAssumption DEF IInv, Calls, config
<1> DEFINE done == Sharers(c)
           Told(k) == \E j \in done : id[j] = k
<1>1. /\ reply' = [k \in Calls |-> IF Told(k) THEN [kind |-> kind, dst |-> dst] ELSE reply[k]]
      /\ pc' = [j \in Callers |-> IF j \in done THEN "idle" ELSE pc[j]]
      /\ id' = [j \in Callers |-> IF j \in done THEN 0 ELSE id[j]]
      /\ flight' = IF useGroup THEN [flight EXCEPT ![my(c).domain] = "none"] ELSE flight
      /\ found' = [found EXCEPT ![c] = None]
      /\ UNCHANGED <<useCache, useGroup, cache, n, call, over, lost>>
  BY DEF Return
<1>2. pc[c] # "idle" /\ my(c).domain \in Domains /\ id[c] \in Calls
  BY MyCall DEF resolving
<1>3. /\ c \in done /\ done \subseteq Callers
      /\ \A j \in done : /\ pc[j] # "idle" /\ my(j).domain = my(c).domain
                         /\ pc[j] = "wait" \/ j = c
                         /\ id[j] \in Calls /\ reply[id[j]].kind = "none"
                         /\ call[id[j]].domain = my(c).domain
      /\ ~useGroup => done = {c}
  <2>1. c \in done /\ done \subseteq Callers /\ (~useGroup => done = {c})
    BY DEF Sharers
  <2>2. ASSUME NEW j \in done
        PROVE  pc[j] # "idle" /\ my(j).domain = my(c).domain /\ (pc[j] = "wait" \/ j = c)
    BY <1>2, <2>2 DEF Sharers
  <2>3. ASSUME NEW j \in done
        PROVE  id[j] \in Calls /\ reply[id[j]].kind = "none" /\ call[id[j]].domain = my(c).domain
    BY <2>1, <2>2, MyCall DEF OwnCall, my
  <2>4. QED
    BY <2>1, <2>2, <2>3
<1>4. \A e \in Callers : pc'[e] # "idle" =>
        /\ e \notin done /\ pc'[e] = pc[e] /\ id'[e] = id[e] /\ my(e)' = my(e)
        /\ found'[e] = found[e]
  BY <1>1, <1>3 DEF my, TypeOK
<1>5. \A k \in Calls :
        /\ Told(k) => reply[k].kind = "none" /\ reply'[k] = [kind |-> kind, dst |-> dst]
        /\ ~Told(k) => reply'[k] = reply[k]
        /\ reply[k].kind # "none" => reply'[k] = reply[k]
  BY <1>1, <1>3
<1>6. TypeOK'
  <2>1. dst \in Dsts \cup {None}
    BY DEF TypeOK
  <2>2. [kind |-> kind, dst |-> dst] \in [kind: {"none", "cached", "ok", "error"},
                                          dst: Dsts \cup {None}]
    BY <2>1
  <2>3. reply' \in [1..MaxCalls -> [kind: {"none", "cached", "ok", "error"}, dst: Dsts \cup {None}]]
    BY <1>1, <2>2 DEF TypeOK
  <2>4. /\ pc' \in [Callers -> {"idle", "missed", "wait"} \cup resolving]
        /\ found' \in [Callers -> Dsts \cup {None}]
        /\ flight' \in [Domains -> Callers \cup {"none"}]
    BY <1>1, <1>2 DEF TypeOK
  <2>5. id' \in [Callers -> 0..MaxCalls]
    BY <1>1 DEF TypeOK
  <2>6. ASSUME NEW d \in Domains, flight'[d] # "none" PROVE pc'[flight'[d]] \in resolving
    <3>1. flight'[d] = flight[d] /\ flight[d] \in Callers /\ pc[flight[d]] \in resolving
      BY <1>1, <1>2, <2>6 DEF TypeOK
    <3>2. flight[d] \notin done
      BY <1>1, <1>2, <1>3, <2>6, <3>1 DEF Flights, TypeOK, resolving
    <3>3. QED
      BY <1>1, <3>1, <3>2
  <2>7. QED
    BY <1>1, <2>3, <2>4, <2>5, <2>6 DEF TypeOK
<1>7. CallsMade'
  <2>1. \A k \in Calls : Told(k) => k <= n
    BY <1>3 DEF OwnCall, TypeOK
  <2>2. n \in Nat
    BY DEF TypeOK
  <2>3. QED
    BY <1>1, <1>5, <2>1, <2>2 DEF CallsMade
<1>8. OwnCall'
  BY <1>1, <1>3, <1>4, <1>5, MyCall DEF OwnCall
<1>9. SecondQuestion'
  BY <1>4 DEF SecondQuestion
<1>10. Flights'
  <2>1. ASSUME NEW e \in Callers, useGroup, pc'[e] \in resolving
        PROVE  flight'[my(e)'.domain] = e
    <3>1. e \notin done /\ pc[e] \in resolving /\ my(e)' = my(e) /\ flight[my(e).domain] = e
      BY <1>4, <2>1 DEF Flights, resolving
    <3>2. my(e).domain # my(c).domain
      BY <1>3, <2>1, <3>1 DEF Flights
    <3>3. my(e).domain \in Domains
      BY <3>1, MyCall DEF resolving
    <3>4. QED
      BY <1>1, <3>1, <3>2, <3>3 DEF TypeOK
  <2>2. ASSUME NEW d \in Domains, flight'[d] # "none"
        PROVE  useGroup' /\ my(flight[d])'.domain = d
    <3>1. flight'[d] = flight[d] /\ flight[d] \in Callers /\ pc'[flight[d]] \in resolving
      BY <1>1, <1>2, <1>6, <2>2 DEF TypeOK
    <3>2. my(flight[d])' = my(flight[d])
      BY <1>4, <3>1 DEF resolving, my
    <3>3. QED
      BY <1>1, <2>2, <3>1, <3>2 DEF Flights
  <2>3. ASSUME NEW e \in Callers, pc'[e] = "wait" PROVE useGroup'
    BY <1>1, <1>4, <2>3 DEF Flights
  <2>4. QED
    BY <1>1, <2>1, <2>2, <2>3 DEF Flights
<1>11. \A x, y : Good(x, y) => Good(x, y)'
  BY <1>1 DEF Good
<1>12. GoodFound' /\ GoodCache'
  BY <1>1, <1>4, <1>11 DEF GoodFound, GoodCache
<1>13. kind = "ok" => /\ Good(dst, my(c).domain) /\ dst.made = id[c]
                      /\ useCache /\ my(c).keep => Stored(id[c], my(c).domain)
  BY DEF GoodFound, StoredFound
<1>14. GoodReply'
  <2> SUFFICES ASSUME NEW k \in Calls, reply'[k].kind \in {"cached", "ok"}
               PROVE  Good(reply[k].dst, call[k].domain)'
    BY DEF GoodReply, Answered
  <2>1. CASE Told(k)
    <3>1. kind = "ok" /\ reply'[k].dst = dst /\ call'[k].domain = my(c).domain
      BY <1>1, <1>3, <1>5, <2>1
    <3>2. Good(dst, call[k].domain)
      BY <1>1, <1>13, <3>1
    <3>3. QED
      BY <1>1, <3>1, <3>2 DEF Good
  <2>2. CASE ~Told(k)
    BY <1>1, <1>5, <1>11, <2>2 DEF GoodReply, Answered
  <2>3. QED
    BY <2>1, <2>2
<1>15. OverReplied'
  BY <1>1, <1>5 DEF OverReplied, TypeOK
<1>16. FreshUnlessCached'
  <2> SUFFICES ASSUME NEW k \in Calls, reply'[k].kind = "ok"
               PROVE  /\ reply'[k].dst.made \notin over[k]
                      /\ ~useGroup => reply'[k].dst.made = k
    BY <1>1 DEF FreshUnlessCached, Answered
  <2>1. CASE Told(k)
    <3>1. reply'[k].dst.made = id[c] /\ reply[id[c]].kind = "none"
      BY <1>3, <1>5, <1>13, <2>1
    <3>2. QED
      BY <1>3, <2>1, <3>1 DEF OverReplied
  <2>2. CASE ~Told(k)
    BY <1>5, <2>2 DEF FreshUnlessCached, Answered
  <2>3. QED
    BY <2>1, <2>2
<1>17. CachedFromCache'
  BY <1>1, <1>5 DEF CachedFromCache
<1>18. KeptMaker'
  <2> SUFFICES ASSUME NEW d \in Domains, cache[d] # None
               PROVE  /\ call[cache[d].made].keep
                      /\ \/ reply'[cache[d].made].kind = "ok"
                         \/ \E e \in Callers : pc'[e] = "end" /\ id'[e] = cache[d].made
    BY <1>1 DEF KeptMaker
  <2>1. cache[d].made \in Calls
    BY DEF GoodCache, Good, Dsts
  <2>2. CASE reply[cache[d].made].kind = "ok"
    BY <1>5, <2>1, <2>2 DEF KeptMaker
  <2>3. ASSUME NEW e \in Callers, pc[e] = "end", id[e] = cache[d].made
        PROVE  \/ reply'[cache[d].made].kind = "ok"
               \/ \E f \in Callers : pc'[f] = "end" /\ id'[f] = cache[d].made
    <3>1. CASE e \in done
      <4>1. e = c /\ kind = "ok"
        BY <1>3, <2>3, <3>1
      <4>2. QED
        BY <1>3, <1>5, <2>1, <2>3, <4>1
    <3>2. CASE e \notin done
      BY <1>1, <2>3, <3>2
    <3>3. QED
      BY <3>1, <3>2
  <2>4. QED
    BY <2>2, <2>3 DEF KeptMaker
<1>19. StoredFound'
  BY <1>1, <1>4 DEF StoredFound, Stored
<1>20. StoredReply'
  <2> SUFFICES ASSUME NEW k \in Calls, useCache, reply'[k].kind = "ok",
                      call[reply'[k].dst.made].keep
               PROVE  Stored(reply'[k].dst.made, call[k].domain)
    BY <1>1 DEF StoredReply, Stored
  <2>1. CASE Told(k)
    <3>1. kind = "ok" /\ reply'[k].dst.made = id[c] /\ call[k].domain = my(c).domain
      BY <1>3, <1>5, <1>13, <2>1
    <3>2. QED
      BY <1>13, <3>1 DEF my
  <2>2. CASE ~Told(k)
    BY <1>5, <2>2 DEF StoredReply
  <2>3. QED
    BY <2>1, <2>2
<1>21. KeptIsUsed'
  <2> SUFFICES ASSUME NEW e \in Callers, pc'[e] # "idle", useCache, NEW k \in over[id'[e]],
                      reply'[k].kind = "ok", call[k].domain = my(e)'.domain,
                      call[reply'[k].dst.made].keep
               PROVE  reply'[k].dst.made \in lost
    BY <1>1 DEF KeptIsUsed
  <2>1. id'[e] = id[e] /\ my(e)' = my(e) /\ pc[e] # "idle" /\ id[e] \in Calls
    BY <1>4, MyCall
  <2>2. k \in Calls /\ reply'[k] = reply[k]
    BY <1>5, <2>1 DEF OverReplied, TypeOK
  <2>3. QED
    BY <2>1, <2>2 DEF KeptIsUsed
<1>22. QED
  BY <1>6, <1>7, <1>8, <1>9, <1>10, <1>12, <1>14, <1>15, <1>16, <1>17, <1>18, <1>19, <1>20,
     <1>21

\* The answer goes to the cache, and what was there is lost.
LEMMA StoreStep ==
  ASSUME IInv, NEW c \in Callers, Store(c)
  PROVE  IInv'
<1> USE ResolverAssumption DEF IInv, Calls, config
<1> DEFINE domain == my(c).domain
           old == cache[domain]
<1>1. /\ pc[c] = "store" /\ pc' = [pc EXCEPT ![c] = "end"]
      /\ UNCHANGED <<useCache, useGroup, flight, n, call, id, found, reply, over>>
      /\ IF my(c).keep /\ useCache
         THEN cache' = [cache EXCEPT ![domain] = found[c]] /\ lost' = lost \cup ({old.made} \ {0})
         ELSE UNCHANGED <<cache, lost>>
  BY DEF Store
<1>2. domain \in Domains /\ id[c] \in Calls /\ my(c).keep \in BOOLEAN
  BY <1>1, MyCall
<1>3. /\ \A e \in Callers : my(e)' = my(e)
      /\ \A e \in Callers : e # c => pc'[e] = pc[e]
      /\ pc'[c] = "end"
  BY <1>1 DEF my, TypeOK
<1>4. Good(found[c], domain) /\ found[c].made = id[c] /\ found[c] \in Dsts /\ found[c] # None
  <2>1. Good(found[c], domain) /\ found[c].made = id[c]
    BY <1>1 DEF GoodFound
  <2>2. QED
    BY <1>2, <2>1 DEF Good, None
<1>5. old # None => old.made \in Calls
  BY <1>2 DEF GoodCache, Good, Dsts
<1>6. /\ lost \subseteq lost'
      /\ \A d \in Domains : \/ cache'[d] = cache[d]
                            \/ /\ d = domain /\ cache'[d] = found[c]
                               /\ my(c).keep /\ useCache
                               /\ old # None => old.made \in lost'
  <2>1. CASE my(c).keep /\ useCache
    <3>1. old # None => old.made \in {old.made} \ {0}
      BY <1>5
    <3>2. QED
      BY <1>1, <1>2, <2>1, <3>1 DEF TypeOK
  <2>2. CASE ~(my(c).keep /\ useCache)
    BY <1>1, <2>2
  <2>3. QED
    BY <2>1, <2>2
<1>7. TypeOK'
  <2>1. cache' \in [Domains -> Dsts \cup {None}]
    BY <1>1, <1>4 DEF TypeOK
  <2>2. lost' \subseteq Calls
    <3>1. old = None => old.made = 0
      BY DEF None
    <3>2. {old.made} \ {0} \subseteq Calls
      BY <1>5, <3>1
    <3>3. QED
      BY <1>1, <3>2 DEF TypeOK
  <2>3. \A d \in Domains : flight[d] # "none" => pc'[flight[d]] \in resolving
    BY <1>1, <1>3 DEF TypeOK, resolving
  <2>4. pc' \in [Callers -> {"idle", "missed", "wait"} \cup resolving]
    BY <1>1 DEF TypeOK, resolving
  <2>5. QED
    BY <1>1, <2>1, <2>2, <2>3, <2>4 DEF TypeOK
<1>8. OwnCall' /\ SecondQuestion'
  BY <1>1, <1>3 DEF OwnCall, SecondQuestion
<1>9. Flights'
  <2>1. \A d \in Domains : my(flight[d])' = my(flight[d])
    BY <1>1 DEF my
  <2>2. QED
    BY <1>1, <1>3, <2>1 DEF Flights, resolving
<1>10. \A x, y : Good(x, y) => Good(x, y)'
  BY <1>1 DEF Good
<1>11. GoodFound' /\ GoodReply'
  BY <1>1, <1>3, <1>10 DEF GoodFound, GoodReply, Answered
<1>12. GoodCache'
  <2> SUFFICES ASSUME NEW d \in Domains, cache'[d] # None PROVE Good(cache'[d], d)
    BY <1>1 DEF GoodCache, Good
  <2>1. QED
    BY <1>4, <1>6 DEF GoodCache
<1>13. (CallsMade /\ OverReplied /\ FreshUnlessCached /\ CachedFromCache)'
  BY <1>1 DEF CallsMade, OverReplied, FreshUnlessCached, CachedFromCache, Answered
<1>14. KeptMaker'
  <2> SUFFICES ASSUME NEW d \in Domains, cache'[d] # None
               PROVE  /\ call[cache'[d].made].keep
                      /\ \/ reply[cache'[d].made].kind = "ok"
                         \/ \E e \in Callers : pc'[e] = "end" /\ id[e] = cache'[d].made
    BY <1>1 DEF KeptMaker
  <2>1. CASE cache'[d] = cache[d]
    BY <1>1, <1>3, <2>1 DEF KeptMaker
  <2>2. CASE cache'[d] # cache[d]
    BY <1>3, <1>4, <1>6, <2>2 DEF my
  <2>3. QED
    BY <2>1, <2>2
<1>15. \A d \in Domains : \A k \in Calls : Stored(k, d) => Stored(k, d)'
  BY <1>6 DEF Stored
<1>16. StoredFound'
  <2> SUFFICES ASSUME NEW e \in Callers, useCache, pc'[e] = "end", my(e).keep
               PROVE  Stored(id[e], my(e).domain)'
    BY <1>1, <1>3 DEF StoredFound
  <2>1. CASE e = c
    <3>1. cache'[domain] = found[c]
      BY <1>1, <1>2, <2>1 DEF TypeOK
    <3>2. my(c)' = my(c) /\ id' = id
      BY <1>1, <1>3
    <3>3. QED
      BY <1>4, <2>1, <3>1, <3>2 DEF Stored
  <2>2. CASE e # c
    <3>1. pc[e] = "end" /\ my(e)' = my(e) /\ id' = id
      BY <1>1, <1>3, <2>2
    <3>2. id[e] \in Calls /\ my(e).domain \in Domains
      BY <3>1, MyCall
    <3>3. Stored(id[e], my(e).domain)
      BY <3>1 DEF StoredFound
    <3>4. QED
      BY <1>15, <3>1, <3>2, <3>3 DEF Stored
  <2>3. QED
    BY <2>1, <2>2
<1>17. StoredReply'
  <2> SUFFICES ASSUME NEW k \in Calls, useCache, reply[k].kind = "ok",
                      call[reply[k].dst.made].keep
               PROVE  Stored(reply[k].dst.made, call[k].domain)'
    BY <1>1 DEF StoredReply
  <2>1. Good(reply[k].dst, call[k].domain)
    BY DEF GoodReply, Answered
  <2>2. reply[k].dst.made \in Calls
    BY <2>1 DEF Good, Dsts
  <2>3. k <= n
    BY DEF CallsMade, noReply, TypeOK
  <2>4. call[k].domain \in Domains
    BY <2>3 DEF CallsMade
  <2>5. Stored(reply[k].dst.made, call[k].domain)
    BY DEF StoredReply
  <2>6. QED
    BY <1>1, <1>15, <2>2, <2>4, <2>5 DEF Stored
<1>18. KeptIsUsed'
  BY <1>1, <1>3, <1>6 DEF KeptIsUsed
<1>19. QED
  BY <1>7, <1>8, <1>9, <1>11, <1>12, <1>13, <1>14, <1>16, <1>17, <1>18

\* An entry leaves the cache, and is remembered as lost.
LEMMA ExpireStep ==
  ASSUME IInv, NEW x \in Domains, Expire(x)
  PROVE  IInv'
<1> USE ResolverAssumption DEF IInv, Calls, config
<1>1. /\ cache[x] # None /\ cache' = [cache EXCEPT ![x] = None]
      /\ lost' = lost \cup {cache[x].made}
      /\ UNCHANGED <<useCache, useGroup, flight, n, call, pc, id, found, reply, over>>
  BY DEF Expire
<1>2. /\ \A d \in Domains : \/ cache'[d] = cache[d]
                            \/ d = x /\ cache'[d] = None
      /\ cache[x].made \in Calls
  BY <1>1 DEF TypeOK, GoodCache, Good, Dsts
<1>3. TypeOK'
  <2>1. cache' \in [Domains -> Dsts \cup {None}]
    BY <1>1 DEF TypeOK
  <2>2. lost' \subseteq Calls
    BY <1>1, <1>2 DEF TypeOK
  <2>3. QED
    BY <1>1, <2>1, <2>2 DEF TypeOK
<1>4. (OwnCall /\ SecondQuestion /\ Flights /\ GoodFound /\ GoodReply)'
  <2>1. OwnCall'
    BY <1>1 DEF OwnCall
  <2>2. SecondQuestion'
    BY <1>1 DEF SecondQuestion, my
  <2>3. Flights'
    BY <1>1 DEF Flights, my
  <2>4. GoodFound'
    BY <1>1 DEF GoodFound, Good, Answered, my
  <2>5. GoodReply'
    BY <1>1 DEF GoodReply, Good, Answered, my
  <2>6. QED
    BY <2>1, <2>2, <2>3, <2>4, <2>5
<1>5. (CallsMade /\ OverReplied /\ FreshUnlessCached /\ CachedFromCache)'
  BY <1>1 DEF CallsMade, OverReplied, FreshUnlessCached, CachedFromCache, Answered
<1>6. GoodCache' /\ KeptMaker'
  BY <1>1, <1>2 DEF GoodCache, Good, KeptMaker
<1>7. \A k, d : (d \in Domains /\ Stored(k, d)) => Stored(k, d)'
  BY <1>1, <1>2 DEF Stored
<1>8. StoredFound'
  <2> SUFFICES ASSUME NEW e \in Callers, useCache, pc[e] = "end", my(e).keep
               PROVE  Stored(id[e], my(e).domain)'
    BY <1>1 DEF StoredFound, my
  <2>1. my(e).domain \in Domains /\ Stored(id[e], my(e).domain)
    BY MyCall DEF StoredFound
  <2>2. my(e)' = my(e)
    BY <1>1 DEF my
  <2>3. QED
    BY <1>1, <1>7, <2>1, <2>2 DEF Stored
<1>9. StoredReply'
  <2> SUFFICES ASSUME NEW k \in Calls, useCache, reply[k].kind = "ok",
                      call[reply[k].dst.made].keep
               PROVE  Stored(reply[k].dst.made, call[k].domain)'
    BY <1>1 DEF StoredReply
  <2>1. k <= n
    BY DEF CallsMade, noReply, TypeOK
  <2>2. call[k].domain \in Domains /\ Stored(reply[k].dst.made, call[k].domain)
    BY <2>1 DEF CallsMade, StoredReply
  <2>3. QED
    BY <1>1, <1>7, <2>2 DEF Stored
<1>10. KeptIsUsed'
  BY <1>1 DEF KeptIsUsed, my
<1>11. QED
  BY <1>3, <1>4, <1>5, <1>6, <1>8, <1>9, <1>10

----
\* There are two families.
LEMMA OtherFamily ==
  ASSUME NEW f \in Families
  PROVE  Other(f) \in Families
<1>1. \E g \in Families : g # f
  BY DEF Families, v4, v6
<1>2. QED
  BY <1>1 DEF Other

\* A Dst made of addresses of the right family is good.
LEMMA NewDstGood ==
  ASSUME IInv, NEW c \in Callers, pc[c] # "idle", NEW has \in SUBSET Families,
         (my(c).mode # Unset /\ (my(c).mode.only \/ my(c).mode.multi)) =>
           has \subseteq {my(c).mode.first},
         (my(c).mode # Unset /\ ~my(c).mode.multi) => \E f \in Families : has = {f}
  PROVE  Good(newDst(c, has), my(c).domain) /\ newDst(c, has).made = id[c]
<1>1. id[c] \in Calls /\ id[c] <= n /\ my(c).mode \in DNSModes
  BY MyCall
<1>2. my(c).mode.multi \in BOOLEAN
  <2>1. CASE my(c).mode = Unset
    BY <2>1 DEF Unset
  <2>2. CASE my(c).mode # Unset
    BY <1>1, <2>2 DEF DNSModes
  <2>3. QED
    BY <2>1, <2>2
<1>3. newDst(c, has) \in Dsts
  BY <1>1, <1>2 DEF newDst, Dsts, Calls
<1>4. (my(c).mode # Unset /\ ~my(c).mode.multi) => Cardinality(has) = 1
  BY FS_Singleton
<1>5. QED
  BY <1>1, <1>3, <1>4 DEF Good, newDst, my

\* doResolve on its first answer.
LEMMA doResolveStep ==
  ASSUME IInv, NEW c \in Callers, doResolve(c)
  PROVE  IInv'
<1> DEFINE mode == my(c).mode
<1>1. pc[c] = "ask" /\ pc[c] # "idle" /\ pc[c] \in resolving /\ pc[c] # "end"
  BY DEF doResolve, resolving
<1>2. mode \in DNSModes
  BY <1>1, MyCall
<1>3. mode # Unset => mode.first \in Families
  BY <1>2 DEF DNSModes
<1>4. PICK ans \in SUBSET Families :
        IF mode = Unset THEN GoOn(c, newDst(c, {}), "store")
        ELSE IF mode.multi THEN resolveMulti(c, ans)
        ELSE resolveSingle(c, ans)
  BY DEF doResolve
<1>5. CASE mode = Unset
  <2>1. Good(newDst(c, {}), my(c).domain) /\ newDst(c, {}).made = id[c]
    BY <1>1, <1>5, NewDstGood
  <2>2. QED
    BY <1>1, <1>4, <1>5, <2>1, GoOnStep
<1>6. CASE mode # Unset /\ mode.multi
  <2>1. /\ Good(newDst(c, ans \cap {mode.first}), my(c).domain)
        /\ newDst(c, ans \cap {mode.first}).made = id[c]
    BY <1>1, <1>6, NewDstGood
  <2>2. QED
    BY <1>1, <1>4, <1>6, <2>1, GoOnStep DEF resolveMulti
<1>7. CASE mode # Unset /\ ~mode.multi
  <2>1. CASE mode.first \in ans
    <3>1. /\ Good(newDst(c, {mode.first}), my(c).domain)
          /\ newDst(c, {mode.first}).made = id[c]
      BY <1>1, <1>3, <1>7, NewDstGood
    <3>2. QED
      BY <1>1, <1>4, <1>7, <2>1, <3>1, GoOnStep DEF resolveSingle
  <2>2. CASE mode.first \notin ans /\ mode.only
    BY <1>1, <1>4, <1>7, <2>2, ReturnStep DEF resolveSingle, Fail
  <2>3. CASE mode.first \notin ans /\ ~mode.only
    BY <1>1, <1>4, <1>7, <2>3, GoOnStep DEF resolveSingle
  <2>4. QED
    BY <2>1, <2>2, <2>3
<1>8. QED
  BY <1>5, <1>6, <1>7

\* resolveSingle on the answer to its second question.
LEMMA resolveSingleAgainStep ==
  ASSUME IInv, NEW c \in Callers, resolveSingleAgain(c)
  PROVE  IInv'
<1> DEFINE mode == my(c).mode
           f == Other(mode.first)
<1>1. /\ pc[c] = "askAgain" /\ pc[c] # "idle" /\ pc[c] \in resolving /\ pc[c] # "end"
      /\ mode # Unset /\ ~mode.only /\ ~mode.multi
  BY DEF resolveSingleAgain, resolving, IInv, SecondQuestion
<1>2. mode \in DNSModes
  BY <1>1, MyCall
<1>3. f \in Families
  BY <1>1, <1>2, OtherFamily DEF DNSModes
<1>4. GoOn(c, newDst(c, {f}), "store") \/ Fail(c)
  BY DEF resolveSingleAgain
<1>5. Good(newDst(c, {f}), my(c).domain) /\ newDst(c, {f}).made = id[c]
  BY <1>1, <1>3, NewDstGood
<1>6. CASE GoOn(c, newDst(c, {f}), "store")
  BY <1>1, <1>5, <1>6, GoOnStep
<1>7. CASE Fail(c)
  BY <1>1, <1>7, ReturnStep DEF Fail
<1>8. QED
  BY <1>4, <1>6, <1>7

\* Every step of the resolver.
LEMMA NextStep == IInv /\ [Next]_vars => IInv'
<1> SUFFICES ASSUME IInv, [Next]_vars PROVE IInv'
  OBVIOUS
<1>1. ASSUME NEW c \in Callers, Resolve(c) PROVE IInv'
  BY <1>1, ResolveStep
<1>2. ASSUME NEW c \in Callers, Step(c) PROVE IInv'
  <2>1. CASE Lead(c) \/ Join(c) \/ Store(c)
    BY <2>1, LeadStep, JoinStep, StoreStep
  <2>2. CASE ExchangeFails(c)
    BY <2>2, ReturnStep DEF ExchangeFails, Fail, resolving
  <2>3. CASE doResolve(c) \/ resolveSingleAgain(c)
    BY <2>3, doResolveStep, resolveSingleAgainStep
  <2>4. CASE End(c)
    BY <2>4, ReturnStep DEF End, resolving
  <2>5. QED
    BY <1>2, <2>1, <2>2, <2>3, <2>4 DEF Step
<1>3. ASSUME NEW d \in Domains, Expire(d) PROVE IInv'
  BY <1>3, ExpireStep
<1>4. CASE UNCHANGED vars
  <2> USE <1>4 DEF vars, IInv
  <2>1. (TypeOK /\ CallsMade /\ OwnCall /\ Flights /\ SecondQuestion)'
    BY DEF TypeOK, CallsMade, OwnCall, Flights, SecondQuestion, my
  <2>2. (GoodFound /\ GoodCache /\ GoodReply)'
    BY DEF GoodFound, GoodCache, GoodReply, Good, Answered, my
  <2>3. (OverReplied /\ FreshUnlessCached /\ CachedFromCache)'
    BY DEF OverReplied, FreshUnlessCached, CachedFromCache, Answered
  <2>4. (KeptMaker /\ StoredFound /\ StoredReply /\ KeptIsUsed)'
    BY DEF KeptMaker, StoredFound, StoredReply, KeptIsUsed, Stored, my
  <2>5. QED
    BY <2>1, <2>2, <2>3, <2>4
<1>5. QED
  BY <1>1, <1>2, <1>3, <1>4 DEF Next

\* The invariant behind the three properties.
THEOREM Inductive == Spec => []IInv
  BY InitIInv, NextStep, PTL DEF Spec

\* Whoever an answer comes from, it was made for the domain that was asked for and is
\* what the mode of the call that made it allows, for any number of goroutines and calls.
THEOREM AnswersExplained == Spec => []AnswerExplained
<1>1. IInv => AnswerExplained
  BY DEF IInv, AnswerExplained, GoodReply, Good
<1>2. QED
  BY <1>1, Inductive, PTL

\* An answer that is not from the cache is made by a call that had not ended when the
\* caller asked.
THEOREM AnswersFresh == Spec => []FreshUnlessCached
  BY Inductive, PTL DEF IInv

\* A kept answer is used until it leaves the cache, and the cache holds nothing else.
THEOREM KeptAnswersUsed == Spec => []KeptAnswerIsUsed
<1>1. IInv => OnlyKept
  <2> SUFFICES ASSUME IInv PROVE OnlyKept
    OBVIOUS
  <2>1. ASSUME NEW d \in Domains, cache[d] # None
        PROVE  /\ call[cache[d].made].domain = d /\ call[cache[d].made].keep
               /\ reply[cache[d].made].kind # "error"
    <3>1. call[cache[d].made].domain = d /\ call[cache[d].made].keep
      BY <2>1 DEF IInv, GoodCache, Good, KeptMaker
    <3>2. reply[cache[d].made].kind \in {"ok", "none"}
      BY <2>1 DEF IInv, KeptMaker, OwnCall
    <3>3. QED
      BY <3>1, <3>2
  <2>2. \A k \in Answered : reply[k].kind = "cached" => useCache
    BY DEF IInv, CachedFromCache, Answered
  <2>3. QED
    BY <2>1, <2>2 DEF OnlyKept
<1>2. IInv => KeptAnswerIsUsed
  BY <1>1 DEF IInv, KeptIsUsed, KeptAnswerIsUsed
<1>3. QED
  BY <1>2, Inductive, PTL
====
