---- MODULE PolicyProofs ----
(***************************************************************************)
(* Proofs about Routes, for any addresses, any files and anything asked    *)
(* for: Merge and Build make of the files what their reader expects, and   *)
(* genPolicy and genDoHDialFunc do with it what they promise.              *)
(*                                                                         *)
(* The first part is about the policies and takes the tables as they are.  *)
(* The second part is about the tries: what an insertion adds to them, and *)
(* what the lookups find in them.  The third part follows the files.       *)
(***************************************************************************)
EXTENDS Routes, SequenceTheorems, WellFoundedInduction, NaturalsInduction, TLAPS

\* What mergePolicies returns.
MergedPolicy == [mode: Modes \cup {"default"}, host: AnyHost, mapTo: MapTos]

----
\* The policy of a domain, and the Dst that decides about it.
DomainPolicy == IF domain = NoPolicy THEN default ELSE mergePolicies(domain, default)
Decides(h) == IF Blank(h) /\ hosts # NoHost THEN hosts ELSE h

\* The policy of the address in a DoH server's URL.
AddrPolicy(ip) ==
  IF getIPPolicy(ip) = NoPolicy THEN default ELSE mergePolicies(getIPPolicy(ip), default)

AtStart ==
  pc \in {"load", "start", "doh"} => host = ZeroHost /\ p = NoPolicy /\ addr = "none"

\* genPolicy for a domain.
AtDomain ==
  (pc \in {"host", "resolve", "word"} \/ (pc = "redirect" /\ ~isIP)) =>
    /\ ~isIP /\ domain.mode # "block" /\ p = DomainPolicy
    /\ pc \in {"host", "resolve"} => addr = "none"
    /\ pc = "host" => host = p.host
    /\ pc # "host" => /\ host = Decides(p.host) /\ ~host.multi
                      /\ stopIfNone => ~Blank(p.host) \/ hosts # NoHost
    /\ pc \in {"word", "redirect"} => /\ addr \in Addrs \cup {"name", "empty"}
                                      /\ host.single \in Addrs => addr = host.single
    /\ pc = "redirect" => ~host.keep

\* genPolicy for an address.
AtAddr == (pc = "redirect" /\ isIP) => host = ZeroHost /\ p = NoPolicy /\ addr \in Addrs

\* The function genDoHDialFunc returns, before it is called.
AtDial ==
  pc = "dial" =>
    /\ p.mode \notin Refusing /\ addr # "none"
    /\ addr = "pool" => ~host.multi
    /\ host.single = "pool" => addr = "pool"
    /\ ~isIP => p = DomainPolicy
    /\ isIP => host.single \in Addrs /\ p = AddrPolicy(host.single)

\* Nothing is returned before the end.
Unanswered == pc \notin {"done", "dialed"} => result = noResult

IInv ==
  /\ Tables /\ AtStart /\ AtDomain /\ AtAddr /\ AtDial /\ Unanswered
  /\ BlockRespected /\ MostSpecificWins /\ DestinationRight /\ DoHPolicyRight

----
(* Operators. *)

\* A policy sets the mode, or not.
Sets(a) == a.mode \notin {"unset", "none"}

\* The mode of two policies and of three.
LEMMA ChosenOfTwo ==
  ASSUME NEW a, NEW e
  PROVE  Chosen(<<a, e>>) = IF Sets(a) THEN a.mode ELSE IF Sets(e) THEN e.mode ELSE "unset"
<1> DEFINE c == <<a, e>>
           set == {i \in DOMAIN c : c[i].mode \notin {"unset", "none"}}
           first == CHOOSE i \in set : \A j \in set : i <= j
<1>1. DOMAIN c = {1, 2} /\ c[1] = a /\ c[2] = e
  OBVIOUS
<1>2. set = {i \in {1, 2} : c[i].mode \notin {"unset", "none"}}
  BY <1>1
<1>3. Chosen(c) = IF set = {} THEN "unset" ELSE c[first].mode
  BY DEF Chosen
<1> HIDE DEF c, set, first
<1>4. (1 \in set <=> Sets(a)) /\ (2 \in set <=> Sets(e)) /\ \A i \in set : i \in {1, 2}
  BY <1>1, <1>2 DEF Sets
<1>5. CASE Sets(a)
  <2>1. first \in set /\ \A j \in set : first <= j
    BY <1>4, <1>5 DEF first
  <2>2. first = 1
    BY <1>4, <1>5, <2>1
  <2> QED
    BY <1>1, <1>3, <1>4, <1>5, <2>2 DEF c
<1>6. CASE ~Sets(a) /\ Sets(e)
  <2>1. first \in set /\ \A j \in set : first <= j
    BY <1>4, <1>6 DEF first
  <2>2. first = 2
    BY <1>4, <1>6, <2>1
  <2> QED
    BY <1>1, <1>3, <1>4, <1>6, <2>2 DEF c
<1>7. CASE ~Sets(a) /\ ~Sets(e)
  BY <1>3, <1>4, <1>7 DEF c
<1> QED
  BY <1>5, <1>6, <1>7

\* The same for three policies.
LEMMA ChosenOfThree ==
  ASSUME NEW a, NEW e, NEW d
  PROVE  Chosen(<<a, e, d>>) = IF Sets(a) THEN a.mode ELSE IF Sets(e) THEN e.mode
                               ELSE IF Sets(d) THEN d.mode ELSE "unset"
<1> DEFINE c == <<a, e, d>>
           set == {i \in DOMAIN c : c[i].mode \notin {"unset", "none"}}
           first == CHOOSE i \in set : \A j \in set : i <= j
<1>1. DOMAIN c = {1, 2, 3} /\ c[1] = a /\ c[2] = e /\ c[3] = d
  OBVIOUS
<1>2. set = {i \in {1, 2, 3} : c[i].mode \notin {"unset", "none"}}
  BY <1>1
<1>3. Chosen(c) = IF set = {} THEN "unset" ELSE c[first].mode
  BY DEF Chosen
<1> HIDE DEF c, set, first
<1>4. /\ (1 \in set <=> Sets(a)) /\ (2 \in set <=> Sets(e)) /\ (3 \in set <=> Sets(d))
      /\ \A i \in set : i \in {1, 2, 3}
  BY <1>1, <1>2 DEF Sets
<1>5. CASE Sets(a)
  <2>1. first \in set /\ \A j \in set : first <= j
    BY <1>4, <1>5 DEF first
  <2>2. first = 1
    BY <1>4, <1>5, <2>1
  <2> QED
    BY <1>1, <1>3, <1>4, <1>5, <2>2 DEF c
<1>6. CASE ~Sets(a) /\ Sets(e)
  <2>1. first \in set /\ \A j \in set : first <= j
    BY <1>4, <1>6 DEF first
  <2>2. first = 2
    BY <1>4, <1>6, <2>1
  <2> QED
    BY <1>1, <1>3, <1>4, <1>6, <2>2 DEF c
<1>7. CASE ~Sets(a) /\ ~Sets(e) /\ Sets(d)
  <2>1. first \in set /\ \A j \in set : first <= j
    BY <1>4, <1>7 DEF first
  <2>2. first = 3
    BY <1>4, <1>7, <2>1
  <2> QED
    BY <1>1, <1>3, <1>4, <1>7, <2>2 DEF c
<1>8. CASE ~Sets(a) /\ ~Sets(e) /\ ~Sets(d)
  BY <1>3, <1>4, <1>8 DEF c
<1> QED
  BY <1>5, <1>6, <1>7, <1>8

\* mergePolicies of two: the first mode set, the first host set.
LEMMA Merging ==
  ASSUME NEW a \in AnyPolicy, NEW e \in AnyPolicy
  PROVE  /\ mergePolicies(a, e) \in MergedPolicy
         /\ mergePolicies(a, e).mode =
              IF Sets(a) THEN a.mode ELSE IF Sets(e) THEN e.mode ELSE "default"
<1> DEFINE o == Over(a, e)
<1>1. o \in AnyPolicy
  BY DEF Over, AnyPolicy
<1>2. o.mode = IF Sets(a) THEN a.mode ELSE e.mode
  BY DEF Over, Sets, AnyPolicy, Modes
<1>3. mergePolicies(a, e) = [o EXCEPT !.mode = IF @ = "unset" THEN "default" ELSE @]
  BY DEF mergePolicies, withDefaults
<1> HIDE DEF o
<1>4. mergePolicies(a, e) \in MergedPolicy
      /\ mergePolicies(a, e).mode = IF o.mode = "unset" THEN "default" ELSE o.mode
  BY <1>1, <1>3 DEF AnyPolicy, MergedPolicy
<1> QED
  BY <1>2, <1>4 DEF Sets, AnyPolicy, Modes

\* mergePolicies of three.
LEMMA MergingThree ==
  ASSUME NEW a \in AnyPolicy, NEW e \in AnyPolicy, NEW d \in AnyPolicy
  PROVE  /\ mergePolicies3(a, e, d) \in MergedPolicy
         /\ mergePolicies3(a, e, d).mode =
              IF Sets(a) THEN a.mode ELSE IF Sets(e) THEN e.mode
              ELSE IF Sets(d) THEN d.mode ELSE "default"
<1> DEFINE o == Over(a, e)
<1>1. o \in AnyPolicy
  BY DEF Over, AnyPolicy
<1>2. o.mode = IF Sets(a) THEN a.mode ELSE e.mode
  BY DEF Over, Sets, AnyPolicy, Modes
<1>3. mergePolicies3(a, e, d) = mergePolicies(o, d)
  BY DEF mergePolicies, mergePolicies3
<1> HIDE DEF o
<1>4. /\ mergePolicies(o, d) \in MergedPolicy
      /\ mergePolicies(o, d).mode =
           IF Sets(o) THEN o.mode ELSE IF Sets(d) THEN d.mode ELSE "default"
  BY <1>1, Merging
<1> QED
  BY <1>2, <1>3, <1>4 DEF Sets, AnyPolicy, Modes

\* The mode a connection is served with, and the one its chain of policies asks for.
Right(pol, chain) ==
  pol.mode = IF Chosen(chain) = "unset" /\ pol # default THEN "default" ELSE Chosen(chain)

\* The chains of two: of a domain, or of an address.
LEMMA TwoRight ==
  ASSUME Tables, NEW a \in AnyPolicy \cup {NoPolicy}, NEW q,
         q = IF a = NoPolicy THEN default ELSE mergePolicies(a, default)
  PROVE  /\ q \in MergedPolicy /\ Right(q, <<a, default>>)
         /\ Chosen(<<a, default>>) = IF Sets(a) THEN a.mode ELSE default.mode
<1>1. default \in AnyPolicy /\ default \in MergedPolicy /\ default.mode # "default"
  BY DEF Tables, AnyPolicy, MergedPolicy, Modes
<1>2. Chosen(<<a, default>>) = IF Sets(a) THEN a.mode ELSE default.mode
  BY <1>1, ChosenOfTwo DEF Sets, AnyPolicy, Modes
<1>3. CASE a = NoPolicy
  BY <1>1, <1>2, <1>3 DEF NoPolicy, Sets, Right
<1>4. CASE a # NoPolicy
  <2>1. /\ q \in MergedPolicy
        /\ q.mode = IF Sets(a) THEN a.mode ELSE IF Sets(default) THEN default.mode ELSE "default"
    BY <1>1, <1>4, Merging
  <2> QED
    BY <1>1, <1>2, <1>4, <2>1 DEF Sets, Right, AnyPolicy, Modes
<1> QED
  BY <1>3, <1>4

\* The chain of three: of a domain, the address it led to, and the default.
LEMMA ThreeRight ==
  ASSUME Tables, NEW a \in AnyPolicy, NEW q,
         q = IF domain = NoPolicy THEN mergePolicies(a, default)
             ELSE mergePolicies3(domain, a, default)
  PROVE  /\ q \in MergedPolicy /\ Right(q, <<domain, a, default>>)
         /\ q.mode # "default" => q.mode = Chosen(<<domain, a, default>>)
         /\ q.mode = "default" => Chosen(<<domain, a, default>>) = "unset"
<1>1. default \in AnyPolicy /\ default.mode # "default"
  BY DEF Tables, AnyPolicy, Modes
<1>2. Chosen(<<domain, a, default>>) =
        IF Sets(domain) THEN domain.mode ELSE IF Sets(a) THEN a.mode ELSE default.mode
  BY <1>1, ChosenOfThree DEF Sets, AnyPolicy, Modes
<1>3. /\ q \in MergedPolicy
      /\ q.mode = IF Sets(domain) THEN domain.mode ELSE IF Sets(a) THEN a.mode
                  ELSE IF Sets(default) THEN default.mode ELSE "default"
  <2>1. CASE domain = NoPolicy
    BY <1>1, <2>1, Merging DEF NoPolicy, Sets
  <2>2. CASE domain # NoPolicy
    <3>1. domain \in AnyPolicy
      BY <2>2 DEF Tables
    <3> QED
      BY <1>1, <2>2, <3>1, MergingThree
  <2> QED
    BY <2>1, <2>2
<1>4. domain.mode # "default" /\ a.mode # "default"
  BY DEF Tables, AnyPolicy, NoPolicy, Modes
<1> QED
  BY <1>1, <1>2, <1>3, <1>4 DEF Sets, Right, AnyPolicy, Modes

\* Where ipRedirect leads to.
LEMMA MappedTo ==
  ASSUME Tables, NEW word \in Addrs, getIPPolicy(word) # NoPolicy
  PROVE  /\ getIPPolicy(word) \in AnyPolicy
         /\ Mapped(word) \subseteq Addrs \cup {"many", "none"}
<1>1. getIPPolicy(word) \in AnyPolicy
  BY DEF getIPPolicy, Tables
<1>2. getIPPolicy(word).mapTo \in MapTos
  BY <1>1 DEF AnyPolicy
<1> QED
  BY <1>1, <1>2, PolicyAssumption DEF Mapped, MapTos

\* Where preMapIP leads to.
LEMMA PreMapped ==
  ASSUME NEW ip \in Addrs, NEW m \in MapTos
  PROVE  preMapIP(ip, m) \subseteq Addrs \cup {"many", "network", "none", "pool", "empty"}
  BY PolicyAssumption DEF preMapIP, MapTos

\* A Dst of the configuration.
LEMMA HostKinds ==
  ASSUME NEW h \in AnyHost
  PROVE  /\ h.multi => h.single = "many" /\ ~h.keep
         /\ ~h.multi => h.single \in Words \cup {"zero"}
         /\ Blank(h) => ~h.multi /\ h.single \notin Addrs
<1>1. \/ h \in [multi: {FALSE}, keep: BOOLEAN, single: Words]
      \/ h = [multi |-> TRUE, keep |-> FALSE, single |-> "many"]
      \/ h = [multi |-> FALSE, keep |-> FALSE, single |-> "zero"]
  BY DEF AnyHost, Hosts, ZeroHost
<1>2. CASE h \in [multi: {FALSE}, keep: BOOLEAN, single: Words]
  <2>1. h.multi = FALSE /\ h.keep \in BOOLEAN /\ h.single \in Words
    BY <1>2
  <2> QED
    BY <2>1, PolicyAssumption DEF Words, Blank
<1>3. CASE h = [multi |-> TRUE, keep |-> FALSE, single |-> "many"]
  BY <1>3 DEF Blank
<1>4. CASE h = [multi |-> FALSE, keep |-> FALSE, single |-> "zero"]
  <2>1. h.multi = FALSE /\ h.keep = FALSE /\ h.single = "zero"
    BY <1>4
  <2>2. "zero" \notin Addrs
    BY PolicyAssumption
  <2> QED
    BY <2>1, <2>2 DEF Blank
<1> QED
  BY <1>1, <1>2, <1>3, <1>4

----
(* genPolicy. *)

\* A return: what is left to show is that the verdict is right.
LEMMA Returning ==
  ASSUME IInv, NEW kind \in {"serve", "failed", "blocked", "notFound", "panic"}, NEW dst \in Dsts,
         NEW pol, Return(kind, dst, pol), kind = "serve" <=> dst # "none",
         kind = "blocked" => Chosen(Chain) = "block",
         kind = "serve" =>
           /\ Right(pol, Chain)
           /\ Chosen(Chain) = "block" =>
                ~isIP /\ domain.mode \in {"none", "unset"} /\ Len(Chain) = 2
           /\ (~isIP /\ ~Blank(p.host)) => host = p.host
           /\ (~isIP /\ Blank(p.host) /\ hosts \in Hosts /\ ~hosts.multi) => host = hosts
           /\ (host.keep /\ host.single \in Addrs) => dst = host.single
  PROVE  IInv'
<1>1. /\ pc' = "done" /\ result' = [kind |-> kind, dst |-> dst, p |-> pol]
      /\ UNCHANGED <<isIP, stopIfNone, default, domain, ipPolicy, hosts, host, p, addr>>
  BY DEF Return, config
<1>2. result'.kind = kind /\ result'.dst = dst /\ result'.p = pol
  BY <1>1
<1>3. Chain' = Chain /\ Chosen(Chain)' = Chosen(Chain)
  <2>1. Chain' = Chain
    BY <1>1 DEF Chain, getIPPolicy
  <2> QED
    BY <2>1 DEF Chosen
<1>4. Tables' /\ AtStart' /\ AtDomain' /\ AtAddr' /\ AtDial' /\ Unanswered' /\ DoHPolicyRight'
  BY <1>1 DEF IInv, Tables, AtStart, AtDomain, AtAddr, AtDial, Unanswered, DoHPolicyRight
<1>5. BlockRespected'
  BY <1>1, <1>2, <1>3 DEF BlockRespected, Served
<1>6. MostSpecificWins'
  BY <1>1, <1>2, <1>3 DEF MostSpecificWins, Served, Right
<1>7. TypeOK'
  BY <1>1, <1>2, <1>4 DEF IInv, DestinationRight, TypeOK
<1>8. DestinationRight'
  BY <1>1, <1>2, <1>7 DEF DestinationRight, Served, Blank
<1> QED
  BY <1>4, <1>5, <1>6, <1>8 DEF IInv

\* A return without a connection.
LEMMA Failing ==
  ASSUME IInv, NEW kind \in {"failed", "notFound", "panic"}, Return(kind, "none", NoPolicy)
  PROVE  IInv'
  BY Returning DEF Dsts

\* genPolicy for a domain is at work.
OnDomain == pc \in {"host", "resolve", "word"} \/ (pc = "redirect" /\ ~isIP)

\* A domain is served under its own policy, when no IP policy has been looked at or none
\* applies.
LEMMA DomainServed ==
  ASSUME IInv, OnDomain, NEW dst \in Dsts, dst # "none", Serve(dst),
         getIPPolicy(addr) = NoPolicy \/ host.keep,
         ~Blank(p.host) => host = p.host,
         (Blank(p.host) /\ hosts \in Hosts /\ ~hosts.multi) => host = hosts,
         (host.keep /\ host.single \in Addrs) => dst = host.single
  PROVE  IInv'
<1>1. ~isIP /\ domain.mode # "block" /\ p = DomainPolicy /\ Tables
  BY DEF IInv, AtDomain, OnDomain
<1>2. Chain = <<domain, default>> /\ Len(Chain) = 2
  BY DEF Chain
<1>3. domain \in AnyPolicy \cup {NoPolicy}
  BY <1>1 DEF Tables
<1>4. Right(p, <<domain, default>>)
      /\ Chosen(<<domain, default>>) = IF Sets(domain) THEN domain.mode ELSE default.mode
  BY <1>1, <1>3, TwoRight DEF DomainPolicy
<1>5. Chosen(Chain) = "block" => domain.mode \in {"none", "unset"}
  BY <1>1, <1>2, <1>4 DEF Sets
<1> QED
  BY <1>1, <1>2, <1>4, <1>5, Returning DEF Serve

\* Once the Dst that decides is known, it is the policy's own before hosts.
LEMMA Decided ==
  ASSUME IInv, OnDomain, pc # "host"
  PROVE  /\ ~Blank(p.host) => host = p.host
         /\ (Blank(p.host) /\ hosts \in Hosts /\ ~hosts.multi) => host = hosts
<1>1. host = Decides(p.host)
  BY DEF IInv, AtDomain, OnDomain
<1>2. NoHost \notin Hosts
  BY PolicyAssumption DEF NoHost, Hosts, Words
<1> QED
  BY <1>1, <1>2 DEF Decides

\* An address goes straight to ipRedirect.
LEMMA StartIPStep ==
  ASSUME IInv, StartIP
  PROVE  IInv'
<1>1. /\ pc = "start" /\ isIP /\ addr' \in Addrs /\ pc' = "redirect"
      /\ UNCHANGED <<isIP, stopIfNone, default, domain, ipPolicy, hosts, host, p, result>>
  BY DEF StartIP, config
<1>2. result' = noResult
  BY <1>1 DEF IInv, Unanswered
<1>3. Tables' /\ AtStart' /\ AtDomain' /\ AtAddr' /\ AtDial' /\ Unanswered'
  BY <1>1, <1>2 DEF IInv, Tables, AtStart, AtDomain, AtAddr, AtDial, Unanswered
<1>4. BlockRespected' /\ MostSpecificWins' /\ DoHPolicyRight'
  BY <1>1 DEF BlockRespected, MostSpecificWins, DoHPolicyRight, Served
<1>5. TypeOK'
  BY <1>1, <1>2, <1>3 DEF IInv, DestinationRight, TypeOK, Dsts, noResult
<1>6. DestinationRight'
  BY <1>1, <1>5 DEF DestinationRight, Served
<1> QED
  BY <1>3, <1>4, <1>6 DEF IInv

\* A domain that is blocked is refused at once, any other gets its policy.
LEMMA StartDomainStep ==
  ASSUME IInv, StartDomain
  PROVE  IInv'
<1>1. pc = "start" /\ ~isIP /\ host = ZeroHost /\ p = NoPolicy /\ addr = "none" /\ Tables
  BY DEF StartDomain, IInv, AtStart
<1>2. domain \in AnyPolicy \cup {NoPolicy}
  BY <1>1 DEF Tables
<1>3. CASE domain.mode = "block"
  <2>1. Return("blocked", "none", NoPolicy)
    BY <1>3 DEF StartDomain
  <2>2. Chain = <<domain, default>>
    BY <1>1, PolicyAssumption DEF Chain, getIPPolicy
  <2>3. Chosen(<<domain, default>>) = "block"
    BY <1>3, ChosenOfTwo DEF Sets
  <2> QED
    BY <2>1, <2>2, <2>3, Returning DEF Dsts
<1>4. CASE domain.mode # "block"
  <2>1. /\ p' = DomainPolicy /\ host' = p'.host /\ pc' = "host"
        /\ UNCHANGED <<isIP, stopIfNone, default, domain, ipPolicy, hosts, addr, result>>
    BY <1>4 DEF StartDomain, DomainPolicy, config
  <2>2. DomainPolicy \in MergedPolicy
    BY <1>1, <1>2, TwoRight DEF DomainPolicy
  <2>3. host' \in AnyHost /\ p' # NoPolicy /\ result' = noResult /\ DomainPolicy' = DomainPolicy
    BY <1>1, <2>1, <2>2
       DEF MergedPolicy, NoPolicy, Modes, IInv, Unanswered, DomainPolicy
  <2>4. Tables' /\ AtStart' /\ AtDomain' /\ AtAddr' /\ AtDial' /\ Unanswered'
    BY <1>1, <1>4, <2>1, <2>3 DEF IInv, Tables, AtStart, AtDomain, AtAddr, AtDial, Unanswered
  <2>5. BlockRespected' /\ MostSpecificWins' /\ DoHPolicyRight'
    BY <2>1 DEF BlockRespected, MostSpecificWins, DoHPolicyRight, Served
  <2>6. TypeOK'
    BY <1>1, <2>1, <2>3, <2>4 DEF IInv, DestinationRight, TypeOK, Dsts, noResult, AnyHost
  <2>7. DestinationRight'
    BY <2>1, <2>6 DEF DestinationRight, Served
  <2> QED
    BY <2>4, <2>5, <2>7 DEF IInv
<1> QED
  BY <1>3, <1>4

\* A step of genPolicy for a domain to its next question.
LEMMA DomainStep ==
  ASSUME IInv, OnDomain, pc # "redirect", pc' \in {"resolve", "word", "redirect"},
         UNCHANGED <<isIP, stopIfNone, default, domain, ipPolicy, hosts, p, result>>,
         host' = Decides(p.host), ~host'.multi, host' \in AnyHost,
         stopIfNone => ~Blank(p.host) \/ hosts # NoHost,
         pc' = "resolve" => addr' = "none",
         pc' # "resolve" => /\ addr' \in Addrs \cup {"name", "empty"}
                            /\ host'.single \in Addrs => addr' = host'.single,
         pc' = "redirect" => ~host'.keep
  PROVE  IInv'
<1>1. ~isIP /\ domain.mode # "block" /\ p = DomainPolicy /\ result = noResult
  BY DEF IInv, AtDomain, OnDomain, Unanswered
<1>2. DomainPolicy' = DomainPolicy /\ Decides(p.host)' = Decides(p.host)
  BY DEF DomainPolicy, Decides, Blank
<1>3. Tables' /\ AtStart' /\ AtAddr' /\ AtDial' /\ Unanswered'
  BY <1>1 DEF IInv, Tables, AtStart, AtAddr, AtDial, Unanswered
<1>4. AtDomain'
  BY <1>1, <1>2 DEF AtDomain, Blank
<1>5. BlockRespected' /\ MostSpecificWins' /\ DoHPolicyRight'
  BY DEF BlockRespected, MostSpecificWins, DoHPolicyRight, Served
<1>6. TypeOK'
  <2>1. p # NoPolicy
    BY DEF IInv, DestinationRight, TypeOK, OnDomain
  <2> QED
    BY <1>1, <1>3, <2>1 DEF IInv, DestinationRight, TypeOK, Dsts, noResult
<1>7. DestinationRight'
  BY <1>6 DEF DestinationRight, Served, Blank
<1> QED
  BY <1>3, <1>4, <1>5, <1>7 DEF IInv

\* The policy's host decides, or else hosts, or else nothing is known of the domain.
LEMMA FindHostStep ==
  ASSUME IInv, FindHost
  PROVE  IInv'
<1>1. /\ pc = "host" /\ ~isIP /\ host = p.host /\ addr = "none" /\ OnDomain
      /\ host \in AnyHost /\ hosts \in Hosts \cup {NoHost}
  BY DEF FindHost, IInv, AtDomain, Tables, OnDomain, DestinationRight, TypeOK, AnyHost
<1>2. /\ host.multi => host.single = "many" /\ ~Blank(host) /\ ~host.keep
      /\ Blank(host) => host.single \notin Addrs
      /\ "many" \notin Addrs /\ "none" \notin Addrs
  BY <1>1, HostKinds, PolicyAssumption
<1>3. CASE host.multi \/ (Blank(host) /\ hosts.multi)
  <2>1. Serve("many")
    BY <1>3 DEF FindHost
  <2>2. getIPPolicy(addr) = NoPolicy
    BY <1>1, <1>2 DEF getIPPolicy
  <2> QED
    BY <1>1, <1>2, <1>3, <2>1, <2>2, DomainServed DEF Dsts
<1>4. CASE ~(host.multi \/ (Blank(host) /\ hosts.multi)) /\ Blank(host) /\ hosts = NoHost /\ stopIfNone
  <2>1. Return("notFound", "none", NoPolicy)
    BY <1>4 DEF FindHost
  <2> QED
    BY <2>1, Failing
<1>5. CASE /\ ~(host.multi \/ (Blank(host) /\ hosts.multi))
           /\ ~(Blank(host) /\ hosts = NoHost /\ stopIfNone)
  <2>1. /\ host' = Decides(p.host) /\ pc' = "resolve"
        /\ UNCHANGED <<isIP, stopIfNone, default, domain, ipPolicy, hosts, p, addr, result>>
    BY <1>1, <1>5 DEF FindHost, Decides, config
  <2>2. ~host'.multi /\ host' \in AnyHost
    BY <1>1, <1>5, <2>1 DEF Decides, AnyHost
  <2> QED
    BY <1>1, <1>5, <2>1, <2>2, DomainStep
<1> QED
  BY <1>3, <1>4, <1>5

\* What is known when the host is looked at.
LEMMA AtResolve ==
  ASSUME IInv, pc \in {"resolve", "word"}
  PROVE  /\ ~isIP /\ OnDomain /\ host \in AnyHost /\ host = Decides(p.host) /\ ~host.multi
         /\ stopIfNone => ~Blank(p.host) \/ hosts # NoHost
         /\ pc = "resolve" => getIPPolicy(addr) = NoPolicy
<1>1. "none" \notin Addrs
  BY PolicyAssumption
<1> QED
  BY <1>1 DEF IInv, AtDomain, OnDomain, DestinationRight, TypeOK, AnyHost, getIPPolicy

\* The connection goes to the domain as it was asked for.
LEMMA SelfStep ==
  ASSUME IInv, Self
  PROVE  IInv'
<1>1. pc = "resolve" /\ host.single \notin Addrs /\ Serve("origin")
  BY PolicyAssumption DEF Self
<1> QED
  BY <1>1, AtResolve, Decided, DomainServed DEF Dsts

\* DNS or a pool answers.
LEMMA AskStep ==
  ASSUME IInv, pc = "resolve", host.single \notin Addrs,
         NEW answers \in SUBSET (Addrs \cup {"empty"}), Ask(answers)
  PROVE  IInv'
<1>1. CASE Failed
  BY <1>1, Failing DEF Failed
<1>2. CASE Serve("many")
  BY <1>2, AtResolve, Decided, DomainServed DEF Dsts
<1>3. ASSUME addr' \in answers, pc' = "word", UNCHANGED <<config, host, p, result>>
      PROVE  IInv'
  <2>1. UNCHANGED <<isIP, stopIfNone, default, domain, ipPolicy, hosts, p, result>> /\ host' = host
    BY <1>3 DEF config
  <2> QED
    BY <1>3, <2>1, AtResolve, DomainStep
<1> QED
  BY <1>1, <1>2, <1>3 DEF Ask

\* The three questions of genPolicy.
LEMMA AsksStep ==
  ASSUME IInv, ResolveOrigin \/ ResolveName \/ AskPool
  PROVE  IInv'
<1>1. pc = "resolve" /\ (Blank(host) \/ host.single \in {"cname", "pool"})
  BY DEF ResolveOrigin, ResolveName, AskPool
<1>2. host.single \notin Addrs
  BY <1>1, PolicyAssumption DEF Blank
<1>3. CASE Ask(Addrs \cup {"empty"}) \/ Ask(Addrs)
  BY <1>1, <1>2, <1>3, AskStep
<1>4. CASE Return("panic", "none", NoPolicy)
  BY <1>4, Failing
<1> QED
  BY <1>3, <1>4 DEF ResolveOrigin, ResolveName, AskPool, Resolve

\* The host names the destination.
LEMMA LiteralStep ==
  ASSUME IInv, Literal
  PROVE  IInv'
<1>1. /\ pc = "resolve" /\ host.single \in Addrs \cup {"name"} /\ addr' = host.single /\ pc' = "word"
      /\ UNCHANGED <<isIP, stopIfNone, default, domain, ipPolicy, hosts, host, p, result>>
  BY DEF Literal, config
<1> QED
  BY <1>1, AtResolve, DomainStep

\* With "^" before it the destination is final.
LEMMA NoRedirectStep ==
  ASSUME IInv, NoRedirect
  PROVE  IInv'
<1>1. /\ pc = "word" /\ addr \in Addrs \cup {"name", "empty"}
      /\ host.single \in Addrs => addr = host.single
  BY DEF NoRedirect, IInv, AtDomain
<1>2. CASE host.keep
  <2>1. Serve(addr) /\ addr \in Dsts /\ addr # "none"
    BY <1>1, <1>2, PolicyAssumption DEF NoRedirect, Dsts
  <2> QED
    BY <1>1, <1>2, <2>1, AtResolve, Decided, DomainServed
<1>3. CASE ~host.keep
  <2>1. /\ pc' = "redirect"
        /\ UNCHANGED <<isIP, stopIfNone, default, domain, ipPolicy, hosts, host, p, addr, result>>
    BY <1>3 DEF NoRedirect, config
  <2> QED
    BY <1>1, <1>3, <2>1, AtResolve, DomainStep
<1> QED
  BY <1>2, <1>3

\* What is known when the IP policies are looked at.
LEMMA AtRedirect ==
  ASSUME IInv, pc = "redirect"
  PROVE  /\ addr \in Addrs \cup {"name", "empty"} /\ ~host.keep
         /\ isIP => addr \in Addrs /\ domain = NoPolicy
         /\ ~isIP => OnDomain
  BY DEF IInv, AtDomain, AtAddr, OnDomain, ZeroHost, Tables

\* No IP policy covers the destination.
LEMMA RedirectNoneStep ==
  ASSUME IInv, RedirectNone
  PROVE  IInv'
<1>1. pc = "redirect" /\ getIPPolicy(addr) = NoPolicy /\ Tables
  BY DEF RedirectNone, IInv
<1>2. addr \in Dsts /\ addr # "none"
  BY <1>1, AtRedirect, PolicyAssumption DEF Dsts
<1>3. CASE ~isIP
  BY <1>1, <1>2, <1>3, AtRedirect, Decided, DomainServed DEF RedirectNone
<1>4. CASE isIP
  <2>1. Chain = <<domain, default>> /\ domain = NoPolicy
    BY <1>1, <1>4, AtRedirect DEF Chain
  <2>2. /\ Right(default, <<domain, default>>)
        /\ Chosen(<<domain, default>>) = default.mode
    BY <1>1, <2>1, TwoRight DEF Sets, NoPolicy
  <2>3. CASE default.mode = "block"
    BY <1>4, <2>1, <2>2, <2>3, Returning DEF RedirectNone, Dsts
  <2>4. CASE default.mode # "block"
    BY <1>1, <1>2, <1>4, <2>1, <2>2, <2>4, AtRedirect, Returning DEF RedirectNone
  <2> QED
    BY <2>3, <2>4
<1> QED
  BY <1>3, <1>4

\* ipRedirect, and the policy of three.
LEMMA RedirectStep ==
  ASSUME IInv, Redirect
  PROVE  IInv'
<1>1. /\ pc = "redirect" /\ getIPPolicy(addr) # NoPolicy /\ Tables
      /\ addr \in Addrs
  BY DEF Redirect, IInv, getIPPolicy
<1>2. PICK dst \in Mapped(addr) : IF dst = "none" THEN Failed ELSE Final(getIPPolicy(addr), dst)
  BY DEF Redirect
<1>3. CASE dst = "none"
  BY <1>2, <1>3, Failing DEF Failed
<1>4. CASE dst # "none"
  <2>1. getIPPolicy(addr) \in AnyPolicy /\ dst \in Addrs \cup {"many"}
    BY <1>1, <1>2, <1>4, MappedTo
  <2>2. dst \in Dsts
    BY <2>1 DEF Dsts
  <2> DEFINE q == IF domain = NoPolicy THEN mergePolicies(getIPPolicy(addr), default)
                  ELSE mergePolicies3(domain, getIPPolicy(addr), default)
  <2>3. Chain = <<domain, getIPPolicy(addr), default>>
    BY <1>1, AtRedirect DEF Chain
  <2>4. /\ Right(q, Chain)
        /\ q.mode # "default" => q.mode = Chosen(Chain)
        /\ q.mode = "default" => Chosen(Chain) = "unset"
    BY <1>1, <2>1, <2>3, ThreeRight
  <2>5. IF q.mode = "block" THEN Return("blocked", "none", NoPolicy) ELSE Return("serve", dst, q)
    BY <1>1, <1>2, <1>4, AtRedirect DEF Final
  <2> HIDE DEF q
  <2>6. CASE q.mode = "block"
    BY <2>4, <2>5, <2>6, Returning DEF Dsts
  <2>7. CASE q.mode # "block"
    <3>1. Chosen(Chain) # "block" /\ ~host.keep
      BY <1>1, <2>4, <2>7, AtRedirect
    <3>2. ~isIP => /\ ~Blank(p.host) => host = p.host
                   /\ (Blank(p.host) /\ hosts \in Hosts /\ ~hosts.multi) => host = hosts
      BY <1>1, AtRedirect, Decided
    <3> QED
      BY <1>4, <2>2, <2>4, <2>5, <2>7, <3>1, <3>2, Returning
  <2> QED
    BY <2>6, <2>7
<1> QED
  BY <1>3, <1>4

----
(* genDoHDialFunc. *)

\* The end of a dial, under a chain of policies that asks for it.
LEMMA DialedStep ==
  ASSUME IInv, NEW kind \in {"serve", "failed", "blocked", "panic"}, NEW dst \in Dsts,
         NEW pol, Dialed(kind, dst, pol), kind = "serve" <=> dst # "none",
         host' \in AnyHost, addr' \in Dsts, NEW chain, DoHChain' = chain,
         kind = "serve" => Right(pol, chain) /\ pol.mode \notin Refusing,
         kind = "panic" => host'.single = "pool" /\ getIPPolicy(addr') = NoPolicy,
         kind = "blocked" => Chosen(chain) \in Refusing
  PROVE  IInv'
<1>1. /\ pc' = "dialed" /\ result' = [kind |-> kind, dst |-> dst, p |-> pol]
      /\ UNCHANGED <<isIP, stopIfNone, default, domain, ipPolicy, hosts, p>>
  BY DEF Dialed, config
<1>2. result'.kind = kind /\ result'.dst = dst /\ result'.p = pol
  BY <1>1
<1>3. Tables' /\ AtStart' /\ AtDomain' /\ AtAddr' /\ AtDial' /\ Unanswered'
  BY <1>1 DEF IInv, Tables, AtStart, AtDomain, AtAddr, AtDial, Unanswered
<1>4. BlockRespected' /\ MostSpecificWins'
  BY <1>1 DEF BlockRespected, MostSpecificWins, Served
<1>5. TypeOK'
  BY <1>1, <1>2, <1>3 DEF IInv, DestinationRight, TypeOK, AnyHost
<1>6. DestinationRight'
  BY <1>1, <1>5 DEF DestinationRight, Served
<1>7. Chosen(DoHChain)' = Chosen(chain)
  BY DEF Chosen
<1>8. getIPPolicy(addr)' = getIPPolicy(addr')
  BY <1>1 DEF getIPPolicy
<1>9. DoHPolicyRight'
  BY <1>1, <1>2, <1>7, <1>8 DEF DoHPolicyRight, Right
<1> QED
  BY <1>3, <1>4, <1>6, <1>9 DEF IInv

\* The policy that applies is known: the program starts, or not.
LEMMA PreparedStep ==
  ASSUME IInv, pc = "doh", NEW h \in AnyHost, NEW pol \in MergedPolicy, NEW dst \in Dsts,
         Prepared(h, pol, dst), dst = "pool" => ~h.multi, h.single = "pool" => dst = "pool",
         ~isIP => pol = DomainPolicy, isIP => h.single \in Addrs /\ pol = AddrPolicy(h.single)
  PROVE  IInv'
<1>1. CASE dst = "none" \/ pol.mode \in Refusing
  <2>1. Dialed("failed", "none", NoPolicy) /\ UNCHANGED <<host, addr>>
    BY <1>1 DEF Prepared
  <2>2. host \in AnyHost /\ addr \in Dsts
    BY DEF IInv, DestinationRight, TypeOK, AnyHost
  <2> QED
    BY <2>1, <2>2, DialedStep DEF Dsts
<1>2. CASE dst # "none" /\ pol.mode \notin Refusing
  <2>1. /\ host' = h /\ p' = pol /\ addr' = dst /\ pc' = "dial"
        /\ UNCHANGED <<isIP, stopIfNone, default, domain, ipPolicy, hosts, result>>
    BY <1>2 DEF Prepared, config
  <2>2. result' = noResult /\ DomainPolicy' = DomainPolicy
    BY <2>1 DEF IInv, Unanswered, DomainPolicy
  <2>3. AddrPolicy(host.single)' = AddrPolicy(h.single)
    BY <2>1 DEF AddrPolicy, getIPPolicy
  <2>4. Tables' /\ AtStart' /\ AtDomain' /\ AtAddr' /\ Unanswered'
    BY <2>1, <2>2 DEF IInv, Tables, AtStart, AtDomain, AtAddr, Unanswered
  <2>5. AtDial'
    BY <1>2, <2>1, <2>2, <2>3 DEF AtDial
  <2>6. BlockRespected' /\ MostSpecificWins' /\ DoHPolicyRight'
    BY <2>1 DEF BlockRespected, MostSpecificWins, DoHPolicyRight, Served
  <2>7. TypeOK'
    <3>1. p' # NoPolicy
      BY <2>1 DEF MergedPolicy, NoPolicy, Modes
    <3> QED
      BY <2>1, <2>2, <2>4, <3>1 DEF IInv, DestinationRight, TypeOK, Dsts, noResult, AnyHost
  <2>8. DestinationRight'
    BY <2>1, <2>7 DEF DestinationRight, Served
  <2> QED
    BY <2>4, <2>5, <2>6, <2>8 DEF IInv
<1> QED
  BY <1>1, <1>2

\* The URL of the DoH server has an address.
LEMMA DoHIPStep ==
  ASSUME IInv, DoHIP
  PROVE  IInv'
<1>1. pc = "doh" /\ isIP /\ Tables
  BY DEF DoHIP, IInv
<1>2. PICK ip \in Addrs : \E dst \in preMapIP(ip, AddrPolicy(ip).mapTo) :
        Prepared([ZeroHost EXCEPT !.single = ip], AddrPolicy(ip), dst)
  BY DEF DoHIP, AddrPolicy
<1>3. PICK dst \in preMapIP(ip, AddrPolicy(ip).mapTo) :
        Prepared([ZeroHost EXCEPT !.single = ip], AddrPolicy(ip), dst)
  BY <1>2
<1>4. AddrPolicy(ip) \in MergedPolicy
  <2>1. getIPPolicy(ip) \in AnyPolicy \cup {NoPolicy}
    BY <1>1 DEF getIPPolicy, Tables
  <2> QED
    BY <1>1, <2>1, TwoRight DEF AddrPolicy
<1>5. dst \in Dsts
  <2>1. AddrPolicy(ip).mapTo \in MapTos
    BY <1>4 DEF MergedPolicy
  <2> QED
    BY <1>3, <2>1, PreMapped DEF Dsts
<1> DEFINE h == [ZeroHost EXCEPT !.single = ip]
<1>6. h.single = ip /\ h.multi = FALSE /\ h \in AnyHost /\ ip # "pool"
  BY PolicyAssumption DEF ZeroHost, AnyHost, Hosts, Words
<1>7. Prepared(h, AddrPolicy(ip), dst)
  BY <1>3
<1> HIDE DEF h
<1> QED
  BY <1>1, <1>4, <1>5, <1>6, <1>7, PreparedStep

\* Where the Dst of a domain leads.
LEMMA LeadsTo ==
  ASSUME Tables, NEW h \in AnyHost
  PROVE  /\ Leads(h) \subseteq Dsts
         /\ h.multi => Leads(h) = {"many"}
         /\ h.single = "pool" => Leads(h) = {"pool"}
<1>1. /\ h.multi => h.single = "many"
      /\ ~h.multi => h.single \in Words \cup {"zero"}
  BY HostKinds
<1>2. CASE h.multi
  <2>1. h.single = "many" /\ "many" \notin Addrs
    BY <1>1, <1>2, PolicyAssumption
  <2>2. Leads(h) = {"many"}
    BY <1>2, <2>1 DEF Leads, Blank
  <2> QED
    BY <1>2, <2>1, <2>2 DEF Dsts
<1>3. CASE ~h.multi /\ h.single \notin Addrs
  BY <1>1, <1>3 DEF Leads, Dsts, Words, Blank
<1>4. CASE ~h.multi /\ h.single \in Addrs
  <2>1. h.single \notin {"zero", "", "self", "cname", "name", "pool"}
    BY <1>4, PolicyAssumption
  <2>2. Leads(h) = IF getIPPolicy(h.single) = NoPolicy THEN {h.single}
                   ELSE preMapIP(h.single, getIPPolicy(h.single).mapTo)
    BY <1>4, <2>1 DEF Leads, Blank
  <2>3. getIPPolicy(h.single) # NoPolicy => getIPPolicy(h.single).mapTo \in MapTos
    BY <1>4 DEF getIPPolicy, Tables, AnyPolicy
  <2>4. Leads(h) \subseteq Addrs \cup {"many", "network", "none", "pool", "empty"}
    BY <1>4, <2>2, <2>3, PreMapped
  <2> QED
    BY <1>4, <2>1, <2>4 DEF Dsts
<1> QED
  BY <1>2, <1>3, <1>4

\* The URL of the DoH server has a name.
LEMMA DoHDomainStep ==
  ASSUME IInv, DoHDomain
  PROVE  IInv'
<1>1. pc = "doh" /\ ~isIP /\ Tables
  BY DEF DoHDomain, IInv
<1>2. PICK dst \in Leads(Decides(DomainPolicy.host)) :
        Prepared(Decides(DomainPolicy.host), DomainPolicy, dst)
  BY DEF DoHDomain, DomainPolicy, Decides
<1>3. DomainPolicy \in MergedPolicy
  <2>1. domain \in AnyPolicy \cup {NoPolicy}
    BY <1>1 DEF Tables
  <2> QED
    BY <1>1, <2>1, TwoRight DEF DomainPolicy
<1>4. Decides(DomainPolicy.host) \in AnyHost
  BY <1>1, <1>3 DEF Decides, MergedPolicy, Tables, AnyHost
<1>5. /\ dst \in Dsts
      /\ dst = "pool" => ~Decides(DomainPolicy.host).multi
      /\ Decides(DomainPolicy.host).single = "pool" => dst = "pool"
  BY <1>1, <1>2, <1>4, LeadsTo
<1> QED
  BY <1>1, <1>2, <1>3, <1>4, <1>5, PreparedStep

\* What is known when the dial function is called, and the chain its policy is from.
LEMMA BeforeDial ==
  ASSUME IInv, pc = "dial"
  PROVE  /\ Tables /\ host \in AnyHost /\ addr \in Dsts /\ addr # "none"
         /\ p.mode \notin Refusing
         /\ addr = "pool" => ~host.multi
         /\ addr \notin Addrs \/ host.single # "pool"
         /\ Right(p, DoHChain)
<1>1. /\ Tables /\ host \in AnyHost /\ addr \in Dsts /\ addr # "none" /\ p.mode \notin Refusing
      /\ addr = "pool" => ~host.multi
      /\ host.single = "pool" => addr = "pool"
  BY DEF IInv, AtDial, DestinationRight, TypeOK, AnyHost
<1>2. addr \notin Addrs \/ host.single # "pool"
  BY <1>1, PolicyAssumption
<1>3. Right(p, DoHChain)
  <2>1. CASE isIP
    <3>1. host.single \in Addrs /\ p = AddrPolicy(host.single)
      BY <2>1 DEF IInv, AtDial
    <3>2. DoHChain = <<getIPPolicy(host.single), default>>
      BY <1>2, <2>1, <3>1 DEF DoHChain
    <3>3. getIPPolicy(host.single) \in AnyPolicy \cup {NoPolicy}
      BY <1>1, <3>1 DEF getIPPolicy, Tables
    <3> QED
      BY <1>1, <3>1, <3>2, <3>3, TwoRight DEF AddrPolicy
  <2>2. CASE ~isIP
    <3>1. p = DomainPolicy /\ DoHChain = <<domain, default>>
      BY <1>2, <2>2 DEF IInv, AtDial, DoHChain
    <3>2. domain \in AnyPolicy \cup {NoPolicy}
      BY <1>1 DEF Tables
    <3> QED
      BY <1>1, <3>1, <3>2, TwoRight DEF DomainPolicy
  <2> QED
    BY <2>1, <2>2
<1> QED
  BY <1>1, <1>2, <1>3

\* A dial that leaves the destination as it was prepared.
LEMMA PlainDialStep ==
  ASSUME IInv, DialFixed \/ PoolMissing \/ DialPool
  PROVE  IInv'
<1>1. pc = "dial" /\ UNCHANGED <<host, addr, isIP, default, domain, ipPolicy>>
  BY DEF DialFixed, PoolMissing, DialPool, Dialed, config
<1>2. DoHChain' = DoHChain
  BY <1>1 DEF DoHChain, getIPPolicy
<1>3. ASSUME NEW dst \in Dsts, dst # "none", Dialed("serve", dst, p)
      PROVE  IInv'
  BY <1>1, <1>2, <1>3, BeforeDial, DialedStep
<1>4. CASE Dialed("failed", "none", NoPolicy)
  BY <1>1, <1>2, <1>4, BeforeDial, DialedStep DEF Dsts
<1>5. CASE DialPool
  <2>1. PICK dst \in Addrs \cup {"many"} : Dialed("serve", dst, p)
    BY <1>5 DEF DialPool
  <2>2. dst \in Dsts /\ dst # "none"
    BY PolicyAssumption DEF Dsts
  <2> QED
    BY <1>3, <2>1, <2>2
<1>6. CASE DialFixed
  BY <1>1, <1>3, <1>6, BeforeDial DEF DialFixed
<1> QED
  BY <1>4, <1>5, <1>6 DEF PoolMissing

\* A dial to an address from a pool, which its own IP policy may lead elsewhere.
LEMMA PoolRedirectStep ==
  ASSUME IInv, DialPoolRedirect
  PROVE  IInv'
<1>1. pc = "dial" /\ addr = "pool" /\ addr' \in Addrs /\ host' = [host EXCEPT !.single = "pool"]
  BY DEF DialPoolRedirect
<1>2. PICK a \in Addrs : a = addr'
  BY <1>1
<1>3. UNCHANGED <<isIP, default, domain, ipPolicy>>
  BY DEF DialPoolRedirect, Dialed, config
<1>4. host' \in AnyHost /\ host'.single = "pool" /\ addr' \in Dsts
  <2>1. host \in AnyHost /\ ~host.multi
    BY <1>1, BeforeDial
  <2>2. \/ host \in [multi: {FALSE}, keep: BOOLEAN, single: Words]
        \/ host = [multi |-> FALSE, keep |-> FALSE, single |-> "zero"]
    <3>1. [multi |-> TRUE, keep |-> FALSE, single |-> "many"].multi
      OBVIOUS
    <3> QED
      BY <2>1, <3>1, Zenon DEF AnyHost, Hosts, ZeroHost
  <2>3. host' \in [multi: {FALSE}, keep: BOOLEAN, single: Words] /\ host'.single = "pool"
    <3>1. CASE host \in [multi: {FALSE}, keep: BOOLEAN, single: Words]
      BY <1>1, <3>1 DEF Words
    <3>2. CASE host = [multi |-> FALSE, keep |-> FALSE, single |-> "zero"]
      <4>1. host' = [multi |-> FALSE, keep |-> FALSE, single |-> "pool"]
        BY <1>1, <3>2
      <4> QED
        BY <4>1 DEF Words
    <3> QED
      BY <2>2, <3>1, <3>2
  <2> QED
    BY <1>1, <2>3 DEF AnyHost, Hosts, Dsts
<1>5. getIPPolicy(a)' = getIPPolicy(a) /\ getIPPolicy(addr') = getIPPolicy(a)
  BY <1>2, <1>3 DEF getIPPolicy
<1>6. DoHChain' = <<domain, getIPPolicy(a), default>>
  BY <1>1, <1>2, <1>3, <1>4, <1>5 DEF DoHChain, getIPPolicy
<1>7. CASE getIPPolicy(a) = NoPolicy
  <2>1. Dialed("panic", "none", NoPolicy)
    BY <1>5, <1>7 DEF DialPoolRedirect
  <2> QED
    BY <1>4, <1>5, <1>6, <1>7, <2>1, DialedStep DEF Dsts
<1>8. CASE getIPPolicy(a) # NoPolicy
  <2> DEFINE q == IF domain = NoPolicy THEN mergePolicies(getIPPolicy(a), default)
                  ELSE mergePolicies3(domain, getIPPolicy(a), default)
  <2>1. PICK dst \in Mapped(a) :
          IF dst = "none" THEN Dialed("failed", "none", NoPolicy)
          ELSE IF q.mode \in Refusing THEN Dialed("blocked", "none", NoPolicy)
          ELSE Dialed("serve", dst, q)
    BY <1>2, <1>5, <1>8 DEF DialPoolRedirect
  <2>2. Tables /\ getIPPolicy(a) \in AnyPolicy /\ dst \in Addrs \cup {"many", "none"}
    BY <1>1, <1>8, <2>1, BeforeDial, MappedTo
  <2>3. /\ Right(q, <<domain, getIPPolicy(a), default>>)
        /\ q.mode # "default" => q.mode = Chosen(<<domain, getIPPolicy(a), default>>)
    BY <2>2, ThreeRight
  <2> HIDE DEF q
  <2>4. dst \in Dsts /\ "none" \in Dsts
    BY <2>2 DEF Dsts
  <2>5. CASE dst = "none"
    BY <1>4, <1>6, <2>1, <2>4, <2>5, DialedStep
  <2>6. CASE dst # "none" /\ q.mode \in Refusing
    BY <1>4, <1>6, <2>1, <2>3, <2>4, <2>6, DialedStep DEF Refusing
  <2>7. CASE dst # "none" /\ q.mode \notin Refusing
    BY <1>4, <1>6, <2>1, <2>3, <2>4, <2>7, DialedStep
  <2> QED
    BY <2>5, <2>6, <2>7
<1> QED
  BY <1>7, <1>8

----
(* Numbers. *)

\* A set of natural numbers has a smallest element: what the inductions below look at is
\* the smallest number of which a claim does not hold.
LEMMA Smallest ==
  ASSUME NEW T, T \subseteq Nat, T # {}
  PROVE  \E d \in T : \A e \in T : d <= e
<1>1. PICK d \in T : \A e \in T : ~(<<e, d>> \in OpToRel(<, Nat))
  BY NatLessThanWellFounded, WFMin
<1>2. \A e \in T : ~(e < d)
  BY <1>1, Zenon DEF OpToRel
<1>3. d \in Nat /\ \A e \in T : e \in Nat /\ ~(e < d)
  BY <1>2
<1>4. \A e \in T : d <= e
  BY <1>3
<1>5. QED
  BY <1>4

\* A bounded one has a greatest.
LEMMA Greatest ==
  ASSUME NEW T, T \subseteq Nat, T # {}, NEW N \in Nat, \A i \in T : i <= N
  PROVE  \E d \in T : \A e \in T : e <= d
<1> DEFINE below == {i \in Nat : \E e \in T : i = N - e}
<1>1. below \subseteq Nat /\ below # {}
  <2>1. PICK e \in T : TRUE
    OBVIOUS
  <2>2. e \in Nat /\ N - e \in Nat
    BY <2>1
  <2> QED
    BY <2>1, <2>2
<1>2. PICK d \in below : \A i \in below : d <= i
  BY <1>1, Smallest
<1>3. PICK e \in T : d = N - e
  BY <1>2
<1>4. \A i \in T : N - i \in below
  <2> TAKE i \in T
  <2>1. i \in Nat /\ i <= N
    OBVIOUS
  <2> QED
    BY <2>1
<1>5. \A i \in T : i <= e
  <2> TAKE i \in T
  <2>1. i \in Nat /\ e \in Nat
    OBVIOUS
  <2>2. N - e <= N - i
    BY <1>2, <1>3, <1>4
  <2> QED
    BY <2>1, <2>2
<1> QED
  BY <1>5

\* Of the indices S of a table of N entries, LastLongest is one, the last of the longest.
LEMMA LastLongestIs ==
  ASSUME NEW N \in Nat, NEW S \in SUBSET (1..N), S # {}, NEW length, NEW M \in Nat,
         \A i \in S : length[i] \in Nat /\ length[i] <= M
  PROVE  /\ LastLongest(S, length) \in S
         /\ \A j \in S : \/ length[j] < length[LastLongest(S, length)]
                         \/ /\ length[j] = length[LastLongest(S, length)]
                            /\ j <= LastLongest(S, length)
<1> DEFINE lengths == {l \in Nat : \E i \in S : l = length[i]}
<1>1. PICK l \in lengths : \A k \in lengths : k <= l
  <2>1. lengths # {} /\ lengths \subseteq Nat /\ \A k \in lengths : k <= M
    OBVIOUS
  <2> HIDE DEF lengths
  <2> QED
    BY <2>1, Greatest
<1> DEFINE longest == {i \in Nat : i \in S /\ length[i] = l}
<1>2. PICK e \in longest : \A i \in longest : i <= e
  <2>1. longest # {} /\ \A i \in longest : i <= N
    BY <1>1
  <2> QED
    BY <2>1, Greatest
<1>3. \A j \in S : length[j] < length[e] \/ (length[j] = length[e] /\ j <= e)
  <2> TAKE j \in S
  <2>1. length[j] \in Nat /\ l \in Nat /\ length[e] = l /\ length[j] \in lengths /\ j \in Nat
    BY <1>1, <1>2
  <2>2. length[j] <= l
    BY <1>1, <2>1
  <2>3. CASE length[j] = l
    BY <1>2, <2>1, <2>3
  <2> QED
    BY <2>1, <2>2, <2>3
<1> QED
  BY <1>2, <1>3 DEF LastLongest

----
(* What the tries hold. *)

\* f has the key of each of the entries I, with the value of the last entry of that key.
Latest(f, I, key, val) ==
  /\ DOMAIN f = {key[i] : i \in I}
  /\ \A i \in I : (\A j \in I : key[j] = key[i] => j <= i) => f[key[i]] = val[i]

\* One more entry is written.
LEMMA Written ==
  ASSUME NEW f, NEW I \in SUBSET Nat, NEW key, NEW val, Latest(f, I, key, val),
         NEW k \in Nat, \A i \in I : i < k
  PROVE  Latest(Put(f, key[k], val[k]), I \cup {k}, key, val)
<1> DEFINE g == Put(f, key[k], val[k])
<1>1. DOMAIN g = {key[k]} \cup DOMAIN f
  BY DEF Put
<1>2. g[key[k]] = val[k] /\ \A x \in DOMAIN f : x # key[k] => g[x] = f[x]
  BY DEF Put
<1> HIDE DEF g
<1>3. DOMAIN g = {key[i] : i \in I \cup {k}}
  BY <1>1 DEF Latest
<1>4. ASSUME NEW i \in I \cup {k}, \A j \in I \cup {k} : key[j] = key[i] => j <= i
      PROVE  g[key[i]] = val[i]
  <2>1. CASE i = k
    BY <1>2, <2>1
  <2>2. CASE i # k
    <3>1. i \in I /\ i \in Nat /\ i < k /\ key[k] # key[i]
      BY <1>4, <2>2
    <3>2. f[key[i]] = val[i] /\ key[i] \in DOMAIN f
      BY <1>4, <3>1 DEF Latest
    <3> QED
      BY <1>2, <3>1, <3>2
  <2> QED
    BY <2>1, <2>2
<1>5. Latest(g, I \cup {k}, key, val)
  BY <1>3, <1>4 DEF Latest
<1> QED
  BY <1>5 DEF g

\* The nodes of a tree, paths of S from the root on.
Tree(nodes, S) ==
  /\ <<>> \in nodes /\ nodes \subseteq Seq(S)
  /\ \A x \in nodes : \A l \in 0..Len(x) : SubSeq(x, 1, l) \in nodes

\* Of a sequence a prefix is one, and so is a prefix of a prefix.
LEMMA PrefixOfPrefix ==
  ASSUME NEW S, NEW s \in Seq(S), NEW l \in 0..Len(s)
  PROVE  /\ SubSeq(s, 1, l) \in Seq(S) /\ Len(SubSeq(s, 1, l)) = l
         /\ \A k \in 0..l : SubSeq(SubSeq(s, 1, l), 1, k) = SubSeq(s, 1, k)
<1>1. Len(s) \in Nat /\ \A i \in 1..Len(s) : s[i] \in S
  BY ElementOfSeq, LenProperties
<1>2. SubSeq(s, 1, l) \in Seq(S) /\ Len(SubSeq(s, 1, l)) = l
  <2>1. \A i \in 1..l : s[i] \in S
    BY <1>1
  <2>2. l \in Int /\ 1 \in Int /\ l >= 0
    BY <1>1
  <2>3. SubSeq(s, 1, l) \in Seq(S) /\ Len(SubSeq(s, 1, l)) = IF 1 <= l THEN l - 1 + 1 ELSE 0
    BY <2>1, <2>2, SubSeqProperties
  <2> QED
    BY <2>2, <2>3
<1>3. ASSUME NEW k \in 0..l
      PROVE  SubSeq(SubSeq(s, 1, l), 1, k) = SubSeq(s, 1, k)
  <2>1. CASE k = 0
    BY <2>1, SubSeqEmpty
  <2>2. CASE k # 0
    <3>1. /\ 1 \in 1..Len(s) /\ l \in 1..Len(s) /\ 1 \in 1..(l - 1 + 1) /\ k \in 1..(l - 1 + 1)
          /\ 1 + 1 - 1 = 1 /\ 1 + k - 1 = k
      BY <1>1, <2>2
    <3>2. SubSeq(SubSeq(s, 1, l), 1, k) = SubSeq(s, 1 + 1 - 1, 1 + k - 1)
      BY <3>1, <1>2, SubSeqOfSubSeq
    <3> QED
      BY <3>1, <3>2
  <2> QED
    BY <2>1, <2>2
<1> QED
  BY <1>2, <1>3

\* A path is added to a tree.
LEMMA Grown ==
  ASSUME NEW S, NEW nodes, Tree(nodes, S), NEW path \in Seq(S)
  PROVE  Tree(nodes \cup Prefixes(path), S) /\ path \in nodes \cup Prefixes(path)
<1>1. path \in Prefixes(path)
  <2>1. path = SubSeq(path, 1, Len(path)) /\ Len(path) \in 0..Len(path)
    BY SubSeqFull, LenProperties
  <2> QED
    BY <2>1 DEF Prefixes
<1>2. ASSUME NEW x \in Prefixes(path)
      PROVE  x \in Seq(S) /\ \A l \in 0..Len(x) : SubSeq(x, 1, l) \in Prefixes(path)
  <2>1. PICK k \in 0..Len(path) : x = SubSeq(path, 1, k)
    BY DEF Prefixes
  <2>2. x \in Seq(S) /\ Len(x) = k /\ \A l \in 0..k : SubSeq(x, 1, l) = SubSeq(path, 1, l)
    BY <2>1, PrefixOfPrefix
  <2>3. ASSUME NEW l \in 0..Len(x)
        PROVE  SubSeq(x, 1, l) \in Prefixes(path)
    <3>1. l \in 0..Len(path) /\ SubSeq(x, 1, l) = SubSeq(path, 1, l)
      BY <2>2, LenProperties
    <3> QED
      BY <3>1 DEF Prefixes
  <2> QED
    BY <2>2, <2>3
<1> QED
  BY <1>1, <1>2 DEF Tree

----
(* The lookups. *)

\* w is the walk of DomainMatcher.Find along N labels.
IsLabelWalk(m, labels, start, N, w) ==
  w = [i \in 0..N |-> LabelStep(m, labels, i, IF i = 0 THEN start ELSE w[i - 1])]

\* There is one.
LEMMA LabelWalk ==
  ASSUME NEW m, NEW labels, NEW start, NEW N \in Nat
  PROVE  \E w : IsLabelWalk(m, labels, start, N, w)
<1> USE DEF IsLabelWalk
<1> DEFINE Is(w, k) == IsLabelWalk(m, labels, start, k, w)
           bad == {k \in Nat : ~\E w : Is(w, k)}
<1> SUFFICES ASSUME bad # {} PROVE FALSE
  OBVIOUS
<1>1. PICK d \in bad : \A e \in bad : d <= e
  BY Smallest
<1>2. CASE d = 0
  <2> DEFINE w == [i \in 0..0 |-> LabelStep(m, labels, i, start)]
  <2>1. Is(w, 0)
    OBVIOUS
  <2> QED
    BY <1>1, <1>2, <2>1
<1>3. CASE d # 0
  <2>1. d - 1 \in Nat /\ d - 1 \notin bad
    BY <1>1, <1>3
  <2>2. PICK v : Is(v, d - 1)
    BY <2>1
  <2> DEFINE w == [i \in 0..d |-> IF i = d THEN LabelStep(m, labels, d, v[d - 1]) ELSE v[i]]
  <2>3. Is(w, d)
    <3>1. \A i \in 0..d : w[i] = LabelStep(m, labels, i, IF i = 0 THEN start ELSE w[i - 1])
      BY <1>1, <1>3, <2>2
    <3> QED
      BY <3>1
  <2> QED
    BY <1>1, <2>3
<1> QED
  BY <1>2, <1>3

\* What Find needs to know of a matcher.
Searchable(m, none) ==
  /\ Tree(m.nodes, STRING) /\ DOMAIN m.wildcard \subseteq m.nodes /\ DOMAIN m.exact \subseteq m.nodes
  /\ \A x \in DOMAIN m.wildcard : m.wildcard[x] # none

\* The candidate after i labels: the value of the last wildcard passed.
Candidate(m, labels, none, i, c) ==
  \/ c = none /\ \A j \in 1..i : ~Passed(m, labels, j)
  \/ \E j \in 1..i : /\ Passed(m, labels, j) /\ c = m.wildcard[SubSeq(labels, 1, j)]
                     /\ \A k \in (j + 1)..i : ~Passed(m, labels, k)

\* The walk after i labels.
WalkedTo(m, labels, none, i, w) ==
  /\ w.matched <=> SubSeq(labels, 1, i) \in m.nodes
  /\ Candidate(m, labels, none, i, w.candidate)

\* One label.
LEMMA OneLabel ==
  ASSUME NEW m, NEW labels, NEW i, NEW w
  PROVE  /\ LabelStep(m, labels, i, w).matched <=> w.matched /\ SubSeq(labels, 1, i) \in m.nodes
         /\ LabelStep(m, labels, i, w).candidate =
              IF w.matched /\ SubSeq(labels, 1, i) \in m.nodes /\ i > 0 /\ Passed(m, labels, i)
              THEN m.wildcard[SubSeq(labels, 1, i)] ELSE w.candidate
<1> DEFINE a == w.matched /\ SubSeq(labels, 1, i) \in m.nodes
           c == IF a /\ i > 0 /\ Passed(m, labels, i)
                THEN m.wildcard[SubSeq(labels, 1, i)] ELSE w.candidate
<1>1. LabelStep(m, labels, i, w) = [matched |-> a, candidate |-> c]
  BY DEF LabelStep
<1>2. a \in BOOLEAN
  OBVIOUS
<1> HIDE DEF a, c
<1>3. LabelStep(m, labels, i, w).matched = a /\ LabelStep(m, labels, i, w).candidate = c
  BY <1>1
<1> QED
  BY <1>2, <1>3 DEF a, c

\* One label more.
LEMMA LabelWalked ==
  ASSUME NEW m, NEW none, Searchable(m, none), NEW labels \in Seq(STRING),
         NEW i \in 1..Len(labels), NEW w, WalkedTo(m, labels, none, i - 1, w)
  PROVE  WalkedTo(m, labels, none, i, LabelStep(m, labels, i, w))
<1> DEFINE node == SubSeq(labels, 1, i)
<1>1. Len(labels) \in Nat /\ i \in Nat /\ i - 1 \in Nat
  BY LenProperties
<1> DEFINE c == w.candidate
<1>2. (w.matched <=> SubSeq(labels, 1, i - 1) \in m.nodes) /\ Candidate(m, labels, none, i - 1, c)
  BY DEF WalkedTo
<1>3. node \in m.nodes => w.matched
  <2>1. SubSeq(node, 1, i - 1) = SubSeq(labels, 1, i - 1) /\ Len(node) = i
    BY <1>1, PrefixOfPrefix
  <2>2. ASSUME node \in m.nodes PROVE SubSeq(node, 1, i - 1) \in m.nodes
    <3>1. Tree(m.nodes, STRING) /\ i - 1 \in 0..Len(node)
      BY <1>1, <2>1 DEF Searchable
    <3> HIDE DEF node
    <3> QED
      BY <2>2, <3>1 DEF Tree
  <2> QED
    BY <1>2, <2>1, <2>2
<1>4. Passed(m, labels, i) => node \in m.nodes
  BY DEF Passed, Searchable
<1> DEFINE s == LabelStep(m, labels, i, w)
<1>5. /\ s.matched <=> node \in m.nodes
      /\ s.candidate = IF node \in m.nodes /\ Passed(m, labels, i) THEN m.wildcard[node] ELSE c
  BY <1>1, <1>3, OneLabel
<1> HIDE DEF s
<1>6. ~Passed(m, labels, i) => Candidate(m, labels, none, i, c)
  <2> SUFFICES ASSUME ~Passed(m, labels, i) PROVE Candidate(m, labels, none, i, c)
    OBVIOUS
  <2>1. \A k \in 1..i : k = i \/ k \in 1..(i - 1)
    BY <1>1
  <2>2. CASE c = none /\ \A j \in 1..(i - 1) : ~Passed(m, labels, j)
    BY <2>1, <2>2 DEF Candidate
  <2>3. ASSUME NEW j \in 1..(i - 1), Passed(m, labels, j), c = m.wildcard[SubSeq(labels, 1, j)],
               \A k \in (j + 1)..(i - 1) : ~Passed(m, labels, k)
        PROVE  Candidate(m, labels, none, i, c)
    <3>1. j \in 1..i /\ \A k \in (j + 1)..i : ~Passed(m, labels, k)
      BY <1>1, <2>3
    <3> QED
      BY <2>3, <3>1 DEF Candidate
  <2> QED
    BY <1>2, <2>2, <2>3 DEF Candidate
<1>7. Passed(m, labels, i) => Candidate(m, labels, none, i, m.wildcard[node])
  <2>1. i \in 1..i /\ \A k \in (i + 1)..i : FALSE
    BY <1>1
  <2> QED
    BY <2>1 DEF Candidate
<1>8. WalkedTo(m, labels, none, i, s)
  BY <1>4, <1>5, <1>6, <1>7 DEF WalkedTo
<1> QED
  BY <1>8 DEF s

\* DomainMatcher.Find: an exact entry, or the last wildcard passed, or the one for all.
LEMMA DomainFound ==
  ASSUME NEW m, NEW none, Searchable(m, none), NEW labels \in Seq(STRING)
  PROVE  /\ labels \in DOMAIN m.exact => FindDomain(m, labels, none) = m.exact[labels]
         /\ labels \notin DOMAIN m.exact =>
              /\ \A j \in 1..Len(labels) :
                   (Passed(m, labels, j) /\ \A k \in (j + 1)..Len(labels) : ~Passed(m, labels, k)) =>
                     FindDomain(m, labels, none) = m.wildcard[SubSeq(labels, 1, j)]
              /\ (\A j \in 1..Len(labels) : ~Passed(m, labels, j)) =>
                   FindDomain(m, labels, none) =
                     IF <<>> \in DOMAIN m.wildcard THEN m.wildcard[<<>>] ELSE none
<1> DEFINE N == Len(labels)
           start == [matched |-> TRUE, candidate |-> none]
           walk[i \in 0..N] ==
             LabelStep(m, labels, i, IF i = 0 THEN start ELSE walk[i - 1])
           end == walk[N]
           find == FindDomain(m, labels, none)
<1>1. N \in Nat
  BY LenProperties
<1>2. find = IF end.matched /\ labels \in DOMAIN m.exact THEN m.exact[labels]
             ELSE IF end.candidate # none THEN end.candidate
             ELSE IF <<>> \in DOMAIN m.wildcard THEN m.wildcard[<<>>] ELSE none
  BY DEF FindDomain
<1> HIDE DEF N, start, find
<1>3. walk = [i \in 0..N |-> LabelStep(m, labels, i, IF i = 0 THEN start ELSE walk[i - 1])]
  <2>1. \E w : IsLabelWalk(m, labels, start, N, w)
    BY <1>1, LabelWalk
  <2> QED
    BY <2>1, Zenon DEF walk, IsLabelWalk
<1> HIDE DEF walk
<1>4. \A i \in 0..N : WalkedTo(m, labels, none, i, walk[i])
  <2> DEFINE bad == {i \in 0..N : ~WalkedTo(m, labels, none, i, walk[i])}
  <2> SUFFICES ASSUME bad # {} PROVE FALSE
    OBVIOUS
  <2>1. PICK d \in bad : \A e \in bad : d <= e
    <3>1. bad \subseteq Nat
      BY <1>1
    <3> QED
      BY <3>1, Smallest
  <2>2. CASE d = 0
    <3>1. walk[0] = LabelStep(m, labels, 0, start)
      BY <1>1, <1>3
    <3>2. SubSeq(labels, 1, 0) = <<>> /\ <<>> \in m.nodes
      BY SubSeqEmpty DEF Searchable, Tree
    <3>3. walk[0].matched /\ walk[0].candidate = none
      <4>1. start.matched = TRUE /\ start.candidate = none
        BY DEF start
      <4>2. /\ walk[0].matched <=> start.matched
            /\ walk[0].candidate = start.candidate
        <5>1. /\ LabelStep(m, labels, 0, start).matched <=>
                   start.matched /\ SubSeq(labels, 1, 0) \in m.nodes
              /\ LabelStep(m, labels, 0, start).candidate =
                   IF /\ start.matched /\ SubSeq(labels, 1, 0) \in m.nodes
                      /\ 0 > 0 /\ Passed(m, labels, 0)
                   THEN m.wildcard[SubSeq(labels, 1, 0)] ELSE start.candidate
          BY OneLabel, SMTT(20)
        <5>2. ~(0 > 0)
          OBVIOUS
        <5> QED
          BY <3>1, <3>2, <4>1, <5>1, <5>2
      <4> QED
        BY <4>1, <4>2
    <3>4. Candidate(m, labels, none, 0, none)
      BY DEF Candidate
    <3> QED
      BY <2>1, <2>2, <3>2, <3>3, <3>4 DEF WalkedTo
  <2>3. CASE d # 0
    <3>1. d \in 1..Len(labels) /\ d - 1 \in 0..N /\ d - 1 \notin bad
      BY <1>1, <2>1, <2>3 DEF N
    <3>2. walk[d] = LabelStep(m, labels, d, walk[d - 1])
      BY <1>1, <1>3, <3>1, <2>3
    <3> QED
      BY <2>1, <3>1, <3>2, LabelWalked
  <2> QED
    BY <2>2, <2>3
<1> DEFINE c == end.candidate
<1>5. (end.matched <=> SubSeq(labels, 1, N) \in m.nodes) /\ Candidate(m, labels, none, N, c)
  <2>1. WalkedTo(m, labels, none, N, end)
    BY <1>1, <1>4
  <2> QED
    BY <2>1 DEF WalkedTo
<1>6. end.matched <=> labels \in m.nodes
  BY <1>5, SubSeqFull DEF N
<1> HIDE DEF end
<1>8. labels \in DOMAIN m.exact => find = m.exact[labels]
  BY <1>2, <1>6 DEF Searchable
<1>9. ASSUME labels \notin DOMAIN m.exact, NEW j \in 1..N, Passed(m, labels, j),
             \A k \in (j + 1)..N : ~Passed(m, labels, k)
      PROVE  find = m.wildcard[SubSeq(labels, 1, j)]
  <2>1. PICK k \in 1..N : /\ Passed(m, labels, k) /\ c = m.wildcard[SubSeq(labels, 1, k)]
                          /\ \A l \in (k + 1)..N : ~Passed(m, labels, l)
    BY <1>5, <1>9 DEF Candidate
  <2>2. k = j
    BY <1>1, <1>9, <2>1
  <2>3. c # none
    BY <2>1 DEF Passed, Searchable
  <2> QED
    BY <1>2, <1>9, <2>1, <2>2, <2>3
<1>10. ASSUME labels \notin DOMAIN m.exact, \A j \in 1..N : ~Passed(m, labels, j)
       PROVE  find = IF <<>> \in DOMAIN m.wildcard THEN m.wildcard[<<>>] ELSE none
  <2>1. c = none
    BY <1>5, <1>10 DEF Candidate
  <2> QED
    BY <1>2, <1>10, <2>1
<1> QED
  BY <1>8, <1>9, <1>10 DEF N, find

\* The same for the walk along the bits of an address.
IsBitWalk(t, bits, start, N, w) ==
  w = [i \in 0..N |-> BitStep(t, bits, i, IF i = 0 THEN start ELSE w[i - 1])]

\* There is one.
LEMMA BitWalk ==
  ASSUME NEW t, NEW bits, NEW start, NEW N \in Nat
  PROVE  \E w : IsBitWalk(t, bits, start, N, w)
<1> USE DEF IsBitWalk
<1> DEFINE Is(w, k) == IsBitWalk(t, bits, start, k, w)
           bad == {k \in Nat : ~\E w : Is(w, k)}
<1> SUFFICES ASSUME bad # {} PROVE FALSE
  OBVIOUS
<1>1. PICK d \in bad : \A e \in bad : d <= e
  BY Smallest
<1>2. CASE d = 0
  <2> DEFINE w == [i \in 0..0 |-> BitStep(t, bits, i, start)]
  <2>1. Is(w, 0)
    OBVIOUS
  <2> QED
    BY <1>1, <1>2, <2>1
<1>3. CASE d # 0
  <2>1. d - 1 \in Nat /\ d - 1 \notin bad
    BY <1>1, <1>3
  <2>2. PICK v : Is(v, d - 1)
    BY <2>1
  <2> DEFINE w == [i \in 0..d |-> IF i = d THEN BitStep(t, bits, d, v[d - 1]) ELSE v[i]]
  <2>3. Is(w, d)
    <3>1. \A i \in 0..d : w[i] = BitStep(t, bits, i, IF i = 0 THEN start ELSE w[i - 1])
      BY <1>1, <1>3, <2>2
    <3> QED
      BY <3>1
  <2> QED
    BY <1>1, <2>3
<1> QED
  BY <1>2, <1>3

\* One bit.
LEMMA OneBit ==
  ASSUME NEW t, NEW bits, NEW i, NEW w
  PROVE  /\ BitStep(t, bits, i, w).reached <=> w.reached /\ SubSeq(bits, 1, i) \in t.nodes
         /\ BitStep(t, bits, i, w).matched =
              IF /\ w.reached /\ SubSeq(bits, 1, i) \in t.nodes
                 /\ SubSeq(bits, 1, i) \in DOMAIN t.value
              THEN t.value[SubSeq(bits, 1, i)] ELSE w.matched
<1> DEFINE a == w.reached /\ SubSeq(bits, 1, i) \in t.nodes
           c == IF a /\ SubSeq(bits, 1, i) \in DOMAIN t.value
                THEN t.value[SubSeq(bits, 1, i)] ELSE w.matched
<1>1. BitStep(t, bits, i, w) = [reached |-> a, matched |-> c]
  BY DEF BitStep
<1>2. a \in BOOLEAN
  OBVIOUS
<1> HIDE DEF a, c
<1>3. BitStep(t, bits, i, w).reached = a /\ BitStep(t, bits, i, w).matched = c
  BY <1>1
<1> QED
  BY <1>2, <1>3 DEF a, c

\* A prefix of i bits has a value.
Valued(t, bits, i) == SubSeq(bits, 1, i) \in DOMAIN t.value

\* The way down after i bits: the value of the longest prefix on it.
WentDown(t, bits, none, i, w) ==
  /\ w.reached <=> SubSeq(bits, 1, i) \in t.nodes
  /\ \/ w.matched = none /\ \A j \in 0..i : ~Valued(t, bits, j)
     \/ \E j \in 0..i : /\ Valued(t, bits, j) /\ w.matched = t.value[SubSeq(bits, 1, j)]
                        /\ \A k \in (j + 1)..i : ~Valued(t, bits, k)

\* One bit more.
LEMMA BitWalked ==
  ASSUME NEW t, Tree(t.nodes, {0, 1}), DOMAIN t.value \subseteq t.nodes, NEW none,
         NEW bits \in Seq({0, 1}), NEW i \in 1..Len(bits), NEW w, WentDown(t, bits, none, i - 1, w)
  PROVE  WentDown(t, bits, none, i, BitStep(t, bits, i, w))
<1> DEFINE node == SubSeq(bits, 1, i)
           s == BitStep(t, bits, i, w)
<1>1. Len(bits) \in Nat /\ i \in Nat /\ i - 1 \in Nat
  BY LenProperties
<1>2. (w.reached <=> SubSeq(bits, 1, i - 1) \in t.nodes)
  BY DEF WentDown
<1>3. node \in t.nodes => w.reached
  <2>1. SubSeq(node, 1, i - 1) = SubSeq(bits, 1, i - 1) /\ Len(node) = i
    BY <1>1, PrefixOfPrefix
  <2>2. ASSUME node \in t.nodes PROVE SubSeq(node, 1, i - 1) \in t.nodes
    <3>1. i - 1 \in 0..Len(node)
      BY <1>1, <2>1
    <3> HIDE DEF node
    <3> QED
      BY <2>2, <3>1 DEF Tree
  <2> QED
    BY <1>2, <2>1, <2>2
<1>4. Valued(t, bits, i) => node \in t.nodes
  BY DEF Valued
<1>5. /\ s.reached <=> node \in t.nodes
      /\ s.matched = IF Valued(t, bits, i) THEN t.value[node] ELSE w.matched
  BY <1>3, <1>4, OneBit DEF Valued
<1> HIDE DEF s
<1>6. CASE Valued(t, bits, i)
  <2>1. i \in 0..i /\ \A k \in (i + 1)..i : FALSE
    BY <1>1
  <2> QED
    BY <1>5, <1>6, <2>1 DEF WentDown, s
<1>7. CASE ~Valued(t, bits, i)
  <2>1. \A k \in 0..i : k = i \/ k \in 0..(i - 1)
    BY <1>1
  <2>2. CASE w.matched = none /\ \A j \in 0..(i - 1) : ~Valued(t, bits, j)
    BY <1>5, <1>7, <2>1, <2>2 DEF WentDown, s
  <2>3. ASSUME NEW j \in 0..(i - 1), Valued(t, bits, j), w.matched = t.value[SubSeq(bits, 1, j)],
               \A k \in (j + 1)..(i - 1) : ~Valued(t, bits, k)
        PROVE  WentDown(t, bits, none, i, s)
    <3>1. j \in 0..i /\ \A k \in (j + 1)..i : ~Valued(t, bits, k)
      BY <1>1, <1>7, <2>3
    <3> QED
      BY <1>5, <1>7, <2>3, <3>1 DEF WentDown
  <2> QED
    BY <2>2, <2>3 DEF WentDown, s
<1> QED
  BY <1>6, <1>7

\* IPv4Trie.Find, IPv6Trie.Find: the value of the longest prefix that has one.
LEMMA IPFound ==
  ASSUME NEW t, Tree(t.nodes, {0, 1}), DOMAIN t.value \subseteq t.nodes, NEW none,
         NEW bits \in Seq({0, 1})
  PROVE  /\ \A j \in 0..Len(bits) :
              (Valued(t, bits, j) /\ \A k \in (j + 1)..Len(bits) : ~Valued(t, bits, k)) =>
                FindIP(t, bits, none) = t.value[SubSeq(bits, 1, j)]
         /\ (\A j \in 0..Len(bits) : ~Valued(t, bits, j)) => FindIP(t, bits, none) = none
<1> DEFINE N == Len(bits)
           start == [reached |-> TRUE, matched |-> none]
           walk[i \in 0..N] == BitStep(t, bits, i, IF i = 0 THEN start ELSE walk[i - 1])
           find == FindIP(t, bits, none)
<1>1. N \in Nat
  BY LenProperties
<1>2. find = walk[N].matched
  BY DEF FindIP
<1> HIDE DEF N, start, find
<1>3. walk = [i \in 0..N |-> BitStep(t, bits, i, IF i = 0 THEN start ELSE walk[i - 1])]
  <2>1. \E w : IsBitWalk(t, bits, start, N, w)
    BY <1>1, BitWalk
  <2> QED
    BY <2>1, Zenon DEF walk, IsBitWalk
<1> HIDE DEF walk
<1>4. \A i \in 0..N : WentDown(t, bits, none, i, walk[i])
  <2> DEFINE bad == {i \in 0..N : ~WentDown(t, bits, none, i, walk[i])}
  <2> SUFFICES ASSUME bad # {} PROVE FALSE
    OBVIOUS
  <2>1. PICK d \in bad : \A e \in bad : d <= e
    <3>1. bad \subseteq Nat
      BY <1>1
    <3> QED
      BY <3>1, Smallest
  <2>2. CASE d = 0
    <3>1. walk[0] = BitStep(t, bits, 0, start)
      BY <1>1, <1>3
    <3>2. SubSeq(bits, 1, 0) = <<>> /\ <<>> \in t.nodes
      BY SubSeqEmpty DEF Tree
    <3>3. start.reached = TRUE /\ start.matched = none
      BY DEF start
    <3>4. /\ walk[0].reached
          /\ walk[0].matched = IF Valued(t, bits, 0) THEN t.value[SubSeq(bits, 1, 0)] ELSE none
      <4>1. /\ BitStep(t, bits, 0, start).reached <=>
                 start.reached /\ SubSeq(bits, 1, 0) \in t.nodes
            /\ BitStep(t, bits, 0, start).matched =
                 IF /\ start.reached /\ SubSeq(bits, 1, 0) \in t.nodes
                    /\ SubSeq(bits, 1, 0) \in DOMAIN t.value
                 THEN t.value[SubSeq(bits, 1, 0)] ELSE start.matched
        BY OneBit, SMTT(20)
      <4> QED
        BY <3>1, <3>2, <3>3, <4>1 DEF Valued
    <3>5. 0 \in 0..0 /\ (\A j \in 0..0 : j = 0) /\ \A k \in (0 + 1)..0 : FALSE
      OBVIOUS
    <3>6. WentDown(t, bits, none, 0, walk[0])
      BY <3>2, <3>4, <3>5 DEF WentDown
    <3> QED
      BY <2>1, <2>2, <3>6
  <2>3. CASE d # 0
    <3>1. d \in 1..Len(bits) /\ d - 1 \in 0..N /\ d - 1 \notin bad
      BY <1>1, <2>1, <2>3 DEF N
    <3>2. walk[d] = BitStep(t, bits, d, walk[d - 1])
      BY <1>1, <1>3, <3>1, <2>3
    <3> QED
      BY <2>1, <3>1, <3>2, BitWalked
  <2> QED
    BY <2>2, <2>3
<1>5. WentDown(t, bits, none, N, walk[N])
  BY <1>1, <1>4
<1>6. ASSUME NEW j \in 0..N, Valued(t, bits, j), \A k \in (j + 1)..N : ~Valued(t, bits, k)
      PROVE  find = t.value[SubSeq(bits, 1, j)]
  <2>1. PICK k \in 0..N : /\ Valued(t, bits, k) /\ find = t.value[SubSeq(bits, 1, k)]
                          /\ \A l \in (k + 1)..N : ~Valued(t, bits, l)
    BY <1>2, <1>5, <1>6 DEF WentDown
  <2>2. k = j
    BY <1>1, <1>6, <2>1
  <2> QED
    BY <2>1, <2>2
<1>7. ASSUME \A j \in 0..N : ~Valued(t, bits, j)
      PROVE  find = none
  BY <1>2, <1>5, <1>7 DEF WentDown
<1> QED
  BY <1>6, <1>7 DEF N, find

----
(* The tables. *)

PatternType ==
  [star: {"all"}, path: {<<>>}] \cup [star: {"none", "dot", "bare"}, path: Seq(STRING) \ {<<>>}]

\* Of the first k entries of a table, those that make a wildcard, and those that make an
\* exact entry.
Wild(T, k) == {i \in 1..k : ~Dotless(T[i].pattern) /\ T[i].pattern.star # "none"}
Exact(T, k) == {i \in 1..k : ~Dotless(T[i].pattern) /\ T[i].pattern.star \in {"none", "bare"}}

PathOf(T) == [i \in DOMAIN T |-> T[i].pattern.path]
ValueOf(T) == [i \in DOMAIN T |-> T[i].value]

\* A matcher holds the first k entries of a table.
Holds(m, T, k) ==
  /\ Tree(m.nodes, STRING) /\ DOMAIN m.wildcard \subseteq m.nodes /\ DOMAIN m.exact \subseteq m.nodes
  /\ Latest(m.wildcard, Wild(T, k), PathOf(T), ValueOf(T))
  /\ Latest(m.exact, Exact(T, k), PathOf(T), ValueOf(T))

\* What Add inserts.
LEMMA Inserting ==
  ASSUME NEW m, NEW pattern \in PatternType, NEW value
  PROVE  Add(m, pattern, value) =
           IF Dotless(pattern) THEN m
           ELSE insertPattern(m, pattern.path, value, pattern.star # "none",
                              pattern.star \in {"none", "bare"})
<1>1. CASE pattern.star = "all"
  <2>1. pattern.path = <<>> /\ ~Dotless(pattern)
    BY <1>1 DEF PatternType, Dotless
  <2>2. Add(m, pattern, value) = insertPattern(m, <<>>, value, TRUE, FALSE)
    BY <1>1, <2>1 DEF Add
  <2>3. (pattern.star # "none") = TRUE /\ (pattern.star \in {"none", "bare"}) = FALSE
    BY <1>1
  <2> QED
    BY <2>1, <2>2, <2>3
<1>2. CASE pattern.star # "all" /\ Dotless(pattern)
  BY <1>2 DEF Add
<1>3. CASE pattern.star # "all" /\ ~Dotless(pattern)
  <2>1. Add(m, pattern, value) =
          insertPattern(m, pattern.path, value, pattern.star # "none", pattern.star # "dot")
    BY <1>3 DEF Add
  <2>2. pattern.star \in {"none", "dot", "bare"}
    BY <1>3 DEF PatternType
  <2>3. (pattern.star # "dot") = (pattern.star \in {"none", "bare"})
    BY <2>2
  <2> QED
    BY <1>3, <2>1, <2>3
<1> QED
  BY <1>1, <1>2, <1>3

\* One more entry is added.
LEMMA HoldsOneMore ==
  ASSUME NEW V, NEW T \in Seq([pattern: PatternType, value: V]), NEW k \in 0..(Len(T) - 1),
         NEW m, Holds(m, T, k)
  PROVE  Holds(Add(m, T[k + 1].pattern, T[k + 1].value), T, k + 1)
<1> DEFINE e == T[k + 1]
           r == Add(m, e.pattern, e.value)
<1>1. /\ Len(T) \in Nat /\ k \in Nat /\ k + 1 \in 1..Len(T)
      /\ e \in [pattern: PatternType, value: V] /\ k + 1 \in DOMAIN T
  <2>1. Len(T) \in Nat /\ DOMAIN T = 1..Len(T)
    BY LenProperties
  <2>2. k \in Nat /\ k + 1 \in 1..Len(T)
    BY <2>1
  <2>3. e \in [pattern: PatternType, value: V]
    BY <2>2, ElementOfSeq
  <2> QED
    BY <2>1, <2>2, <2>3
<1>2. e.pattern \in PatternType
  BY <1>1
<1>3. e.pattern.path \in Seq(STRING)
  <2>1. <<>> \in Seq(STRING)
    BY EmptySeq
  <2> QED
    BY <1>2, <2>1 DEF PatternType
<1>4. /\ \A i \in 1..(k + 1) : i = k + 1 \/ i \in 1..k
      /\ \A i \in 1..k : i \in 1..(k + 1) /\ i \in Nat /\ i < k + 1
      /\ k + 1 \in 1..(k + 1)
  BY <1>1
<1>5. CASE Dotless(e.pattern)
  <2>1. r = m
    BY <1>2, <1>5, Inserting
  <2>2. Wild(T, k + 1) = Wild(T, k) /\ Exact(T, k + 1) = Exact(T, k)
    BY <1>4, <1>5 DEF Wild, Exact
  <2> QED
    BY <2>1, <2>2 DEF Holds
<1>6. CASE ~Dotless(e.pattern)
  <2> DEFINE path == e.pattern.path
             star == e.pattern.star
  <2>1. /\ r.nodes = m.nodes \cup Prefixes(path)
        /\ r.wildcard = IF star # "none" THEN Put(m.wildcard, path, e.value) ELSE m.wildcard
        /\ r.exact = IF star \in {"none", "bare"} THEN Put(m.exact, path, e.value) ELSE m.exact
    BY <1>2, <1>6, Inserting DEF insertPattern
  <2>2. PathOf(T)[k + 1] = path /\ ValueOf(T)[k + 1] = e.value
    BY <1>1 DEF PathOf, ValueOf
  <2> HIDE DEF r
  <2>3. Tree(r.nodes, STRING) /\ path \in r.nodes
    BY <1>3, <2>1, Grown DEF Holds
  <2>4. Latest(r.wildcard, Wild(T, k + 1), PathOf(T), ValueOf(T))
    <3>1. CASE star = "none"
      <4>1. Wild(T, k + 1) = Wild(T, k)
        BY <1>4, <3>1 DEF Wild
      <4> QED
        BY <2>1, <3>1, <4>1 DEF Holds
    <3>2. CASE star # "none"
      <4>1. Wild(T, k + 1) = Wild(T, k) \cup {k + 1}
        BY <1>4, <1>6, <3>2 DEF Wild
      <4>2. Wild(T, k) \in SUBSET Nat /\ \A i \in Wild(T, k) : i < k + 1
        BY <1>4 DEF Wild
      <4>3. Latest(m.wildcard, Wild(T, k), PathOf(T), ValueOf(T)) /\ k + 1 \in Nat
        BY <1>1 DEF Holds
      <4>4. Latest(Put(m.wildcard, PathOf(T)[k + 1], ValueOf(T)[k + 1]),
                   Wild(T, k) \cup {k + 1}, PathOf(T), ValueOf(T))
        BY <4>2, <4>3, Written
      <4> QED
        BY <2>1, <2>2, <3>2, <4>1, <4>4
    <3> QED
      BY <3>1, <3>2
  <2>5. Latest(r.exact, Exact(T, k + 1), PathOf(T), ValueOf(T))
    <3>1. CASE star \notin {"none", "bare"}
      <4>1. Exact(T, k + 1) = Exact(T, k)
        BY <1>4, <3>1 DEF Exact
      <4> QED
        BY <2>1, <3>1, <4>1 DEF Holds
    <3>2. CASE star \in {"none", "bare"}
      <4>1. Exact(T, k + 1) = Exact(T, k) \cup {k + 1}
        BY <1>4, <1>6, <3>2 DEF Exact
      <4>2. Exact(T, k) \in SUBSET Nat /\ \A i \in Exact(T, k) : i < k + 1
        BY <1>4 DEF Exact
      <4>3. Latest(m.exact, Exact(T, k), PathOf(T), ValueOf(T)) /\ k + 1 \in Nat
        BY <1>1 DEF Holds
      <4>4. Latest(Put(m.exact, PathOf(T)[k + 1], ValueOf(T)[k + 1]),
                   Exact(T, k) \cup {k + 1}, PathOf(T), ValueOf(T))
        BY <4>2, <4>3, Written
      <4> QED
        BY <2>1, <2>2, <3>2, <4>1, <4>4
    <3> QED
      BY <3>1, <3>2
  <2>6. DOMAIN r.wildcard \subseteq r.nodes /\ DOMAIN r.exact \subseteq r.nodes
    BY <2>1, <2>3 DEF Put, Holds
  <2>7. Holds(r, T, k + 1)
    BY <2>3, <2>4, <2>5, <2>6 DEF Holds
  <2> QED
    BY <2>7 DEF r
<1> QED
  BY <1>5, <1>6

\* added is what Builder.Merge makes of a matcher, one entry after the other.
IsAdding(m, entries, added) ==
  added = [i \in 0..Len(entries) |->
             IF i = 0 THEN m ELSE Add(added[i - 1], entries[i].pattern, entries[i].value)]

\* There is such a function.
LEMMA Adding ==
  ASSUME NEW m, NEW entries, Len(entries) \in Nat
  PROVE  \E added : IsAdding(m, entries, added)
<1> DEFINE Is(w, k) ==
             w = [i \in 0..k |-> IF i = 0 THEN m
                                 ELSE Add(w[i - 1], entries[i].pattern, entries[i].value)]
           bad == {k \in Nat : ~\E w : Is(w, k)}
<1>1. bad = {}
  <2> SUFFICES ASSUME bad # {} PROVE FALSE
    OBVIOUS
  <2>1. PICK d \in bad : \A e \in bad : d <= e
    BY Smallest
  <2>2. CASE d = 0
    <3> DEFINE w == [i \in 0..0 |-> m]
    <3>1. Is(w, 0)
      OBVIOUS
    <3> QED
      BY <2>1, <2>2, <3>1
  <2>3. CASE d # 0
    <3>1. d - 1 \in Nat /\ d - 1 \notin bad
      <4>1. bad \subseteq Nat
        OBVIOUS
      <4> HIDE DEF bad
      <4> QED
        BY <2>1, <2>3, <4>1
    <3>2. PICK v : Is(v, d - 1)
      BY <3>1
    <3> DEFINE w == [i \in 0..d |-> IF i = d THEN Add(v[d - 1], entries[d].pattern, entries[d].value)
                                    ELSE v[i]]
    <3>3. Is(w, d)
      <4>1. \A i \in 0..d :
              w[i] = IF i = 0 THEN m ELSE Add(w[i - 1], entries[i].pattern, entries[i].value)
        BY <2>1, <2>3, <3>2
      <4> QED
        BY <4>1
    <3> QED
      BY <2>1, <3>3
  <2> QED
    BY <2>2, <2>3
<1>2. \E w : Is(w, Len(entries))
  BY <1>1
<1> QED
  BY <1>2 DEF IsAdding

\* A file's entries are added.
LEMMA HoldsMore ==
  ASSUME NEW V, NEW T \in Seq([pattern: PatternType, value: V]), NEW k \in Nat,
         NEW entries, Len(entries) \in Nat, k + Len(entries) <= Len(T),
         \A i \in 1..Len(entries) : T[k + i] = entries[i],
         NEW m, Holds(m, T, k)
  PROVE  Holds(AddAll(m, entries), T, k + Len(entries))
<1> DEFINE N == Len(entries)
           added[i \in 0..N] ==
             IF i = 0 THEN m ELSE Add(added[i - 1], entries[i].pattern, entries[i].value)
<1>1. N \in Nat /\ Len(T) \in Nat
  BY LenProperties
<1>2. AddAll(m, entries) = added[N]
  BY DEF AddAll
<1>3. added = [i \in 0..N |-> IF i = 0 THEN m
                               ELSE Add(added[i - 1], entries[i].pattern, entries[i].value)]
  <2>1. \E w : IsAdding(m, entries, w)
    BY <1>1, Adding
  <2> QED
    BY <2>1, Zenon DEF added, IsAdding
<1> HIDE DEF added
<1> DEFINE bad == {i \in 0..N : ~Holds(added[i], T, k + i)}
<1>4. bad = {}
  <2> SUFFICES ASSUME bad # {} PROVE FALSE
    OBVIOUS
  <2>1. PICK d \in bad : \A e \in bad : d <= e
    <3>1. bad \subseteq Nat
      BY <1>1
    <3> QED
      BY <3>1, Smallest
  <2>2. d # 0
    <3>1. added[0] = m /\ k + 0 = k
      BY <1>1, <1>3
    <3> QED
      BY <2>1, <3>1
  <2>3. /\ d - 1 \in 0..N /\ d - 1 \notin bad /\ d \in 1..N
        /\ k + (d - 1) \in 0..(Len(T) - 1) /\ k + (d - 1) + 1 = k + d
    BY <1>1, <2>1, <2>2
  <2>4. Holds(added[d - 1], T, k + (d - 1))
    BY <2>3
  <2>5. Holds(Add(added[d - 1], T[k + (d - 1) + 1].pattern, T[k + (d - 1) + 1].value),
              T, k + (d - 1) + 1)
    BY <2>3, <2>4, HoldsOneMore
  <2>6. added[d] = Add(added[d - 1], entries[d].pattern, entries[d].value)
    BY <1>1, <1>3, <2>2, <2>3
  <2> QED
    BY <2>1, <2>3, <2>5, <2>6
<1>5. Holds(added[N], T, k + N)
  BY <1>1, <1>4
<1> QED
  BY <1>2, <1>5

\* Of the first k IP policies those of a family.
OfFamily(T, k, family) == {i \in 1..k : T[i].family = family}

PrefixOf(T) == [i \in DOMAIN T |-> T[i].prefix]

\* A trie holds the first k IP policies, those of its family.
Carries(t, T, k, family) ==
  /\ Tree(t.nodes, {0, 1}) /\ DOMAIN t.value \subseteq t.nodes
  /\ Latest(t.value, OfFamily(T, k, family), PrefixOf(T), ValueOf(T))

\* One more prefix is inserted, or one of the other family is left alone.
LEMMA RoutesOneMore ==
  ASSUME NEW F, NEW V, NEW T \in Seq([family: F, prefix: Seq({0, 1}), value: V]),
         NEW k \in 0..(Len(T) - 1), NEW t, NEW family, Carries(t, T, k, family)
  PROVE  Carries(IF T[k + 1].family # family THEN t
                 ELSE InsertIP(t, T[k + 1].prefix, T[k + 1].value), T, k + 1, family)
<1> DEFINE e == T[k + 1]
           r == InsertIP(t, e.prefix, e.value)
<1>1. /\ Len(T) \in Nat /\ k \in Nat /\ k + 1 \in 1..Len(T)
      /\ e \in [family: F, prefix: Seq({0, 1}), value: V] /\ k + 1 \in DOMAIN T
  <2>1. Len(T) \in Nat /\ DOMAIN T = 1..Len(T)
    BY LenProperties
  <2>2. k \in Nat /\ k + 1 \in 1..Len(T)
    BY <2>1
  <2>3. e \in [family: F, prefix: Seq({0, 1}), value: V]
    BY <2>2, ElementOfSeq
  <2> QED
    BY <2>1, <2>2, <2>3
<1>2. e.prefix \in Seq({0, 1})
  BY <1>1
<1>3. /\ \A i \in 1..(k + 1) : i = k + 1 \/ i \in 1..k
      /\ \A i \in 1..k : i \in 1..(k + 1) /\ i \in Nat /\ i < k + 1
      /\ k + 1 \in 1..(k + 1)
  BY <1>1
<1>4. CASE e.family # family
  <2>1. OfFamily(T, k + 1, family) = OfFamily(T, k, family)
    BY <1>3, <1>4 DEF OfFamily
  <2> QED
    BY <1>4, <2>1 DEF Carries
<1>5. CASE e.family = family
  <2>1. OfFamily(T, k + 1, family) = OfFamily(T, k, family) \cup {k + 1}
    BY <1>3, <1>5 DEF OfFamily
  <2>2. PrefixOf(T)[k + 1] = e.prefix /\ ValueOf(T)[k + 1] = e.value
    BY <1>1 DEF PrefixOf, ValueOf
  <2>3. r.nodes = t.nodes \cup Prefixes(e.prefix) /\ r.value = Put(t.value, e.prefix, e.value)
    BY DEF InsertIP
  <2> HIDE DEF r
  <2>4. Tree(r.nodes, {0, 1}) /\ e.prefix \in r.nodes
    <3>1. Tree(t.nodes, {0, 1})
      BY DEF Carries
    <3> QED
      <4>1. /\ Tree(t.nodes \cup Prefixes(e.prefix), {0, 1})
            /\ e.prefix \in t.nodes \cup Prefixes(e.prefix)
        <5> HIDE DEF e
        <5> QED
          BY <1>2, <3>1, Grown, Zenon
      <4> QED
        BY <2>3, <4>1
  <2>5. Latest(t.value, OfFamily(T, k, family), PrefixOf(T), ValueOf(T)) /\ k + 1 \in Nat
    BY <1>1 DEF Carries
  <2>6. OfFamily(T, k, family) \in SUBSET Nat /\ \A i \in OfFamily(T, k, family) : i < k + 1
    BY <1>3 DEF OfFamily
  <2>7. Latest(Put(t.value, PrefixOf(T)[k + 1], ValueOf(T)[k + 1]),
               OfFamily(T, k, family) \cup {k + 1}, PrefixOf(T), ValueOf(T))
    BY <2>5, <2>6, Written
  <2>8. DOMAIN r.value \subseteq r.nodes
    BY <2>3, <2>4 DEF Put, Carries
  <2>9. Carries(r, T, k + 1, family)
    BY <2>1, <2>2, <2>3, <2>4, <2>7, <2>8 DEF Carries
  <2> QED
    BY <1>5, <2>9 DEF r
<1> QED
  BY <1>4, <1>5

\* inserted is what Builder.Merge makes of an IP trie.
IsInserting(t, ips, family, inserted) ==
  inserted = [i \in 0..Len(ips) |->
                IF i = 0 THEN t
                ELSE IF ips[i].family # family THEN inserted[i - 1]
                ELSE InsertIP(inserted[i - 1], ips[i].prefix, ips[i].value)]

\* There is such a function.
LEMMA Inserted ==
  ASSUME NEW t, NEW ips, Len(ips) \in Nat, NEW family
  PROVE  \E inserted : IsInserting(t, ips, family, inserted)
<1> DEFINE Next1(v, i) ==
             IF ips[i].family # family THEN v ELSE InsertIP(v, ips[i].prefix, ips[i].value)
           Is(w, k) == w = [i \in 0..k |-> IF i = 0 THEN t ELSE Next1(w[i - 1], i)]
           bad == {k \in Nat : ~\E w : Is(w, k)}
<1> HIDE DEF Next1
<1>1. bad = {}
  <2> SUFFICES ASSUME bad # {} PROVE FALSE
    OBVIOUS
  <2>1. PICK d \in bad : \A e \in bad : d <= e
    BY Smallest
  <2>2. CASE d = 0
    <3> DEFINE w == [i \in 0..0 |-> t]
    <3>1. Is(w, 0)
      OBVIOUS
    <3> QED
      BY <2>1, <2>2, <3>1
  <2>3. CASE d # 0
    <3>1. d - 1 \in Nat /\ d - 1 \notin bad
      <4>1. bad \subseteq Nat
        OBVIOUS
      <4> HIDE DEF bad
      <4> QED
        BY <2>1, <2>3, <4>1
    <3>2. PICK v : Is(v, d - 1)
      BY <3>1
    <3> DEFINE w == [i \in 0..d |-> IF i = d THEN Next1(v[d - 1], d) ELSE v[i]]
    <3>3. Is(w, d)
      <4>1. \A i \in 0..d : w[i] = IF i = 0 THEN t ELSE Next1(w[i - 1], i)
        BY <2>1, <2>3, <3>2
      <4> QED
        BY <4>1
    <3> QED
      BY <2>1, <3>3
  <2> QED
    BY <2>2, <2>3
<1>2. \E w : Is(w, Len(ips))
  BY <1>1
<1> QED
  BY <1>2 DEF IsInserting, Next1

\* A file's IP policies are inserted.
LEMMA RoutesMore ==
  ASSUME NEW F, NEW V, NEW T \in Seq([family: F, prefix: Seq({0, 1}), value: V]), NEW k \in Nat,
         NEW ips, Len(ips) \in Nat, k + Len(ips) <= Len(T),
         \A i \in 1..Len(ips) : T[k + i] = ips[i],
         NEW t, NEW family, Carries(t, T, k, family)
  PROVE  Carries(InsertAll(t, ips, family), T, k + Len(ips), family)
<1> DEFINE N == Len(ips)
           inserted[i \in 0..N] ==
             IF i = 0 THEN t
             ELSE IF ips[i].family # family THEN inserted[i - 1]
             ELSE InsertIP(inserted[i - 1], ips[i].prefix, ips[i].value)
<1>1. N \in Nat /\ Len(T) \in Nat
  BY LenProperties
<1>2. InsertAll(t, ips, family) = inserted[N]
  BY DEF InsertAll
<1>3. inserted = [i \in 0..N |->
                    IF i = 0 THEN t
                    ELSE IF ips[i].family # family THEN inserted[i - 1]
                    ELSE InsertIP(inserted[i - 1], ips[i].prefix, ips[i].value)]
  <2>1. \E w : IsInserting(t, ips, family, w)
    BY <1>1, Inserted
  <2> QED
    BY <2>1, Zenon DEF inserted, IsInserting
<1> HIDE DEF inserted
<1> DEFINE bad == {i \in 0..N : ~Carries(inserted[i], T, k + i, family)}
<1>4. bad = {}
  <2> SUFFICES ASSUME bad # {} PROVE FALSE
    OBVIOUS
  <2>1. PICK d \in bad : \A e \in bad : d <= e
    <3>1. bad \subseteq Nat
      BY <1>1
    <3> QED
      BY <3>1, Smallest
  <2>2. d # 0
    <3>1. inserted[0] = t /\ k + 0 = k
      BY <1>1, <1>3
    <3> QED
      BY <2>1, <3>1
  <2>3. /\ d - 1 \in 0..N /\ d - 1 \notin bad /\ d \in 1..N
        /\ k + (d - 1) \in 0..(Len(T) - 1) /\ k + (d - 1) + 1 = k + d
    BY <1>1, <2>1, <2>2, SMTT(20)
  <2>4. Carries(inserted[d - 1], T, k + (d - 1), family)
    BY <2>3
  <2>5. Carries(IF T[k + (d - 1) + 1].family # family THEN inserted[d - 1]
                ELSE InsertIP(inserted[d - 1], T[k + (d - 1) + 1].prefix, T[k + (d - 1) + 1].value),
                T, k + (d - 1) + 1, family)
    BY <2>3, <2>4, RoutesOneMore
  <2>6. inserted[d] = IF ips[d].family # family THEN inserted[d - 1]
                      ELSE InsertIP(inserted[d - 1], ips[d].prefix, ips[d].value)
    BY <1>1, <1>3, <2>2, <2>3
  <2> QED
    BY <2>1, <2>3, <2>5, <2>6
<1>5. Carries(inserted[N], T, k + N, family)
  BY <1>1, <1>4
<1> QED
  BY <1>2, <1>5

----
(* The lookups and the tables. *)

\* The keys of f have values of entries of theirs.
ValuesOf(f, I, key, val) == \A x \in DOMAIN f : \E i \in I : key[i] = x /\ f[x] = val[i]

\* The latest entry of a key is one.
LEMMA LatestValue ==
  ASSUME NEW f, NEW N \in Nat, NEW I, I \subseteq 1..N, NEW key, NEW val, Latest(f, I, key, val)
  PROVE  ValuesOf(f, I, key, val)
<1> SUFFICES ASSUME NEW x \in DOMAIN f PROVE \E i \in I : key[i] = x /\ f[x] = val[i]
  BY DEF ValuesOf
<1> DEFINE same == {i \in Nat : i \in I /\ key[i] = x}
<1>1. PICK i \in same : \A j \in same : j <= i
  <2>1. same # {}
    BY DEF Latest
  <2>2. same \subseteq Nat /\ \A j \in same : j <= N
    OBVIOUS
  <2> HIDE DEF same
  <2> QED
    BY <2>1, <2>2, Greatest
<1>2. i \in I /\ \A j \in I : key[j] = key[i] => j <= i
  BY <1>1
<1>3. f[key[i]] = val[i]
  BY <1>2 DEF Latest
<1> QED
  BY <1>1, <1>2, <1>3

\* A prefix is the first part of the sequence.
LEMMA PrefixIs ==
  ASSUME NEW S, NEW s \in Seq(S), NEW t \in Seq(S)
  PROVE  /\ Len(s) \in Nat /\ Len(t) \in Nat
         /\ IsPrefix(s, t) <=> Len(s) <= Len(t) /\ s = SubSeq(t, 1, Len(s))
         /\ (IsPrefix(s, t) /\ s # t) <=> Len(s) < Len(t) /\ s = SubSeq(t, 1, Len(s))
<1>1. Len(s) \in Nat /\ Len(t) \in Nat
  BY LenProperties
<1>2. SubSeq(s, 1, Len(s)) = s /\ SubSeq(t, 1, Len(t)) = t
  BY SubSeqFull
<1>3. IsPrefix(s, t) <=> Len(s) <= Len(t) /\ s = SubSeq(t, 1, Len(s))
  BY <1>2 DEF IsPrefix
<1>4. (Len(s) = Len(t) /\ s = SubSeq(t, 1, Len(s))) => s = t
  BY <1>2
<1> QED
  BY <1>1, <1>3, <1>4

\* What a pattern covers.
LEMMA CoversIs ==
  ASSUME NEW pat \in PatternType, NEW labels \in Seq(STRING)
  PROVE  /\ Len(pat.path) \in Nat /\ pat.star \in {"all", "none", "dot", "bare"}
         /\ pat.star = "all" <=> pat.path = <<>>
         /\ pat.star = "all" <=> Len(pat.path) = 0
         /\ Covers(pat, labels) <=>
              /\ Len(pat.path) <= Len(labels) /\ pat.path = SubSeq(labels, 1, Len(pat.path))
              /\ pat.star = "none" => Len(pat.path) = Len(labels)
              /\ pat.star = "dot" => Len(pat.path) < Len(labels)
<1> DEFINE l == Len(pat.path)
<1>1. /\ pat.star \in {"all", "none", "dot", "bare"} /\ pat.path \in Seq(STRING)
      /\ pat.star = "all" <=> pat.path = <<>>
  <2>1. <<>> \in Seq(STRING)
    BY EmptySeq
  <2> QED
    BY <2>1 DEF PatternType
<1>2. l = 0 <=> pat.path = <<>>
  BY <1>1, EmptySeq
<1>3. /\ l \in Nat /\ Len(labels) \in Nat
      /\ IsPrefix(pat.path, labels) <=> l <= Len(labels) /\ pat.path = SubSeq(labels, 1, l)
      /\ (IsPrefix(pat.path, labels) /\ pat.path # labels) <=>
           l < Len(labels) /\ pat.path = SubSeq(labels, 1, l)
  BY <1>1, PrefixIs
<1>4. SubSeq(labels, 1, 0) = <<>> /\ SubSeq(labels, 1, Len(labels)) = labels
  BY SubSeqEmpty, SubSeqFull
<1>5. CASE pat.star = "all"
  <2>1. Covers(pat, labels)
    BY <1>5 DEF Covers
  <2> QED
    BY <1>1, <1>2, <1>3, <1>4, <1>5, <2>1
<1>6. CASE pat.star = "none"
  <2>1. Covers(pat, labels) <=> pat.path = labels
    BY <1>6 DEF Covers
  <2>2. pat.path = labels <=> l = Len(labels) /\ pat.path = SubSeq(labels, 1, l)
    BY <1>4
  <2> QED
    BY <1>1, <1>2, <1>3, <1>6, <2>1, <2>2
<1>7. CASE pat.star = "dot"
  <2>1. Covers(pat, labels) <=> IsPrefix(pat.path, labels) /\ pat.path # labels
    BY <1>7 DEF Covers, IsStrictPrefix
  <2> QED
    BY <1>1, <1>2, <1>3, <1>7, <2>1
<1>8. CASE pat.star = "bare"
  <2>1. Covers(pat, labels) <=> IsPrefix(pat.path, labels)
    BY <1>8 DEF Covers
  <2> QED
    BY <1>1, <1>2, <1>3, <1>8, <2>1
<1> QED
  BY <1>1, <1>5, <1>6, <1>7, <1>8

\* The entries of a table that cover the domain.
Covering(T) == {i \in DOMAIN T : ~Dotless(T[i].pattern) /\ Covers(T[i].pattern, query)}
Lengths(T) == [i \in DOMAIN T |-> Len(T[i].pattern.path)]
Longest(T) == LastLongest(Covering(T), Lengths(T))

\* What is known of the entry a reader of the files expects.
LEMMA LongestIs ==
  ASSUME NEW V, NEW T \in Seq([pattern: PatternType, value: V]), query \in Seq(STRING)
  PROVE  /\ Len(T) \in Nat /\ DOMAIN T = 1..Len(T)
         /\ \A i \in DOMAIN T :
              /\ T[i].pattern \in PatternType /\ T[i].value \in V
              /\ Lengths(T)[i] = Len(T[i].pattern.path)
              /\ PathOf(T)[i] = T[i].pattern.path /\ ValueOf(T)[i] = T[i].value
         /\ Covering(T) # {} =>
              /\ Longest(T) \in Covering(T)
              /\ \A j \in Covering(T) :
                   \/ Len(T[j].pattern.path) < Len(T[Longest(T)].pattern.path)
                   \/ /\ Len(T[j].pattern.path) = Len(T[Longest(T)].pattern.path)
                      /\ j <= Longest(T)
         /\ \A none : LongestPattern(T, none) =
              IF Covering(T) = {} THEN none ELSE T[Longest(T)].value
<1>1. Len(T) \in Nat /\ DOMAIN T = 1..Len(T)
  BY LenProperties
<1>2. \A i \in DOMAIN T : T[i] \in [pattern: PatternType, value: V]
  BY <1>1, ElementOfSeq
<1>3. \A i \in DOMAIN T : /\ T[i].pattern \in PatternType /\ T[i].value \in V
                          /\ Lengths(T)[i] = Len(T[i].pattern.path)
                          /\ PathOf(T)[i] = T[i].pattern.path /\ ValueOf(T)[i] = T[i].value
  BY <1>2 DEF Lengths, PathOf, ValueOf
<1>4. Len(query) \in Nat
  BY LenProperties
<1>5. \A i \in Covering(T) : i \in DOMAIN T /\ Lengths(T)[i] \in Nat /\ Lengths(T)[i] <= Len(query)
  <2> TAKE i \in Covering(T)
  <2>1. i \in DOMAIN T /\ T[i].pattern \in PatternType /\ Covers(T[i].pattern, query)
    BY <1>3 DEF Covering
  <2> QED
    BY <1>3, <2>1, CoversIs
<1>6. ASSUME Covering(T) # {}
      PROVE
        /\ Longest(T) \in Covering(T)
        /\ \A j \in Covering(T) : \/ Lengths(T)[j] < Lengths(T)[Longest(T)]
                                  \/ /\ Lengths(T)[j] = Lengths(T)[Longest(T)]
                                     /\ j <= Longest(T)
  <2>1. Covering(T) \in SUBSET (1..Len(T))
    BY <1>1 DEF Covering
  <2> QED
    <3> DEFINE S == Covering(T)
               length == Lengths(T)
    <3>1. S \in SUBSET (1..Len(T)) /\ S # {} /\ \A i \in S : length[i] \in Nat /\ length[i] <= Len(query)
      BY <1>5, <1>6, <2>1
    <3> HIDE DEF S, length
    <3>2. /\ LastLongest(S, length) \in S
          /\ \A j \in S : \/ length[j] < length[LastLongest(S, length)]
                          \/ /\ length[j] = length[LastLongest(S, length)]
                             /\ j <= LastLongest(S, length)
      BY <1>1, <1>4, <3>1, LastLongestIs, Zenon
    <3> QED
      BY <3>2 DEF S, length, Longest
<1>7. \A none : LongestPattern(T, none) =
                  IF Covering(T) = {} THEN none ELSE T[Longest(T)].value
  BY DEF LongestPattern, Longest, Covering, Lengths
<1>8. Covering(T) # {} =>
        \A j \in Covering(T) :
          \/ Len(T[j].pattern.path) < Len(T[Longest(T)].pattern.path)
          \/ /\ Len(T[j].pattern.path) = Len(T[Longest(T)].pattern.path)
             /\ j <= Longest(T)
  BY <1>3, <1>5, <1>6
<1> QED
  BY <1>1, <1>3, <1>6, <1>7, <1>8

\* The lookup of a domain in a matcher that holds a table finds the value of the last of
\* the longest entries that cover it.
LEMMA DomainLongest ==
  ASSUME NEW V, NEW none, none \notin V, NEW T \in Seq([pattern: PatternType, value: V]),
         NEW m, Holds(m, T, Len(T)), query \in Seq(STRING)
  PROVE  /\ FindDomain(m, query, none) = LongestPattern(T, none)
         /\ FindDomain(m, query, none) \in V \cup {none}
<1> DEFINE W == Wild(T, Len(T))
           X == Exact(T, Len(T))
           S == Covering(T)
           L == Longest(T)
           path(i) == T[i].pattern.path
           star(i) == T[i].pattern.star
           key == PathOf(T)
           val == ValueOf(T)
           Q == Len(query)
           first(l) == SubSeq(query, 1, l)
<1>1. /\ Len(T) \in Nat /\ DOMAIN T = 1..Len(T) /\ Q \in Nat
      /\ first(Q) = query /\ first(0) = <<>>
  BY LongestIs, LenProperties, SubSeqFull, SubSeqEmpty
<1>2. \A i \in DOMAIN T : /\ T[i].pattern \in PatternType /\ T[i].value \in V
                          /\ key[i] = path(i) /\ val[i] = T[i].value
  <2>1. \A i \in DOMAIN T :
          /\ T[i].pattern \in PatternType /\ T[i].value \in V
          /\ Lengths(T)[i] = Len(T[i].pattern.path)
          /\ PathOf(T)[i] = T[i].pattern.path /\ ValueOf(T)[i] = T[i].value
    BY ONLY T \in Seq([pattern: PatternType, value: V]), query \in Seq(STRING), LongestIs, Zenon
  <2> QED
    BY ONLY <2>1
<1>3. S # {} => /\ L \in S
                /\ \A j \in S : \/ Len(path(j)) < Len(path(L))
                                \/ /\ Len(path(j)) = Len(path(L))
                                   /\ j <= L
  BY LongestIs
<1>4. LongestPattern(T, none) = IF S = {} THEN none ELSE T[L].value
  BY LongestIs
<1>5. \A i \in DOMAIN T :
        /\ Len(path(i)) \in Nat /\ star(i) \in {"all", "none", "dot", "bare"}
        /\ star(i) = "all" <=> path(i) = <<>>
        /\ star(i) = "all" <=> Len(path(i)) = 0
        /\ i \in S <=> /\ ~Dotless(T[i].pattern)
                       /\ Len(path(i)) <= Q /\ path(i) = first(Len(path(i)))
                       /\ star(i) = "none" => Len(path(i)) = Q
                       /\ star(i) = "dot" => Len(path(i)) < Q
  <2> TAKE i \in DOMAIN T
  <2>1. T[i].pattern \in PatternType
    BY <1>2
  <2>2. i \in S <=> ~Dotless(T[i].pattern) /\ Covers(T[i].pattern, query)
    BY DEF Covering
  <2> QED
    <3>1. /\ Len(path(i)) \in Nat /\ star(i) \in {"all", "none", "dot", "bare"}
          /\ star(i) = "all" <=> path(i) = <<>>
          /\ star(i) = "all" <=> Len(path(i)) = 0
          /\ Covers(T[i].pattern, query) <=>
               /\ Len(path(i)) <= Q /\ path(i) = first(Len(path(i)))
               /\ star(i) = "none" => Len(path(i)) = Q
               /\ star(i) = "dot" => Len(path(i)) < Q
      BY <2>1, CoversIs
    <3> HIDE DEF S, path, star, Q, first
    <3> QED
      BY <2>2, <3>1
<1>6. /\ W = {i \in 1..Len(T) : ~Dotless(T[i].pattern) /\ star(i) # "none"}
      /\ X = {i \in 1..Len(T) : ~Dotless(T[i].pattern) /\ star(i) \in {"none", "bare"}}
  BY DEF Wild, Exact
<1>7. Latest(m.wildcard, W, key, val) /\ Latest(m.exact, X, key, val)
  BY DEF Holds
<1>8. S \subseteq DOMAIN T
  BY DEF Covering
<1>9. Searchable(m, none)
  <2>1. ASSUME NEW x \in DOMAIN m.wildcard PROVE m.wildcard[x] # none
    <3>1. W \subseteq 1..Len(T)
      BY <1>6
    <3>2. Len(T) \in Nat /\ x \in DOMAIN m.wildcard
      BY <1>1
    <3>4. Latest(m.wildcard, W, key, val)
      BY <1>7
    <3>5. ValuesOf(m.wildcard, W, key, val)
      <4> HIDE DEF W, key, val
      <4> QED
        BY ONLY <3>1, <3>2, <3>4, LatestValue
    <3>3. PICK i \in W : key[i] = x /\ m.wildcard[x] = val[i]
      <4> HIDE DEF W, key, val
      <4> QED
        BY ONLY <3>2, <3>5 DEF ValuesOf
    <3> QED
      BY <1>1, <1>2, <3>1, <3>3
  <2> QED
    BY <2>1 DEF Searchable, Holds
<1> DEFINE find == FindDomain(m, query, none)
<1>10. /\ query \in DOMAIN m.exact => find = m.exact[query]
       /\ query \notin DOMAIN m.exact =>
            /\ \A j \in 1..Q :
                 (Passed(m, query, j) /\ \A k \in (j + 1)..Q : ~Passed(m, query, k)) =>
                   find = m.wildcard[first(j)]
            /\ (\A j \in 1..Q : ~Passed(m, query, j)) =>
                 find = IF <<>> \in DOMAIN m.wildcard THEN m.wildcard[<<>>] ELSE none
  BY <1>9, DomainFound
<1>11. \A j : Passed(m, query, j) <=> j < Q /\ first(j) \in DOMAIN m.wildcard
  BY DEF Passed
<1>20. \A l \in 0..Q : Len(first(l)) = l
  BY PrefixOfPrefix
<1> HIDE DEF W, X, S, L, path, star, key, val, Q, find, first
\* The whole domain has an exact entry.
<1>12. CASE query \in DOMAIN m.exact
  <2>1. PICK i \in X : path(i) = query
    BY <1>1, <1>2, <1>6, <1>7, <1>12 DEF Latest
  <2>2. i \in DOMAIN T /\ i \in S /\ Len(path(i)) = Q /\ Q # 0
    BY <1>1, <1>5, <1>6, <2>1 DEF Q
  <2>3. L \in S /\ L \in DOMAIN T /\ Len(path(L)) = Q /\ path(L) = query /\ L \in X
    BY <1>1, <1>3, <1>5, <1>6, <1>8, <2>2
  <2>4. \A j \in X : key[j] = key[L] => j <= L
    <3> SUFFICES ASSUME NEW j \in X, key[j] = key[L] PROVE j <= L
      OBVIOUS
    <3>1. j \in DOMAIN T /\ path(j) = query
      BY <1>1, <1>2, <1>6, <2>3
    <3>2. j \in S /\ Len(path(j)) = Q
      BY <1>1, <1>5, <1>6, <2>2, <3>1 DEF Q
    <3> QED
      BY <1>3, <2>3, <3>2
  <2>5. m.exact[query] = T[L].value
    BY <1>2, <1>7, <2>3, <2>4 DEF Latest
  <2> QED
    BY <1>2, <1>4, <1>10, <1>12, <2>3, <2>5 DEF find
\* Otherwise the entry expected is a wildcard.
<1>13. ASSUME query \notin DOMAIN m.exact, S # {}
       PROVE  /\ L \in S /\ L \in DOMAIN T /\ L \in W /\ key[L] = first(Len(path(L)))
              /\ Len(path(L)) < Q \/ star(L) = "all"
  <2>1. L \in S /\ L \in DOMAIN T
    BY <1>3, <1>8, <1>13
  <2>2. L \notin X \/ path(L) # query
    BY <1>1, <1>2, <1>6, <1>7, <1>13, <2>1 DEF Latest
  <2>3. Len(path(L)) < Q \/ star(L) = "all"
    BY <1>1, <1>5, <1>6, <2>1, <2>2
  <2> QED
    BY <1>1, <1>2, <1>5, <1>6, <2>1, <2>3
<1>14. ASSUME query \notin DOMAIN m.exact, S # {}
       PROVE  m.wildcard[key[L]] = T[L].value
  <2>1. \A j \in W : key[j] = key[L] => j <= L
    <3> SUFFICES ASSUME NEW j \in W, key[j] = key[L] PROVE j <= L
      OBVIOUS
    <3>1. j \in DOMAIN T /\ path(j) = path(L) /\ Len(path(j)) = Len(path(L))
      BY <1>1, <1>2, <1>6, <1>13, <1>14
    <3>2. j \in S
      BY <1>1, <1>5, <1>6, <1>13, <1>14, <3>1
    <3> QED
      BY <1>3, <1>5, <1>8, <1>13, <1>14, <3>1, <3>2
  <2> QED
    BY <1>2, <1>7, <1>13, <1>14, <2>1 DEF Latest
<1>15. ASSUME query \notin DOMAIN m.exact, NEW i \in W, Len(path(i)) < Q,
              path(i) = first(Len(path(i)))
       PROVE  i \in S
  BY <1>1, <1>5, <1>6, <1>15
\* A wildcard is passed.
<1>16. ASSUME query \notin DOMAIN m.exact, NEW j \in 1..Q, Passed(m, query, j)
       PROVE  find = T[L].value /\ S # {}
  <2> DEFINE passed == {l \in Nat : l \in 1..Q /\ Passed(m, query, l)}
  <2>1. PICK l \in passed : \A k \in passed : k <= l
    <3>1. passed # {} /\ passed \subseteq Nat /\ \A k \in passed : k <= Q
      BY <1>1, <1>16
    <3> HIDE DEF passed
    <3> QED
      BY <1>1, <3>1, Greatest
  <2>2. l \in 1..Q /\ Passed(m, query, l) /\ \A k \in (l + 1)..Q : ~Passed(m, query, k)
    BY <1>1, <2>1
  <2>3. find = m.wildcard[first(l)]
    BY <1>10, <1>16, <2>2
  <2>4. PICK i \in W : path(i) = first(l)
    BY <1>1, <1>2, <1>6, <1>7, <1>11, <2>2 DEF Latest
  <2>5. Len(path(i)) = l /\ l < Q
    BY <1>1, <1>11, <1>20, <2>2, <2>4
  <2>6. i \in S /\ i \in DOMAIN T
    BY <1>1, <1>6, <1>15, <1>16, <2>4, <2>5
  <2>7. Len(path(L)) \in Nat /\ Len(path(L)) >= l
    BY <1>1, <1>3, <1>5, <1>13, <1>16, <2>5, <2>6
  <2>8. Len(path(L)) \in 1..Q /\ Passed(m, query, Len(path(L)))
    <3>1. Len(path(L)) < Q
      BY <1>1, <1>5, <1>13, <1>16, <2>2, <2>6, <2>7
    <3>2. key[L] \in DOMAIN m.wildcard
      BY <1>7, <1>13, <1>16, <2>6 DEF Latest
    <3> QED
      BY <1>1, <1>11, <1>13, <1>16, <2>2, <2>6, <2>7, <3>1, <3>2
  <2>9. Len(path(L)) = l
    BY <1>1, <2>1, <2>2, <2>7, <2>8
  <2> QED
    BY <1>13, <1>14, <1>16, <2>3, <2>6, <2>9
\* None is, but for the one at the root.
<1>17. ASSUME query \notin DOMAIN m.exact, \A j \in 1..Q : ~Passed(m, query, j)
       PROVE  find = IF S = {} THEN none ELSE T[L].value
  <2>1. find = IF <<>> \in DOMAIN m.wildcard THEN m.wildcard[<<>>] ELSE none
    BY <1>10, <1>17
  <2>2. CASE S # {}
    <3>1. key[L] \in DOMAIN m.wildcard
      BY <1>7, <1>13, <1>17, <2>2 DEF Latest
    <3>2. star(L) = "all"
      <4> SUFFICES ASSUME star(L) # "all" PROVE FALSE
        OBVIOUS
      <4>1. Len(path(L)) \in 1..Q /\ Len(path(L)) < Q
        BY <1>1, <1>5, <1>13, <1>17, <2>2
      <4> QED
        BY <1>11, <1>13, <1>17, <2>2, <3>1, <4>1
    <3>3. key[L] = <<>>
      BY <1>2, <1>5, <1>13, <1>17, <2>2, <3>2
    <3> QED
      BY <1>14, <1>17, <2>1, <2>2, <3>1, <3>3
  <2>3. CASE S = {}
    <3>1. <<>> \notin DOMAIN m.wildcard
      <4> SUFFICES ASSUME <<>> \in DOMAIN m.wildcard PROVE FALSE
        OBVIOUS
      <4>1. PICK i \in W : path(i) = <<>>
        BY <1>1, <1>2, <1>6, <1>7 DEF Latest
      <4>2. i \in DOMAIN T /\ star(i) = "all" /\ Len(path(i)) = 0
        BY <1>1, <1>5, <1>6, <4>1
      <4>3. i \in S
        BY <1>1, <1>5, <1>6, <4>1, <4>2
      <4> QED
        BY <2>3, <4>3
    <3> QED
      BY <2>1, <2>3, <3>1
  <2> QED
    BY <2>2, <2>3
<1>18. find = IF S = {} THEN none ELSE T[L].value
  BY <1>4, <1>12, <1>16, <1>17 DEF find
<1>19. S # {} => T[L].value \in V
  BY <1>2, <1>3, <1>8
<1> QED
  BY <1>4, <1>18, <1>19 DEF find

\* The lookup of an address in a trie that holds the IP policies of its family finds the
\* value of the last of the longest prefixes of the address.
LEMMA AddrLongest ==
  ASSUME NEW F, NEW V, NEW none, NEW T \in Seq([family: F, prefix: Seq({0, 1}), value: V]),
         NEW t, NEW family, Carries(t, T, Len(T), family), NEW bits \in Seq({0, 1})
  PROVE  /\ FindIP(t, bits, none) = LongestPrefix(T, family, bits, none)
         /\ FindIP(t, bits, none) \in V \cup {none}
<1> DEFINE I == OfFamily(T, Len(T), family)
           S == {i \in DOMAIN T : T[i].family = family /\ IsPrefix(T[i].prefix, bits)}
           length == [i \in DOMAIN T |-> Len(T[i].prefix)]
           L == LastLongest(S, length)
           prefix(i) == T[i].prefix
           key == PrefixOf(T)
           val == ValueOf(T)
           Q == Len(bits)
           first(l) == SubSeq(bits, 1, l)
           find == FindIP(t, bits, none)
<1>1. Len(T) \in Nat /\ DOMAIN T = 1..Len(T) /\ Q \in Nat
  BY LenProperties
<1>2. \A i \in DOMAIN T : T[i] \in [family: F, prefix: Seq({0, 1}), value: V]
  BY <1>1, ElementOfSeq
<1>3. \A i \in DOMAIN T : /\ prefix(i) \in Seq({0, 1}) /\ T[i].value \in V
                          /\ key[i] = prefix(i) /\ val[i] = T[i].value /\ length[i] = Len(prefix(i))
  BY <1>2 DEF PrefixOf, ValueOf
<1>4. \A i \in DOMAIN T :
        /\ Len(prefix(i)) \in Nat
        /\ i \in S <=> /\ T[i].family = family
                       /\ Len(prefix(i)) <= Q /\ prefix(i) = first(Len(prefix(i)))
  <2> TAKE i \in DOMAIN T
  <2>1. prefix(i) \in Seq({0, 1})
    BY <1>3
  <2>2. i \in S <=> T[i].family = family /\ IsPrefix(prefix(i), bits)
    OBVIOUS
  <2>3. /\ Len(prefix(i)) \in Nat
        /\ IsPrefix(prefix(i), bits) <=> Len(prefix(i)) <= Q /\ prefix(i) = first(Len(prefix(i)))
    BY <2>1, PrefixIs
  <2> HIDE DEF S, prefix, first, Q
  <2> QED
    BY <2>2, <2>3
<1>5. I = {i \in 1..Len(T) : T[i].family = family} /\ Latest(t.value, I, key, val)
  BY DEF OfFamily, Carries
<1>6. S \subseteq DOMAIN T
  OBVIOUS
<1>7. LongestPrefix(T, family, bits, none) = IF S = {} THEN none ELSE T[L].value
  BY DEF LongestPrefix
<1>8. /\ \A j \in 0..Q : (Valued(t, bits, j) /\ \A k \in (j + 1)..Q : ~Valued(t, bits, k)) =>
                           find = t.value[first(j)]
      /\ (\A j \in 0..Q : ~Valued(t, bits, j)) => find = none
  BY IPFound DEF Carries
<1>9. \A j : Valued(t, bits, j) <=> first(j) \in DOMAIN t.value
  BY DEF Valued
<1>10. \A l \in 0..Q : Len(first(l)) = l
  BY PrefixOfPrefix
<1> HIDE DEF I, S, length, L, prefix, key, val, Q, first, find
<1>11. S # {} => /\ L \in S
                 /\ \A j \in S : \/ length[j] < length[L]
                                 \/ /\ length[j] = length[L]
                                    /\ j <= L
  <2> SUFFICES ASSUME S # {} PROVE /\ L \in S
                                   /\ \A j \in S : \/ length[j] < length[L]
                                                   \/ /\ length[j] = length[L]
                                                      /\ j <= L
    OBVIOUS
  <2>1. S \in SUBSET (1..Len(T)) /\ \A i \in S : length[i] \in Nat /\ length[i] <= Q
    BY <1>1, <1>3, <1>4, <1>6
  <2>2. /\ LastLongest(S, length) \in S
        /\ \A j \in S : \/ length[j] < length[LastLongest(S, length)]
                        \/ /\ length[j] = length[LastLongest(S, length)]
                           /\ j <= LastLongest(S, length)
    BY <1>1, <2>1, LastLongestIs, Zenon
  <2> QED
    BY <2>2 DEF L
\* An entry of the family that is a prefix has a node with a value on the way.
<1>12. ASSUME NEW i \in S
       PROVE  Len(prefix(i)) \in 0..Q /\ Valued(t, bits, Len(prefix(i)))
  <2>1. i \in I /\ i \in DOMAIN T
    BY <1>1, <1>4, <1>5, <1>6
  <2>2. key[i] \in DOMAIN t.value
    BY <1>5, <2>1 DEF Latest
  <2> QED
    BY <1>1, <1>3, <1>4, <1>9, <2>1, <2>2
\* And a node with a value on the way is there for one.
<1>13. ASSUME NEW j \in 0..Q, Valued(t, bits, j)
       PROVE  \E i \in S : Len(prefix(i)) = j
  <2>1. PICK i \in I : key[i] = first(j)
    <3>1. first(j) \in DOMAIN t.value
      BY <1>9, <1>13
    <3>2. DOMAIN t.value = {key[i] : i \in I}
      BY <1>5 DEF Latest
    <3> QED
      BY ONLY <3>1, <3>2
  <2>2. i \in DOMAIN T /\ prefix(i) = first(j) /\ Len(prefix(i)) = j
    BY <1>1, <1>3, <1>5, <1>10, <2>1
  <2> QED
    BY <1>1, <1>4, <1>5, <2>2
<1>14. CASE S = {}
  BY <1>7, <1>8, <1>13, <1>14 DEF find
<1>15. CASE S # {}
  <2> DEFINE l == Len(prefix(L))
  <2>1. L \in S /\ L \in DOMAIN T /\ L \in I /\ l \in 0..Q /\ Valued(t, bits, l)
    BY <1>1, <1>4, <1>5, <1>6, <1>11, <1>12, <1>15
  <2>6. \A j \in S : /\ length[j] \in Nat /\ length[j] = Len(prefix(j)) /\ j \in Nat
                     /\ length[j] < l \/ (length[j] = l /\ j <= L)
    <3>1. ASSUME NEW j \in S
          PROVE  length[j] \in Nat /\ length[j] = Len(prefix(j)) /\ j \in Nat
      BY <1>1, <1>3, <1>4, <1>6
    <3>2. length[L] = l
      BY <2>1, <3>1
    <3> HIDE DEF l
    <3> QED
      BY <1>11, <1>15, <3>1, <3>2
  <2>2. \A k \in (l + 1)..Q : ~Valued(t, bits, k)
    <3> SUFFICES ASSUME NEW k \in (l + 1)..Q, Valued(t, bits, k) PROVE FALSE
      OBVIOUS
    <3>1. k \in 0..Q /\ l < k
      BY <1>1, <2>1
    <3>2. PICK i \in S : Len(prefix(i)) = k
      BY <1>13, <3>1
    <3> QED
      BY <2>1, <2>6, <3>1, <3>2
  <2>3. \A j \in I : key[j] = key[L] => j <= L
    <3> SUFFICES ASSUME NEW j \in I, key[j] = key[L] PROVE j <= L
      OBVIOUS
    <3>1. j \in DOMAIN T /\ prefix(j) = prefix(L)
      BY <1>1, <1>3, <1>5, <2>1
    <3>2. j \in S
      BY <1>1, <1>4, <1>5, <2>1, <3>1
    <3> QED
      BY <2>1, <2>6, <3>1, <3>2
  <2>4. t.value[key[L]] = T[L].value
    BY <1>3, <1>5, <2>1, <2>3 DEF Latest
  <2>5. find = t.value[first(l)] /\ key[L] = first(l) /\ T[L].value \in V
    BY <1>3, <1>4, <1>8, <2>1, <2>2
  <2> QED
    BY <1>7, <1>15, <2>4, <2>5 DEF find
<1> QED
  BY <1>14, <1>15

----
(* The files. *)

\* all is what Entries is defined by.
IsJoining(table, all) ==
  all = [i \in 0..Len(files) |-> IF i = 0 THEN <<>> ELSE all[i - 1] \o files[i][table]]

\* There is such a function.
LEMMA Joining ==
  ASSUME Len(files) \in Nat, NEW table
  PROVE  \E all : IsJoining(table, all)
<1> DEFINE Step(v, i) == v \o files[i][table]
           Is(w, k) == w = [i \in 0..k |-> IF i = 0 THEN <<>> ELSE Step(w[i - 1], i)]
           bad == {k \in Nat : ~\E w : Is(w, k)}
<1> HIDE DEF Step
<1>1. bad = {}
  <2> SUFFICES ASSUME bad # {} PROVE FALSE
    OBVIOUS
  <2>1. PICK d \in bad : \A e \in bad : d <= e
    BY Smallest
  <2>2. CASE d = 0
    <3> DEFINE w == [i \in 0..0 |-> <<>>]
    <3>1. Is(w, 0)
      OBVIOUS
    <3> QED
      BY <2>1, <2>2, <3>1
  <2>3. CASE d # 0
    <3>1. d - 1 \in Nat /\ d - 1 \notin bad
      <4>1. bad \subseteq Nat
        OBVIOUS
      <4> HIDE DEF bad
      <4> QED
        BY <2>1, <2>3, <4>1
    <3>2. PICK v : Is(v, d - 1)
      BY <3>1
    <3> DEFINE w == [i \in 0..d |-> IF i = d THEN Step(v[d - 1], d) ELSE v[i]]
    <3>3. Is(w, d)
      <4>1. \A i \in 0..d : w[i] = IF i = 0 THEN <<>> ELSE Step(w[i - 1], i)
        BY <2>1, <2>3, <3>2
      <4> QED
        BY <4>1
    <3> QED
      BY <2>1, <3>3
  <2> QED
    BY <2>2, <2>3
<1>2. \E w : Is(w, Len(files))
  BY <1>1
<1> QED
  BY <1>2 DEF IsJoining, Step

\* The entries of the first files: those of one file more come after the others.
LEMMA EntriesAre ==
  ASSUME Len(files) \in Nat, NEW table
  PROVE  /\ Entries(table, 0) = <<>>
         /\ \A k \in 0..(Len(files) - 1) :
              Entries(table, k + 1) = Entries(table, k) \o files[k + 1][table]
<1> DEFINE N == Len(files)
           all[i \in 0..N] == IF i = 0 THEN <<>> ELSE all[i - 1] \o files[i][table]
<1>1. \A k : Entries(table, k) = all[k]
  BY DEF Entries
<1>2. all = [i \in 0..N |-> IF i = 0 THEN <<>> ELSE all[i - 1] \o files[i][table]]
  <2>1. \E w : IsJoining(table, w)
    BY Joining
  <2> QED
    BY <2>1, Zenon DEF all, IsJoining
<1> HIDE DEF all
<1>3. all[0] = <<>>
  BY <1>2
<1>4. ASSUME NEW k \in 0..(N - 1)
      PROVE  all[k + 1] = all[k] \o files[k + 1][table]
  <2>1. k + 1 \in 0..N /\ k + 1 # 0 /\ k + 1 - 1 = k
    OBVIOUS
  <2> QED
    BY <1>2, <2>1
<1> QED
  BY <1>1, <1>3, <1>4

\* They are of the type the tables of the files have.
LEMMA EntriesTyped ==
  ASSUME Len(files) \in Nat, NEW table, NEW X, NEW K \in 0..Len(files),
         \A i \in 1..K : files[i][table] \in Seq(X)
  PROVE  \A k \in 0..K : Entries(table, k) \in Seq(X)
<1> DEFINE bad == {k \in 0..K : Entries(table, k) \notin Seq(X)}
<1> SUFFICES ASSUME bad # {} PROVE FALSE
  OBVIOUS
<1>1. PICK d \in bad : \A e \in bad : d <= e
  <2>1. bad \subseteq Nat
    OBVIOUS
  <2> HIDE DEF bad
  <2> QED
    BY <2>1, Smallest
<1>2. d # 0
  BY <1>1, EntriesAre, EmptySeq
<1>3. d \in 1..K /\ d - 1 \in 0..(Len(files) - 1) /\ d - 1 \notin bad /\ d - 1 + 1 = d /\ d - 1 \in 0..K
  BY <1>1, <1>2
<1>4. Entries(table, d) = Entries(table, d - 1) \o files[d][table]
  BY <1>3, EntriesAre
<1>5. Entries(table, d - 1) \in Seq(X) /\ files[d][table] \in Seq(X)
  BY <1>3
<1>6. Entries(table, d - 1) \o files[d][table] \in Seq(X)
  BY ONLY <1>5, ConcatProperties
<1> QED
  BY <1>1, <1>4, <1>6

\* s begins with r.
Extends(s, r) == Len(r) <= Len(s) /\ \A i \in 1..Len(r) : s[i] = r[i]

\* The entries of one file more are those that follow in the whole table.
LEMMA EntriesFollow ==
  ASSUME Len(files) \in Nat, NEW table, NEW X,
         \A i \in 1..Len(files) : files[i][table] \in Seq(X), NEW k \in 0..(Len(files) - 1)
  PROVE  /\ Len(Entries(table, k)) \in Nat /\ Len(files[k + 1][table]) \in Nat
         /\ Len(Entries(table, k + 1)) = Len(Entries(table, k)) + Len(files[k + 1][table])
         /\ Len(Entries(table, k + 1)) <= Len(All(table))
         /\ \A i \in 1..Len(files[k + 1][table]) :
              All(table)[Len(Entries(table, k)) + i] = files[k + 1][table][i]
<1> DEFINE N == Len(files)
           E(j) == Entries(table, j)
           f == files[k + 1][table]
<1>1. /\ k \in Nat /\ k + 1 \in 1..N /\ k \in 0..N /\ k + 1 \in 0..N
      /\ \A j \in 0..N : E(j) \in Seq(X)
      /\ f \in Seq(X)
  BY EntriesTyped
<1>2. \A j \in 0..N : Len(E(j)) \in Nat
  BY <1>1, LenProperties
<1>3. \A j \in 0..(N - 1) : E(j + 1) = E(j) \o files[j + 1][table]
  BY EntriesAre
<1>4. \A j \in 0..(N - 1) : files[j + 1][table] \in Seq(X)
  OBVIOUS
<1>5. ASSUME NEW j \in 0..(N - 1)
      PROVE  /\ Len(E(j + 1)) = Len(E(j)) + Len(files[j + 1][table])
             /\ \A i \in 1..Len(E(j)) : E(j + 1)[i] = E(j)[i]
             /\ \A i \in 1..Len(files[j + 1][table]) :
                  E(j + 1)[Len(E(j)) + i] = files[j + 1][table][i]
             /\ Len(files[j + 1][table]) \in Nat
  <2> DEFINE s == E(j)
             r == files[j + 1][table]
  <2>1. s \in Seq(X) /\ r \in Seq(X) /\ E(j + 1) = s \o r
    BY <1>1, <1>3, <1>4, SMTT(20)
  <2> HIDE DEF s, r
  <2>2. /\ Len(s \o r) = Len(s) + Len(r) /\ Len(s) \in Nat /\ Len(r) \in Nat
        /\ \A i \in 1..(Len(s) + Len(r)) : (s \o r)[i] = IF i <= Len(s) THEN s[i] ELSE r[i - Len(s)]
    BY <2>1, ConcatProperties, LenProperties
  <2>3. \A i \in 1..Len(s) : (s \o r)[i] = s[i]
    BY <2>2
  <2>4. \A i \in 1..Len(r) : (s \o r)[Len(s) + i] = r[i]
    <3> TAKE i \in 1..Len(r)
    <3>1. Len(s) + i \in 1..(Len(s) + Len(r)) /\ ~(Len(s) + i <= Len(s)) /\ Len(s) + i - Len(s) = i
      BY <2>2
    <3> QED
      BY <2>2, <3>1
  <2>5. /\ Len(E(j + 1)) = Len(s) + Len(r)
        /\ \A i \in 1..Len(s) : E(j + 1)[i] = s[i]
        /\ \A i \in 1..Len(r) : E(j + 1)[Len(s) + i] = r[i]
    BY <2>1, <2>2, <2>3, <2>4
  <2> QED
    BY <2>2, <2>5 DEF s, r
<1> HIDE DEF E, f
<1>6. Extends(E(N), E(k + 1))
  <2> DEFINE bad == {j \in Nat : j \in (k + 1)..N /\ ~Extends(E(j), E(k + 1))}
  <2> SUFFICES ASSUME bad # {} PROVE FALSE
    BY <1>1
  <2>1. PICK d \in bad : \A e \in bad : d <= e
    BY Smallest
  <2>2. d # k + 1
    BY <1>1, <1>2, <2>1 DEF Extends
  <2>3. d - 1 \in (k + 1)..N /\ d - 1 \in Nat /\ d - 1 \notin bad /\ d - 1 \in 0..(N - 1) /\ d - 1 + 1 = d
    BY <1>1, <2>1, <2>2
  <2>4. Extends(E(d - 1), E(k + 1))
    BY <2>3
  <2>5. Len(E(d - 1)) <= Len(E(d)) /\ \A i \in 1..Len(E(d - 1)) : E(d)[i] = E(d - 1)[i]
    <3>1. /\ Len(E(d)) = Len(E(d - 1)) + Len(files[d][table])
          /\ \A i \in 1..Len(E(d - 1)) : E(d)[i] = E(d - 1)[i]
          /\ Len(files[d][table]) \in Nat
      BY <1>5, <2>3
    <3>2. Len(E(d - 1)) \in Nat
      BY <1>2, <2>3
    <3>3. \A x, y, z : x \in Nat /\ y \in Nat /\ z = x + y => x <= z
      OBVIOUS
    <3>4. Len(E(d - 1)) <= Len(E(d))
      BY ONLY <3>1, <3>2, <3>3
    <3> QED
      BY <3>1, <3>4
  <2>6. Len(E(d - 1)) \in Nat /\ Len(E(d)) \in Nat /\ Len(E(k + 1)) \in Nat
    BY <1>1, <1>2, <2>3
  <2>7. Extends(E(d), E(k + 1))
    BY <2>4, <2>5, <2>6 DEF Extends
  <2> QED
    BY <2>1, <2>7
<1>7. /\ Len(E(k)) \in Nat /\ Len(f) \in Nat
      /\ Len(E(k + 1)) = Len(E(k)) + Len(f)
      /\ \A i \in 1..Len(f) : E(k + 1)[Len(E(k)) + i] = f[i]
  BY <1>1, <1>2, <1>5 DEF f
<1>8. ASSUME NEW i \in 1..Len(f)
      PROVE  E(N)[Len(E(k)) + i] = f[i]
  <2>1. Len(E(k)) + i \in 1..Len(E(k + 1))
    BY <1>7
  <2> QED
    BY <1>6, <1>7, <2>1 DEF Extends
<1>9. Len(E(k + 1)) <= Len(E(N))
  BY <1>6 DEF Extends
<1> QED
  BY <1>7, <1>8, <1>9 DEF E, f, All

\* As long as the files stay, so do their tables.
LEMMA SameFiles ==
  ASSUME UNCHANGED files, NEW table, NEW k
  PROVE  Entries(table, k)' = Entries(table, k)
  BY DEF Entries

\* An option is set by one file more, or it is not.
LEMMA OneMore ==
  ASSUME NEW option, NEW unset, NEW none, NEW k \in Nat
  PROVE  /\ files[k + 1][option] = unset =>
              LastSet(option, k + 1, unset, none) = LastSet(option, k, unset, none)
         /\ files[k + 1][option] # unset =>
              LastSet(option, k + 1, unset, none) = files[k + 1][option]
<1> DEFINE S(j) == {i \in 1..j : files[i][option] # unset}
           last(j) == CHOOSE i \in S(j) : \A l \in S(j) : l <= i
<1>1. \A j : LastSet(option, j, unset, none) = IF S(j) = {} THEN none ELSE files[last(j)][option]
  BY DEF LastSet
<1>2. CASE files[k + 1][option] = unset
  <2>1. S(k + 1) = S(k)
    BY <1>2
  <2> QED
    BY <1>1, <1>2, <2>1
<1>3. CASE files[k + 1][option] # unset
  <2>1. k + 1 \in S(k + 1) /\ \A l \in S(k + 1) : l <= k + 1
    BY <1>3
  <2>2. last(k + 1) \in S(k + 1) /\ \A l \in S(k + 1) : l <= last(k + 1)
    BY <2>1
  <2>3. last(k + 1) = k + 1
    BY <2>1, <2>2
  <2> QED
    BY <1>1, <1>3, <2>1, <2>3
<1> QED
  BY <1>2, <1>3

\* No file sets an option yet.
LEMMA NoneYet ==
  ASSUME NEW option, NEW unset, NEW none
  PROVE  LastSet(option, 0, unset, none) = none
  BY DEF LastSet

\* An empty matcher and an empty trie.
LEMMA EmptyTries ==
  ASSUME NEW T, NEW family
  PROVE  Holds(NewDomainMatcher, T, 0) /\ Carries(NewIPTrie, T, 0, family)
<1>1. \A A : Tree({<<>>}, A)
  BY DEF Tree
<1>2. Wild(T, 0) = {} /\ Exact(T, 0) = {} /\ OfFamily(T, 0, family) = {}
  BY DEF Wild, Exact, OfFamily
<1>3. DOMAIN <<>> = {} /\ \A key, val : Latest(<<>>, {}, key, val)
  BY DEF Latest
<1>4. DOMAIN <<>> \subseteq {<<>>}
  BY <1>3
<1>5. /\ NewDomainMatcher.nodes = {<<>>} /\ NewDomainMatcher.wildcard = <<>> /\ NewDomainMatcher.exact = <<>>
      /\ NewIPTrie.nodes = {<<>>} /\ NewIPTrie.value = <<>>
  BY DEF NewDomainMatcher, NewIPTrie
<1>6. Holds(NewDomainMatcher, T, 0)
  BY <1>1, <1>2, <1>3, <1>4, <1>5 DEF Holds
<1>7. Carries(NewIPTrie, T, 0, family)
  BY <1>1, <1>2, <1>3, <1>4, <1>5 DEF Carries
<1> QED
  BY <1>6, <1>7

----
(* The invariant. *)

\* The files: keys of patterns and prefixes, and values newPolicy may have rejected.
Values == AnyPolicy \cup {BadPolicy}
File ==
  [pools: SUBSET STRING, default: Values \cup {NoPolicy},
   domains: Seq([pattern: PatternType, value: Values]),
   ips: Seq([family: {"v4", "v6", "bad"}, prefix: Seq({0, 1}), value: Values]),
   hosts: Seq([pattern: PatternType, value: Hosts]),
   socks5: STRING]

\* The program is started with any files, and asked for anything.
Init == \E fs \in Seq(File), labels \in Seq(STRING), ip \in BOOLEAN : Start(fs, labels, ip)

Spec == Init /\ [][Next]_allVars

\* Merge has not rejected a file for what it says.
Accepted(f) ==
  /\ f.default # BadPolicy
  /\ \A i \in DOMAIN f.domains : f.domains[i].value # BadPolicy
  /\ \A i \in DOMAIN f.ips : f.ips[i].value # BadPolicy /\ f.ips[i].family # "bad"

\* The tries hold the entries of the first n files.
TriesHold ==
  /\ Holds(b.domains, All("domains"), Len(Entries("domains", n)))
  /\ Holds(b.hosts, All("hosts"), Len(Entries("hosts", n)))
  /\ Carries(b.ipv4, All("ips"), Len(Entries("ips", n)), "v4")
  /\ Carries(b.ipv6, All("ips"), Len(Entries("ips", n)), "v6")

\* So does the rest of the Builder.
OptionsSet ==
  /\ b.default \in AnyPolicy /\ b.default = LastSet("default", n, NoPolicy, Unset)
  /\ b.socks5 = LastSet("socks5", n, "unset", "")
  /\ \A i \in 1..n : files[i].pools \subseteq b.pools /\ Accepted(files[i])
  /\ \A i, j \in 1..n : i < j => files[i].pools \cap files[j].pools = {}

Loading ==
  /\ files \in Seq(File) /\ query \in Seq(STRING)
  /\ pc = "load" => n \in 0..Len(files) /\ TriesHold /\ OptionsSet

RInv == IInv /\ Loading /\ LongestMatch

\* A table of the files.
LEMMA TablesOfFiles ==
  ASSUME files \in Seq(File)
  PROVE  /\ Len(files) \in Nat /\ DOMAIN files = 1..Len(files)
         /\ \A i \in 1..Len(files) :
              /\ files[i] \in File
              /\ files[i]["domains"] \in Seq([pattern: PatternType, value: Values])
              /\ files[i]["hosts"] \in Seq([pattern: PatternType, value: Hosts])
              /\ files[i]["ips"] \in
                   Seq([family: {"v4", "v6", "bad"}, prefix: Seq({0, 1}), value: Values])
<1>1. Len(files) \in Nat /\ DOMAIN files = 1..Len(files) /\ \A i \in 1..Len(files) : files[i] \in File
  BY LenProperties, ElementOfSeq
<1>2. ASSUME NEW f \in File
      PROVE  /\ f.domains \in Seq([pattern: PatternType, value: Values])
             /\ f.hosts \in Seq([pattern: PatternType, value: Hosts])
             /\ f.ips \in
                  Seq([family: {"v4", "v6", "bad"}, prefix: Seq({0, 1}), value: Values])
  BY DEF File
<1> QED
  BY <1>1, <1>2

\* The whole tables.
LEMMA AllTyped ==
  ASSUME files \in Seq(File)
  PROVE  /\ All("domains") \in Seq([pattern: PatternType, value: Values])
         /\ All("hosts") \in Seq([pattern: PatternType, value: Hosts])
         /\ All("ips") \in Seq([family: {"v4", "v6", "bad"}, prefix: Seq({0, 1}), value: Values])
<1>1. Len(files) \in Nat /\ Len(files) \in 0..Len(files)
  BY TablesOfFiles
<1>2. All("domains") \in Seq([pattern: PatternType, value: Values])
  BY <1>1, TablesOfFiles, EntriesTyped DEF All
<1>3. All("hosts") \in Seq([pattern: PatternType, value: Hosts])
  BY <1>1, TablesOfFiles, EntriesTyped DEF All
<1>4. All("ips") \in Seq([family: {"v4", "v6", "bad"}, prefix: Seq({0, 1}), value: Values])
  BY <1>1, TablesOfFiles, EntriesTyped DEF All
<1> QED
  BY <1>2, <1>3, <1>4

\* A function on the first numbers is a sequence.
LEMMA IsSeq ==
  ASSUME NEW S, NEW k \in Nat, NEW s \in [1..k -> S]
  PROVE  s \in Seq(S)
<1>1. s = [j \in 1..k |-> s[j]] /\ \A j \in 1..k : s[j] \in S
  OBVIOUS
<1>2. [j \in 1..k |-> s[j]] \in Seq(S)
  BY <1>1, IsASeq
<1> QED
  BY <1>1, <1>2

\* The whole tables when no file is rejected.
LEMMA AllAccepted ==
  ASSUME files \in Seq(File), \A i \in 1..Len(files) : Accepted(files[i])
  PROVE  /\ All("domains") \in Seq([pattern: PatternType, value: AnyPolicy])
         /\ All("ips") \in Seq([family: {"v4", "v6", "bad"}, prefix: Seq({0, 1}), value: AnyPolicy])
<1>1. Len(files) \in Nat /\ Len(files) \in 0..Len(files)
  BY TablesOfFiles
<1>2. ASSUME NEW i \in 1..Len(files)
      PROVE  files[i]["domains"] \in Seq([pattern: PatternType, value: AnyPolicy])
  <2> DEFINE s == files[i]["domains"]
  <2>1. s \in Seq([pattern: PatternType, value: Values]) /\ files[i] \in File
    BY TablesOfFiles
  <2>2. \A j \in DOMAIN s : s[j].value # BadPolicy
    BY DEF Accepted
  <2> HIDE DEF s
  <2>3. Len(s) \in Nat /\ DOMAIN s = 1..Len(s)
        /\ \A j \in 1..Len(s) : s[j] \in [pattern: PatternType, value: Values]
    BY <2>1, LenProperties, ElementOfSeq
  <2>4. \A j \in 1..Len(s) : s[j] \in [pattern: PatternType, value: AnyPolicy]
    BY <2>2, <2>3 DEF Values
  <2>5. s \in [1..Len(s) -> [pattern: PatternType, value: AnyPolicy]]
    BY <2>1, <2>3, <2>4, LenProperties
  <2>6. s \in Seq([pattern: PatternType, value: AnyPolicy])
    BY <2>3, <2>5, IsSeq
  <2> QED
    BY <2>6 DEF s
<1>3. ASSUME NEW i \in 1..Len(files)
      PROVE  files[i]["ips"] \in
               Seq([family: {"v4", "v6", "bad"}, prefix: Seq({0, 1}), value: AnyPolicy])
  <2> DEFINE s == files[i]["ips"]
             F == {"v4", "v6", "bad"}
  <2>1. s \in Seq([family: F, prefix: Seq({0, 1}), value: Values])
    BY TablesOfFiles
  <2>2. \A j \in DOMAIN s : s[j].value # BadPolicy
    BY DEF Accepted
  <2> HIDE DEF s, F
  <2>3. Len(s) \in Nat /\ DOMAIN s = 1..Len(s)
        /\ \A j \in 1..Len(s) : s[j] \in [family: F, prefix: Seq({0, 1}), value: Values]
    BY <2>1, LenProperties, ElementOfSeq
  <2>4. \A j \in 1..Len(s) : s[j] \in [family: F, prefix: Seq({0, 1}), value: AnyPolicy]
    BY <2>2, <2>3 DEF Values
  <2>5. s \in [1..Len(s) -> [family: F, prefix: Seq({0, 1}), value: AnyPolicy]]
    BY <2>1, <2>3, <2>4, LenProperties
  <2>6. s \in Seq([family: F, prefix: Seq({0, 1}), value: AnyPolicy])
    BY <2>3, <2>5, IsSeq
  <2> QED
    BY <2>6 DEF s, F
<1>4. All("domains") \in Seq([pattern: PatternType, value: AnyPolicy])
  BY <1>1, <1>2, EntriesTyped DEF All
<1>5. All("ips") \in Seq([family: {"v4", "v6", "bad"}, prefix: Seq({0, 1}), value: AnyPolicy])
  BY <1>1, <1>3, EntriesTyped DEF All
<1> QED
  BY <1>4, <1>5

----
(* Merge and Build. *)

\* Nothing of what the proofs about policies look at has changed.
LEMMA NothingNew ==
  ASSUME IInv, UNCHANGED vars
  PROVE  IInv'
<1>1. UNCHANGED <<isIP, stopIfNone, default, domain, ipPolicy, hosts, pc, host, p, addr, result>>
  BY DEF vars
<1>2. Chain' = Chain /\ DoHChain' = DoHChain /\ getIPPolicy(addr)' = getIPPolicy(addr)
  BY <1>1 DEF Chain, DoHChain, getIPPolicy
<1>3. Chosen(Chain)' = Chosen(Chain) /\ Chosen(DoHChain)' = Chosen(DoHChain)
  BY <1>2 DEF Chosen
<1>4. Tables' /\ AtStart' /\ AtDomain' /\ AtAddr' /\ AtDial' /\ Unanswered'
  BY <1>1, ZenonT(40) DEF IInv, Tables, AtStart, AtDomain, AtAddr, AtDial, Unanswered, DomainPolicy,
              Decides, Blank, AddrPolicy, getIPPolicy
<1>5. BlockRespected' /\ MostSpecificWins' /\ DoHPolicyRight'
  BY <1>1, <1>2, <1>3 DEF IInv, BlockRespected, MostSpecificWins, DoHPolicyRight, Served
<1>6. TypeOK'
  BY <1>1, <1>4 DEF IInv, DestinationRight, TypeOK
<1>7. DestinationRight'
  BY <1>1, <1>6 DEF IInv, DestinationRight, Served, Blank
<1> QED
  BY <1>4, <1>5, <1>7 DEF IInv

\* No policies are looked up yet, or no longer.
LEMMA Idle ==
  ASSUME Tables, pc \in {"load", "exit", "start", "doh"}, host = ZeroHost, p = NoPolicy,
         addr = "none", result = noResult
  PROVE  IInv
<1>1. TypeOK
  BY DEF TypeOK, AnyHost, Dsts, noResult
<1> QED
  BY <1>1 DEF IInv, AtStart, AtDomain, AtAddr, AtDial, Unanswered, BlockRespected,
              MostSpecificWins, DestinationRight, DoHPolicyRight, Served

\* The program starts.
LEMMA Starting == Init => RInv
<1> SUFFICES ASSUME NEW fs \in Seq(File), NEW labels \in Seq(STRING), NEW ip \in BOOLEAN,
                    Start(fs, labels, ip)
             PROVE  RInv
  BY DEF Init
<1>1. Tables
  BY DEF Start, Tables, AnyPolicy, AnyHost, Unset, Modes, MapTos, NoHost
<1>2. IInv
  BY <1>1, Idle DEF Start
<1>3. files \in Seq(File) /\ query \in Seq(STRING) /\ n = 0 /\ b = NewBuilder /\ pc = "load"
  BY DEF Start
<1>4. Len(files) \in Nat
  BY <1>3, TablesOfFiles
<1>5. \A table : Len(Entries(table, 0)) = 0
  BY <1>4, EntriesAre, EmptySeq
<1>6. TriesHold
  <2>1. /\ b.domains = NewDomainMatcher /\ b.hosts = NewDomainMatcher
        /\ b.ipv4 = NewIPTrie /\ b.ipv6 = NewIPTrie
    BY <1>3 DEF NewBuilder
  <2> QED
    BY <1>3, <1>5, <2>1, EmptyTries DEF TriesHold
<1>7. OptionsSet
  <2>1. b.default = Unset /\ b.socks5 = ""
    BY <1>3 DEF NewBuilder
  <2>2. Unset \in AnyPolicy
    BY DEF AnyPolicy, AnyHost, Unset, Modes, MapTos
  <2>3. LastSet("default", 0, NoPolicy, Unset) = Unset /\ LastSet("socks5", 0, "unset", "") = ""
    BY NoneYet
  <2>4. \A i \in 1..n : FALSE
    BY <1>3
  <2>5. b.default = LastSet("default", n, NoPolicy, Unset) /\ b.socks5 = LastSet("socks5", n, "unset", "")
    BY <1>3, <2>1, <2>3
  <2> QED
    BY <2>1, <2>2, <2>4, <2>5 DEF OptionsSet
<1> QED
  BY <1>2, <1>3, <1>4, <1>6, <1>7 DEF RInv, Loading, LongestMatch

\* The merge of a file adds its entries to the tries.
LEMMA TriesGrow ==
  ASSUME Loading, pc = "load", n < Len(files), NEW f, f = files[n + 1]
  PROVE  /\ Holds(AddAll(b.domains, f.domains), All("domains"), Len(Entries("domains", n + 1)))
         /\ Holds(AddAll(b.hosts, f.hosts), All("hosts"), Len(Entries("hosts", n + 1)))
         /\ Carries(InsertAll(b.ipv4, f.ips, "v4"), All("ips"), Len(Entries("ips", n + 1)), "v4")
         /\ Carries(InsertAll(b.ipv6, f.ips, "v6"), All("ips"), Len(Entries("ips", n + 1)), "v6")
<1> DEFINE D == [pattern: PatternType, value: Values]
           H == [pattern: PatternType, value: Hosts]
           F == {"v4", "v6", "bad"}
           I == [family: F, prefix: Seq({0, 1}), value: Values]
           E(table, k) == Entries(table, k)
<1>1. /\ files \in Seq(File) /\ TriesHold /\ Len(files) \in Nat /\ n \in 0..(Len(files) - 1)
      /\ n + 1 \in 1..Len(files)
  BY TablesOfFiles DEF Loading
<1>2. \A i \in 1..Len(files) : /\ files[i]["domains"] \in Seq(D) /\ files[i]["hosts"] \in Seq(H)
                               /\ files[i]["ips"] \in Seq(I)
  BY <1>1, TablesOfFiles
<1>3. All("domains") \in Seq(D) /\ All("hosts") \in Seq(H) /\ All("ips") \in Seq(I)
  BY <1>1, AllTyped
<1> HIDE DEF D, H, I
<1>4. Holds(AddAll(b.domains, f.domains), All("domains"), Len(Entries("domains", n + 1)))
  <2>1. /\ Len(E("domains", n)) \in Nat /\ Len(f.domains) \in Nat
        /\ Len(E("domains", n + 1)) = Len(E("domains", n)) + Len(f.domains)
        /\ Len(E("domains", n + 1)) <= Len(All("domains"))
        /\ \A i \in 1..Len(f.domains) : All("domains")[Len(E("domains", n)) + i] = f.domains[i]
    BY <1>1, <1>2, EntriesFollow
  <2>2. Holds(b.domains, All("domains"), Len(E("domains", n)))
    BY <1>1 DEF TriesHold
  <2> QED
    BY <1>3, <2>1, <2>2, HoldsMore DEF D
<1>5. Holds(AddAll(b.hosts, f.hosts), All("hosts"), Len(Entries("hosts", n + 1)))
  <2>1. /\ Len(E("hosts", n)) \in Nat /\ Len(f.hosts) \in Nat
        /\ Len(E("hosts", n + 1)) = Len(E("hosts", n)) + Len(f.hosts)
        /\ Len(E("hosts", n + 1)) <= Len(All("hosts"))
        /\ \A i \in 1..Len(f.hosts) : All("hosts")[Len(E("hosts", n)) + i] = f.hosts[i]
    BY <1>1, <1>2, EntriesFollow
  <2>2. Holds(b.hosts, All("hosts"), Len(E("hosts", n)))
    BY <1>1 DEF TriesHold
  <2> QED
    BY <1>3, <2>1, <2>2, HoldsMore DEF H
<1>6. /\ Len(E("ips", n)) \in Nat /\ Len(f.ips) \in Nat
      /\ Len(E("ips", n + 1)) = Len(E("ips", n)) + Len(f.ips)
      /\ Len(E("ips", n + 1)) <= Len(All("ips"))
      /\ \A i \in 1..Len(f.ips) : All("ips")[Len(E("ips", n)) + i] = f.ips[i]
  BY <1>1, <1>2, EntriesFollow
<1>7. /\ Carries(b.ipv4, All("ips"), Len(E("ips", n)), "v4")
      /\ Carries(b.ipv6, All("ips"), Len(E("ips", n)), "v6")
  BY <1>1 DEF TriesHold
<1>8. /\ Carries(InsertAll(b.ipv4, f.ips, "v4"), All("ips"), Len(E("ips", n)) + Len(f.ips), "v4")
      /\ Carries(InsertAll(b.ipv6, f.ips, "v6"), All("ips"), Len(E("ips", n)) + Len(f.ips), "v6")
  <2> DEFINE T == All("ips")
             k == Len(E("ips", n))
  <2>1. /\ T \in Seq([family: F, prefix: Seq({0, 1}), value: Values])
        /\ k \in Nat /\ Len(f.ips) \in Nat /\ k + Len(f.ips) <= Len(T)
        /\ \A i \in 1..Len(f.ips) : T[k + i] = f.ips[i]
        /\ Carries(b.ipv4, T, k, "v4") /\ Carries(b.ipv6, T, k, "v6")
    BY <1>3, <1>6, <1>7 DEF I
  <2> HIDE DEF T, k, F
  <2>2. Carries(InsertAll(b.ipv4, f.ips, "v4"), T, k + Len(f.ips), "v4")
    BY ONLY <2>1, RoutesMore
  <2>3. Carries(InsertAll(b.ipv6, f.ips, "v6"), T, k + Len(f.ips), "v6")
    BY ONLY <2>1, RoutesMore
  <2> QED
    BY <2>2, <2>3 DEF T, k
<1> QED
  BY <1>4, <1>5, <1>6, <1>8

\* It sets the options.
LEMMA OptionsGrow ==
  ASSUME Loading, pc = "load", n < Len(files), NEW f, f = files[n + 1], Valid(f)
  PROVE  /\ (IF f.default = NoPolicy THEN b.default ELSE f.default) \in AnyPolicy
         /\ (IF f.default = NoPolicy THEN b.default ELSE f.default) =
              LastSet("default", n + 1, NoPolicy, Unset)
         /\ (IF f.socks5 = "unset" THEN b.socks5 ELSE f.socks5) =
              LastSet("socks5", n + 1, "unset", "")
         /\ \A i \in 1..(n + 1) : files[i].pools \subseteq b.pools \cup f.pools /\ Accepted(files[i])
         /\ \A i, j \in 1..(n + 1) : i < j => files[i].pools \cap files[j].pools = {}
<1> DEFINE default1 == IF f.default = NoPolicy THEN b.default ELSE f.default
           socks == IF f.socks5 = "unset" THEN b.socks5 ELSE f.socks5
<1>1. /\ OptionsSet /\ Len(files) \in Nat /\ n \in Nat /\ f \in File
  BY TablesOfFiles DEF Loading
<1>2. ASSUME NEW option, NEW unset, NEW none
      PROVE  /\ f[option] = unset =>
                  LastSet(option, n + 1, unset, none) = LastSet(option, n, unset, none)
             /\ f[option] # unset => LastSet(option, n + 1, unset, none) = f[option]
  <2>1. n \in Nat /\ f = files[n + 1]
    BY <1>1
  <2> QED
    BY ONLY <2>1, OneMore
<1>3. default1 = LastSet("default", n + 1, NoPolicy, Unset)
  <2>1. /\ f.default = NoPolicy =>
             LastSet("default", n + 1, NoPolicy, Unset) = LastSet("default", n, NoPolicy, Unset)
        /\ f.default # NoPolicy => LastSet("default", n + 1, NoPolicy, Unset) = f.default
    BY <1>2, Zenon
  <2> QED
    BY <1>1, <2>1 DEF OptionsSet
<1>4. socks = LastSet("socks5", n + 1, "unset", "")
  <2>1. /\ f.socks5 = "unset" =>
             LastSet("socks5", n + 1, "unset", "") = LastSet("socks5", n, "unset", "")
        /\ f.socks5 # "unset" => LastSet("socks5", n + 1, "unset", "") = f.socks5
    BY <1>2, Zenon
  <2> QED
    BY <1>1, <2>1 DEF OptionsSet
<1>5. default1 \in AnyPolicy
  <2>1. f.default \in Values \cup {NoPolicy} /\ f.default # BadPolicy
    BY <1>1 DEF File, Valid
  <2> QED
    BY <1>1, <2>1 DEF OptionsSet, Values
<1>6. Accepted(f) /\ b.pools \cap f.pools = {}
  BY DEF Valid, Accepted
<1>7. ASSUME NEW i \in 1..(n + 1)
      PROVE  files[i].pools \subseteq b.pools \cup f.pools /\ Accepted(files[i])
  <2>1. i = n + 1 \/ i \in 1..n
    BY <1>1
  <2> QED
    BY <1>1, <1>6, <2>1 DEF OptionsSet
<1>8. ASSUME NEW i \in 1..(n + 1), NEW j \in 1..(n + 1), i < j
      PROVE  files[i].pools \cap files[j].pools = {}
  <2>1. i \in 1..n /\ (j = n + 1 \/ j \in 1..n)
    BY <1>1, <1>8
  <2>2. CASE j = n + 1
    <3>1. files[i].pools \subseteq b.pools /\ files[j] = f
      BY <1>1, <2>1, <2>2 DEF OptionsSet
    <3> QED
      BY <1>6, <3>1
  <2>3. CASE j \in 1..n
    BY <1>1, <1>8, <2>1, <2>3 DEF OptionsSet
  <2> QED
    BY <2>1, <2>2, <2>3
<1> QED
  BY <1>3, <1>4, <1>5, <1>7, <1>8

\* Merge or Build gives up: the program exits.
LEMMA ExitStep ==
  ASSUME RInv, Exit, pc = "load"
  PROVE  RInv'
<1>1. /\ pc' = "exit" /\ UNCHANGED <<isIP, stopIfNone, default, domain, ipPolicy, hosts>>
      /\ UNCHANGED <<host, p, addr, result, files, query>>
  BY DEF Exit, config, routes
<1>2. Tables' /\ host' = ZeroHost /\ p' = NoPolicy /\ addr' = "none" /\ result' = noResult
  BY <1>1 DEF RInv, IInv, AtStart, Unanswered, Tables
<1>3. TypeOK'
  BY <1>1, <1>2 DEF TypeOK, AnyHost, Dsts, noResult
<1>4. IInv'
  BY <1>1, <1>2, <1>3 DEF IInv, AtStart, AtDomain, AtAddr, AtDial, Unanswered, BlockRespected,
                          MostSpecificWins, DestinationRight, DoHPolicyRight, Served
<1> QED
  BY <1>1, <1>4 DEF RInv, Loading, LongestMatch

\* A file is merged.
LEMMA MergeStep ==
  ASSUME RInv, Merge
  PROVE  RInv'
<1> DEFINE f == files[n + 1]
<1>1. CASE ~Valid(f)
  BY <1>1, ExitStep DEF Merge
<1>2. CASE Valid(f)
  <2>1. /\ pc = "load" /\ n < Len(files) /\ n' = n + 1 /\ UNCHANGED <<vars, files, query>>
        /\ b' = [pools |-> b.pools \cup f.pools,
                 default |-> IF f.default = NoPolicy THEN b.default ELSE f.default,
                 domains |-> AddAll(b.domains, f.domains),
                 ipv4 |-> InsertAll(b.ipv4, f.ips, "v4"),
                 ipv6 |-> InsertAll(b.ipv6, f.ips, "v6"),
                 hosts |-> AddAll(b.hosts, f.hosts),
                 socks5 |-> IF f.socks5 = "unset" THEN b.socks5 ELSE f.socks5]
    BY <1>2 DEF Merge
  <2>2. IInv'
    BY <2>1, NothingNew DEF RInv
  <2>3. pc' = "load" /\ files' = files /\ query' = query
    BY <2>1 DEF vars
  <2>4. /\ Loading /\ Len(files) \in Nat /\ n \in 0..Len(files)
        /\ files \in Seq(File) /\ query \in Seq(STRING)
    BY <2>1, TablesOfFiles DEF RInv, Loading
  <2>5. n' \in 0..Len(files)'
    BY <2>1, <2>3, <2>4
  <2>6. \A table, k : Entries(table, k)' = Entries(table, k)
    BY <2>3, SameFiles
  <2>7. \A table : All(table)' = All(table)
    BY <2>3, <2>6 DEF All
  <2>8. \A table : Entries(table, n)' = Entries(table, n + 1)
    BY <2>1, <2>6
  <2>9. /\ b'.domains = AddAll(b.domains, f.domains) /\ b'.hosts = AddAll(b.hosts, f.hosts)
        /\ b'.ipv4 = InsertAll(b.ipv4, f.ips, "v4") /\ b'.ipv6 = InsertAll(b.ipv6, f.ips, "v6")
        /\ b'.pools = b.pools \cup f.pools
        /\ b'.default = IF f.default = NoPolicy THEN b.default ELSE f.default
        /\ b'.socks5 = IF f.socks5 = "unset" THEN b.socks5 ELSE f.socks5
    BY <2>1
  <2>10. TriesHold'
    <3>1. /\ Holds(AddAll(b.domains, f.domains), All("domains"), Len(Entries("domains", n + 1)))
          /\ Holds(AddAll(b.hosts, f.hosts), All("hosts"), Len(Entries("hosts", n + 1)))
          /\ Carries(InsertAll(b.ipv4, f.ips, "v4"), All("ips"), Len(Entries("ips", n + 1)), "v4")
          /\ Carries(InsertAll(b.ipv6, f.ips, "v6"), All("ips"), Len(Entries("ips", n + 1)), "v6")
      BY <2>1, <2>4, TriesGrow
    <3> QED
      BY <2>7, <2>8, <2>9, <3>1 DEF TriesHold
  <2>11. OptionsSet'
    <3>1. /\ b'.default \in AnyPolicy /\ b'.default = LastSet("default", n + 1, NoPolicy, Unset)
          /\ b'.socks5 = LastSet("socks5", n + 1, "unset", "")
          /\ \A i \in 1..(n + 1) : files[i].pools \subseteq b.pools \cup f.pools /\ Accepted(files[i])
          /\ \A i, j \in 1..(n + 1) : i < j => files[i].pools \cap files[j].pools = {}
      <4>1. /\ Loading /\ pc = "load" /\ n < Len(files) /\ f = files[n + 1] /\ Valid(f)
            /\ b'.default = IF f.default = NoPolicy THEN b.default ELSE f.default
            /\ b'.socks5 = IF f.socks5 = "unset" THEN b.socks5 ELSE f.socks5
        BY <1>2, <2>1, <2>4, <2>9
      <4> HIDE DEF f
      <4> QED
        BY ONLY <4>1, OptionsGrow
    <3>2. \A option, k, unset, none : LastSet(option, k, unset, none)' = LastSet(option, k, unset, none)
      BY <2>3 DEF LastSet
    <3>3. /\ LastSet("default", n, NoPolicy, Unset)' = LastSet("default", n + 1, NoPolicy, Unset)
          /\ LastSet("socks5", n, "unset", "")' = LastSet("socks5", n + 1, "unset", "")
      BY <2>1, <3>2
    <3> QED
      BY <2>1, <2>3, <2>9, <3>1, <3>3 DEF OptionsSet
  <2>12. Loading'
    BY <2>3, <2>4, <2>5, <2>10, <2>11 DEF Loading
  <2>13. LongestMatch'
    BY <2>3 DEF LongestMatch
  <2> QED
    BY <2>2, <2>12, <2>13 DEF RInv
<1> QED
  BY <1>1, <1>2

\* The tables say what a reader of the files expects, and what Policy takes them to say.
LEMMA Lookups ==
  ASSUME Loading, pc = "load", n = Len(files)
  PROVE  /\ FindDomain(b.domains, query, NoPolicy) = LongestPattern(All("domains"), NoPolicy)
         /\ FindDomain(b.domains, query, NoPolicy) \in AnyPolicy \cup {NoPolicy}
         /\ FindDomain(b.hosts, query, NoHost) = LongestPattern(All("hosts"), NoHost)
         /\ FindDomain(b.hosts, query, NoHost) \in Hosts \cup {NoHost}
         /\ \A a \in Addrs :
              LET t == IF a \in V6 THEN b.ipv6 ELSE b.ipv4
              IN /\ FindIP(t, Bits[a], NoPolicy) =
                      LongestPrefix(All("ips"), IF a \in V6 THEN "v6" ELSE "v4", Bits[a], NoPolicy)
                 /\ FindIP(t, Bits[a], NoPolicy) \in AnyPolicy \cup {NoPolicy}
<1> DEFINE F == {"v4", "v6", "bad"}
<1>1. /\ files \in Seq(File) /\ query \in Seq(STRING) /\ TriesHold /\ OptionsSet
      /\ \A i \in 1..Len(files) : Accepted(files[i])
  BY DEF Loading, OptionsSet
<1>2. /\ All("domains") \in Seq([pattern: PatternType, value: AnyPolicy])
      /\ All("hosts") \in Seq([pattern: PatternType, value: Hosts])
      /\ All("ips") \in Seq([family: F, prefix: Seq({0, 1}), value: AnyPolicy])
  BY <1>1, AllTyped, AllAccepted
<1>3. /\ Holds(b.domains, All("domains"), Len(All("domains")))
      /\ Holds(b.hosts, All("hosts"), Len(All("hosts")))
      /\ Carries(b.ipv4, All("ips"), Len(All("ips")), "v4")
      /\ Carries(b.ipv6, All("ips"), Len(All("ips")), "v6")
  BY <1>1 DEF TriesHold, All
<1>4. NoPolicy \notin AnyPolicy /\ NoHost \notin Hosts
  <2>1. NoPolicy.mode \notin Modes
    BY DEF NoPolicy, Modes
  <2>2. NoHost.single \notin Words /\ NoHost.single # "many"
    BY PolicyAssumption DEF NoHost, Words
  <2>3. NoPolicy \notin AnyPolicy
    BY <2>1 DEF AnyPolicy
  <2>4. ASSUME NEW h \in Hosts
        PROVE  h.single \in Words \cup {"many"}
    <3>1. CASE h \in [multi: {FALSE}, keep: BOOLEAN, single: Words]
      BY <3>1
    <3>2. CASE h = [multi |-> TRUE, keep |-> FALSE, single |-> "many"]
      BY <3>2
    <3> QED
      BY <3>1, <3>2 DEF Hosts
  <2> QED
    BY <2>2, <2>3, <2>4
<1> HIDE DEF F
<1>5. /\ FindDomain(b.domains, query, NoPolicy) = LongestPattern(All("domains"), NoPolicy)
      /\ FindDomain(b.domains, query, NoPolicy) \in AnyPolicy \cup {NoPolicy}
  BY ONLY <1>1, <1>2, <1>3, <1>4, DomainLongest
<1>6. /\ FindDomain(b.hosts, query, NoHost) = LongestPattern(All("hosts"), NoHost)
      /\ FindDomain(b.hosts, query, NoHost) \in Hosts \cup {NoHost}
  BY ONLY <1>1, <1>2, <1>3, <1>4, DomainLongest
<1>7. ASSUME NEW a \in Addrs
      PROVE  /\ FindIP(b.ipv4, Bits[a], NoPolicy) = LongestPrefix(All("ips"), "v4", Bits[a], NoPolicy)
             /\ FindIP(b.ipv4, Bits[a], NoPolicy) \in AnyPolicy \cup {NoPolicy}
             /\ FindIP(b.ipv6, Bits[a], NoPolicy) = LongestPrefix(All("ips"), "v6", Bits[a], NoPolicy)
             /\ FindIP(b.ipv6, Bits[a], NoPolicy) \in AnyPolicy \cup {NoPolicy}
  <2> DEFINE T == All("ips")
             bits == Bits[a]
  <2>1. /\ T \in Seq([family: F, prefix: Seq({0, 1}), value: AnyPolicy]) /\ bits \in Seq({0, 1})
        /\ Carries(b.ipv4, T, Len(T), "v4") /\ Carries(b.ipv6, T, Len(T), "v6")
    BY <1>2, <1>3, RoutesAssumption
  <2> HIDE DEF T, bits
  <2>2. /\ FindIP(b.ipv4, bits, NoPolicy) = LongestPrefix(T, "v4", bits, NoPolicy)
        /\ FindIP(b.ipv4, bits, NoPolicy) \in AnyPolicy \cup {NoPolicy}
    BY ONLY <2>1, AddrLongest
  <2>3. /\ FindIP(b.ipv6, bits, NoPolicy) = LongestPrefix(T, "v6", bits, NoPolicy)
        /\ FindIP(b.ipv6, bits, NoPolicy) \in AnyPolicy \cup {NoPolicy}
    BY ONLY <2>1, AddrLongest
  <2> QED
    BY <2>2, <2>3 DEF T, bits
<1>8. ASSUME NEW a \in Addrs
      PROVE  LET t == IF a \in V6 THEN b.ipv6 ELSE b.ipv4
             IN /\ FindIP(t, Bits[a], NoPolicy) =
                     LongestPrefix(All("ips"), IF a \in V6 THEN "v6" ELSE "v4", Bits[a], NoPolicy)
                /\ FindIP(t, Bits[a], NoPolicy) \in AnyPolicy \cup {NoPolicy}
  <2>1. CASE a \in V6
    BY <1>7, <2>1
  <2>2. CASE a \notin V6
    BY <1>7, <2>2
  <2> QED
    BY <2>1, <2>2
<1> QED
  BY <1>5, <1>6, <1>8

\* The files are merged, and what a connection starts from is looked up.
LEMMA BuildStep ==
  ASSUME RInv, Build
  PROVE  RInv'
<1>1. CASE ~Enabled(b.socks5)
  BY <1>1, ExitStep DEF Build
<1>2. CASE Enabled(b.socks5)
  <2>1. /\ pc = "load" /\ n = Len(files) /\ default' = b.default
        /\ domain' = IF isIP THEN NoPolicy ELSE FindDomain(b.domains, query, NoPolicy)
        /\ hosts' = IF isIP THEN NoHost ELSE FindDomain(b.hosts, query, NoHost)
        /\ ipPolicy' = [a \in Addrs |->
             FindIP(IF a \in V6 THEN b.ipv6 ELSE b.ipv4, Bits[a], NoPolicy)]
        /\ stopIfNone' \in BOOLEAN /\ pc' \in {"start", "doh"}
        /\ UNCHANGED <<isIP, host, p, addr, result, files, query>>
    BY <1>2 DEF Build, routes
  <2>2. Loading /\ IInv /\ OptionsSet /\ files \in Seq(File) /\ query \in Seq(STRING)
    BY <2>1 DEF RInv, Loading
  <2>3. Tables'
    <3>1. isIP \in BOOLEAN /\ b.default \in AnyPolicy
      BY <2>2 DEF IInv, Tables, OptionsSet
    <3>2. ipPolicy' \in [Addrs -> AnyPolicy \cup {NoPolicy}]
      BY <2>1, <2>2, Lookups
    <3>3. domain' \in AnyPolicy \cup {NoPolicy} /\ hosts' \in Hosts \cup {NoHost}
      BY <2>1, <2>2, Lookups
    <3> QED
      BY <2>1, <3>1, <3>2, <3>3 DEF Tables
  <2>4. host' = ZeroHost /\ p' = NoPolicy /\ addr' = "none" /\ result' = noResult
    BY <2>1, <2>2 DEF IInv, AtStart, Unanswered
  <2>5. TypeOK'
    BY <2>1, <2>3, <2>4 DEF TypeOK, AnyHost, Dsts, noResult
  <2>6. IInv'
    BY <2>1, <2>3, <2>4, <2>5 DEF IInv, AtStart, AtDomain, AtAddr, AtDial, Unanswered,
       BlockRespected, MostSpecificWins, DestinationRight, DoHPolicyRight, Served
  <2>7. Loading'
    BY <2>1, <2>2 DEF Loading
  <2>8. LongestMatch'
    <3>1. \A table : All(table)' = All(table)
      <4>1. \A table, k : Entries(table, k)' = Entries(table, k)
        BY <2>1, SameFiles
      <4> QED
        BY <2>1, <4>1 DEF All
    <3>2. \A entries, none : LongestPattern(entries, none)' = LongestPattern(entries, none)
      BY <2>1 DEF LongestPattern
    <3>3. ~isIP' => /\ domain' = LongestPattern(All("domains"), NoPolicy)'
                    /\ hosts' = LongestPattern(All("hosts"), NoHost)'
      BY <2>1, <2>2, <3>1, <3>2, Lookups
    <3>4. \A a \in Addrs :
            ipPolicy'[a] =
              LongestPrefix(All("ips"), IF a \in V6 THEN "v6" ELSE "v4", Bits[a], NoPolicy)
      BY <2>1, <2>2, Lookups
    <3>5. default' = LastSet("default", Len(files), NoPolicy, Unset)
      BY <2>1, <2>2 DEF OptionsSet
    <3>6. Enabled(LastSet("socks5", Len(files), "unset", ""))
      BY <1>2, <2>1, <2>2 DEF OptionsSet
    <3>7. \A option, k, unset, none : LastSet(option, k, unset, none)' = LastSet(option, k, unset, none)
      BY <2>1 DEF LastSet
    <3>8. \A i, j \in DOMAIN files' : i < j => files'[i].pools \cap files'[j].pools = {}
      BY <2>1, <2>2, TablesOfFiles DEF OptionsSet
    <3> QED
      BY <2>1, <3>1, <3>3, <3>4, <3>5, <3>6, <3>7, <3>8 DEF LongestMatch
  <2> QED
    BY <2>6, <2>7, <2>8 DEF RInv
<1> QED
  BY <1>1, <1>2

\* A policy that was found is never asked for again.
LEMMA PolicyStep ==
  ASSUME RInv, genPolicy \/ DoH, UNCHANGED routes
  PROVE  RInv'
<1>1. IInv'
  <2>1. IInv
    BY DEF RInv
  <2>2. CASE genPolicy
    BY <2>1, <2>2, StartIPStep, StartDomainStep, FindHostStep, SelfStep, AsksStep, LiteralStep,
       NoRedirectStep, RedirectNoneStep, RedirectStep DEF genPolicy
  <2>3. CASE DoH
    BY <2>1, <2>3, DoHIPStep, DoHDomainStep, PlainDialStep, PoolRedirectStep DEF DoH
  <2> QED
    BY <2>2, <2>3
<1>2. pc' \notin {"load", "start", "doh"}
  <2>1. genPolicy => pc' \notin {"load", "start", "doh"}
    BY DEF genPolicy, StartIP, StartDomain, FindHost, Self, ResolveOrigin, ResolveName, AskPool,
           Literal, NoRedirect, RedirectNone, Redirect, Resolve, Ask, Serve, Failed, Return, Final
  <2>2. DoH => pc' \notin {"load", "start", "doh"}
    BY DEF DoH, DoHIP, DoHDomain, DialFixed, PoolMissing, DialPool, DialPoolRedirect, Prepared, Dialed
  <2> QED
    BY <2>1, <2>2
<1>3. files' = files /\ query' = query
  BY DEF routes
<1>4. Loading'
  BY <1>2, <1>3 DEF RInv, Loading
<1> QED
  BY <1>1, <1>2, <1>4 DEF RInv, LongestMatch

\* Nothing happens.
LEMMA StutterStep ==
  ASSUME RInv, UNCHANGED allVars
  PROVE  RInv'
<1>1. UNCHANGED <<vars, files, n, b, query, pc, isIP, default, domain, ipPolicy, hosts>>
  BY DEF allVars, routes, vars
<1>2. IInv'
  BY <1>1, NothingNew DEF RInv
<1>3. \A table, k : Entries(table, k)' = Entries(table, k)
  BY <1>1, SameFiles
<1>4. \A table : All(table)' = All(table)
  BY <1>1, <1>3 DEF All
<1>5. \A option, k, unset, none : LastSet(option, k, unset, none)' = LastSet(option, k, unset, none)
  BY <1>1 DEF LastSet
<1>6. TriesHold' = TriesHold /\ OptionsSet' = OptionsSet
  BY <1>1, <1>3, <1>4, <1>5 DEF TriesHold, OptionsSet
<1>7. \A entries, none : LongestPattern(entries, none)' = LongestPattern(entries, none)
  BY <1>1 DEF LongestPattern
<1>8. Loading'
  BY <1>1, <1>6 DEF RInv, Loading
<1>9. LongestMatch'
  BY <1>1, <1>4, <1>5, <1>7 DEF RInv, LongestMatch
<1> QED
  BY <1>2, <1>8, <1>9 DEF RInv

----
(* The theorems. *)

\* The invariant holds for any addresses, any files and anything asked for.
THEOREM Inductive == Spec => []RInv
<1>1. RInv /\ [Next]_allVars => RInv'
  BY MergeStep, BuildStep, PolicyStep, StutterStep DEF Next
<1> QED
  BY <1>1, Starting, PTL DEF Spec

\* Merge, Build and the tries: the lookups a connection starts from find the entry a
\* reader of the files expects.
THEOREM LongestMatches == Spec => []LongestMatch
<1>1. RInv => LongestMatch
  BY DEF RInv
<1> QED
  BY <1>1, Inductive, PTL

\* genPolicy refuses a connection exactly when the policies that apply to it say so, with
\* the one exception BlockRespected names.
THEOREM BlocksRespected == Spec => []BlockRespected
<1>1. RInv => BlockRespected
  BY DEF RInv, IInv
<1> QED
  BY <1>1, Inductive, PTL

\* mergePolicies and genPolicy let the most specific policy decide the mode.
THEOREM MostSpecificDecides == Spec => []MostSpecificWins
<1>1. RInv => MostSpecificWins
  BY DEF RInv, IInv
<1> QED
  BY <1>1, Inductive, PTL

\* genPolicy takes the destination from the policy's host, then hosts, then DNS, and keeps
\* an address with "^" before it.
THEOREM DestinationsRight == Spec => []DestinationRight
<1>1. RInv => DestinationRight
  BY DEF RInv, IInv
<1> QED
  BY <1>1, Inductive, PTL

\* genDoHDialFunc never dials under a mode that refuses connections, and its policy is the
\* most specific of those that apply.
THEOREM DoHPoliciesRight == Spec => []DoHPolicyRight
<1>1. RInv => DoHPolicyRight
  BY DEF RInv, IInv
<1> QED
  BY <1>1, Inductive, PTL
====
