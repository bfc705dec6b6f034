---- MODULE Policy ----
(***************************************************************************)
(* Which policy and destination a connection gets: mergePolicies,          *)
(* policyEvaluator.genPolicy and ipRedirect of internal/core/policy.go.    *)
(*                                                                         *)
(* genPolicy runs for one host and reads route tables that never change:   *)
(* the variables hold what they say about that host, which module Routes   *)
(* looks up.  DNS and the IP pools are asked on the way and answer as they *)
(* like.  A policy is abstracted to its mode, host and map_to: the other   *)
(* options are merged like the mode and not looked at here.                *)
(***************************************************************************)
EXTENDS Integers, Sequences

CONSTANT Addrs   \* IP addresses

\* No address reads like one of the words that stand for other destinations.
ASSUME PolicyAssumption ==
  Addrs \cap {"", "self", "pool", "cname", "name", "many", "zero", "absent", "empty", "multi",
              "network", "origin", "none"} = {}

\* A dial.Dst of the configuration: several addresses, or one string: nothing, "self",
\* a pool's tag, a name to resolve, a name or an address to dial; keep is the "^" in
\* front of it, noRedirectPrefix.  The zero Dst is the option that is not set.
Words == {"", "self", "pool", "cname", "name"} \cup Addrs
Hosts == [multi: {FALSE}, keep: BOOLEAN, single: Words] \cup
         {[multi |-> TRUE, keep |-> FALSE, single |-> "many"]}
ZeroHost == [multi |-> FALSE, keep |-> FALSE, single |-> "zero"]
NoHost == [multi |-> FALSE, keep |-> FALSE, single |-> "absent"]   \* no entry in hosts

\* map_to, the destination an IP policy gives: a network stands for transformIP.
MapTos == {"zero", "empty", "multi", "pool", "network"} \cup Addrs

Modes == {"unset", "direct", "tls-alert", "block"}   \* direct stands for all that serve
Unset == [mode |-> "unset", host |-> ZeroHost, mapTo |-> "zero"]
NoPolicy == [mode |-> "none", host |-> ZeroHost, mapTo |-> "zero"]

\* Where a connection goes: one address or name, or several addresses.
Dsts == {"origin", "name", "many", "none", "empty", "pool", "network"} \cup Addrs

VARIABLES
  isIP,        \* the client asked for an address (taken to be one of Addrs)
  stopIfNone,  \* returnWhenDomainNotFound
  default, domain, ipPolicy,   \* defaultPolicy; the policy of the domain; of each address
  hosts,       \* the domain's entry in hosts, or NoHost
  pc,          \* the step genPolicy is at
  host,        \* the Dst it looks at: single, noRedirect
  p,           \* the policy it has so far
  addr,        \* the address or name that goes to ipRedirect
  result       \* what it returned

vars == <<isIP, stopIfNone, default, domain, ipPolicy, hosts, pc, host, p, addr, result>>
config == <<isIP, stopIfNone, default, domain, ipPolicy, hosts>>

noResult == [kind |-> "none", dst |-> "none", p |-> NoPolicy]

\* What the tables may say of a host; of an address they have no domain policy.
AnyHost == Hosts \cup {ZeroHost}
AnyPolicy == [mode: Modes, host: AnyHost, mapTo: MapTos]
Tables ==
  /\ isIP \in BOOLEAN /\ stopIfNone \in BOOLEAN
  /\ default \in AnyPolicy /\ domain \in AnyPolicy \cup {NoPolicy}
  /\ ipPolicy \in [Addrs -> AnyPolicy \cup {NoPolicy}] /\ hosts \in Hosts \cup {NoHost}
  /\ isIP => domain = NoPolicy

TypeOK ==
  /\ Tables
  /\ pc \in {"load", "exit", "start", "doh", "host", "resolve", "word", "redirect", "dial",
             "done", "dialed"}
  /\ host \in AnyHost /\ addr \in Dsts
  /\ result.kind \in {"none", "serve", "failed", "blocked", "notFound", "panic"}
  /\ result.dst \in Dsts
  /\ (result.kind = "serve") = (result.dst # "none" /\ pc \in {"done", "dialed"})
  /\ p # NoPolicy \/ pc \notin {"host", "resolve", "word", "dial"}

\* A Dst that names no destination.
Blank(h) == h.single \in {"zero", ""}

----
\* mergePolicies: the first policy that sets an option decides it.
Over(a, b) ==
  [mode |-> IF a.mode # "unset" THEN a.mode ELSE b.mode,
   host |-> IF a.host # ZeroHost THEN a.host ELSE b.host,
   mapTo |-> IF a.mapTo # "zero" THEN a.mapTo ELSE b.mapTo]

\* mergePolicies: ModeDefault is the mode if none sets it.
withDefaults(a) == [a EXCEPT !.mode = IF @ = "unset" THEN "default" ELSE @]

mergePolicies(a, b) == withDefaults(Over(a, b))
mergePolicies3(a, b, c) == withDefaults(Over(Over(a, b), c))

Return(kind, dst, pol) ==
  /\ pc' = "done" /\ result' = [kind |-> kind, dst |-> dst, p |-> pol]
  /\ UNCHANGED <<config, host, p, addr>>

Serve(dst) == Return("serve", dst, p)
Failed == Return("failed", "none", NoPolicy)

\* genPolicy: an address goes straight to ipRedirect, a domain to its policy.
StartIP ==
  /\ pc = "start" /\ isIP
  /\ addr' \in Addrs /\ pc' = "redirect"
  /\ UNCHANGED <<config, host, p, result>>

\* Mutant of StartDomain: the domain's block is left to the end.
StartDomainNoBlock ==
  /\ pc = "start" /\ ~isIP
  /\ p' = IF domain = NoPolicy THEN default ELSE mergePolicies(domain, default)
  /\ host' = p'.host /\ pc' = "host"
  /\ UNCHANGED <<config, addr, result>>

StartDomain ==
  /\ pc = "start" /\ ~isIP
  /\ IF domain.mode = "block" THEN Return("blocked", "none", NoPolicy)
     ELSE /\ p' = IF domain = NoPolicy THEN default ELSE mergePolicies(domain, default)
          /\ host' = p'.host /\ pc' = "host"
          /\ UNCHANGED <<config, addr, result>>

\* Mutant of FindHost: hosts goes before the policy's host.
FindHostHostsFirst ==
  /\ pc = "host"
  /\ IF hosts.multi \/ host.multi THEN Serve("many")
     ELSE IF hosts = NoHost /\ Blank(host) /\ stopIfNone
     THEN Return("notFound", "none", NoPolicy)
     ELSE /\ host' = IF hosts # NoHost THEN hosts ELSE host
          /\ pc' = "resolve"
          /\ UNCHANGED <<config, p, addr, result>>

\* genPolicy: several addresses are taken as they are; without a host of the policy,
\* hosts is asked, and without an entry there the caller may want to know.
FindHost ==
  /\ pc = "host"
  /\ IF host.multi \/ (Blank(host) /\ hosts.multi) THEN Serve("many")
     ELSE IF Blank(host) /\ hosts = NoHost /\ stopIfNone
     THEN Return("notFound", "none", NoPolicy)
     ELSE /\ host' = IF Blank(host) /\ hosts # NoHost THEN hosts ELSE host
          /\ pc' = "resolve"
          /\ UNCHANGED <<config, p, addr, result>>

\* The resolver or a pool answers: an error, several addresses, or one.
Ask(answers) ==
  \/ Failed
  \/ Serve("many")
  \/ addr' \in answers /\ pc' = "word" /\ UNCHANGED <<config, host, p, result>>

\* DNS answers.  Under a default policy without a dns_mode Resolve returns nil, whose
\* Single is the empty string, and keeps it for every later question; and it may return
\* a list without an address: one that is logged (Dst.String takes the first) panics,
\* one that is not, with a higher log level, is served like any other list.
Resolve == Ask(Addrs \cup {"empty"}) \/ Return("panic", "none", NoPolicy)

\* genPolicy: what the host says.
Self == pc = "resolve" /\ host.single = "self" /\ Serve("origin")

ResolveOrigin == pc = "resolve" /\ Blank(host) /\ Resolve
ResolveName == pc = "resolve" /\ host.single = "cname" /\ Resolve
AskPool == pc = "resolve" /\ host.single = "pool" /\ Ask(Addrs)

Literal ==
  /\ pc = "resolve" /\ host.single \in Addrs \cup {"name"}
  /\ addr' = host.single /\ pc' = "word"
  /\ UNCHANGED <<config, host, p, result>>

\* genPolicy: with "^" the IP policies are not looked at.
NoRedirect ==
  /\ pc = "word"
  /\ IF host.keep THEN Serve(addr)
     ELSE pc' = "redirect" /\ UNCHANGED <<config, host, p, addr, result>>

\* Mutant of Final: the IP policy goes before the domain's.
FinalSwapped(pol, dst) ==
  \E q \in {IF isIP \/ domain = NoPolicy THEN mergePolicies(pol, default)
            ELSE mergePolicies3(pol, domain, default)} :
    IF q.mode = "block" THEN Return("blocked", "none", NoPolicy) ELSE Return("serve", dst, q)

\* genPolicy after ipRedirect has found an IP policy: its options go between those
\* of the domain and the default ones.
Final(pol, dst) ==
  \E q \in {IF isIP \/ domain = NoPolicy THEN mergePolicies(pol, default)
            ELSE mergePolicies3(domain, pol, default)} :
    IF q.mode = "block" THEN Return("blocked", "none", NoPolicy) ELSE Return("serve", dst, q)

\* routeMatcher.getIPPolicy, and that ipRedirect leaves a name as it is.
getIPPolicy(word) == IF word \in Addrs THEN ipPolicy[word] ELSE NoPolicy

\* ipRedirect: no IP policy.  For an address the default policy is then looked at.
RedirectNone ==
  /\ pc = "redirect" /\ getIPPolicy(addr) = NoPolicy
  /\ IF ~isIP THEN Serve(addr)
     ELSE IF default.mode = "block" THEN Return("blocked", "none", NoPolicy)
     ELSE Return("serve", addr, default)

\* ipRedirect by an IP policy: to nothing else, to several addresses, to an address, to
\* one of a network (transformIP, which may reject it) or to what a pool answers.
Mapped(word) ==
  CASE getIPPolicy(word).mapTo \in {"zero", "empty"} -> {word}
    [] getIPPolicy(word).mapTo = "multi" -> {"many"}
    [] getIPPolicy(word).mapTo \in Addrs -> {getIPPolicy(word).mapTo}
    [] getIPPolicy(word).mapTo = "network" -> Addrs \cup {"none"}
    [] getIPPolicy(word).mapTo = "pool" -> Addrs \cup {"many", "none"}

Redirect ==
  /\ pc = "redirect" /\ getIPPolicy(addr) # NoPolicy
  /\ \E dst \in Mapped(addr) :
       IF dst = "none" THEN Failed ELSE Final(getIPPolicy(addr), dst)

genPolicy ==
  \/ StartIP \/ StartDomain \/ FindHost \/ Self \/ ResolveOrigin \/ ResolveName
  \/ AskPool \/ Literal \/ NoRedirect \/ RedirectNone \/ Redirect

----
Served == pc = "done" /\ result.kind = "serve"

\* The mode a chain of policies asks for, the most specific first.
Chosen(chain) ==
  LET set == {i \in DOMAIN chain : chain[i].mode \notin {"unset", "none"}}
  IN IF set = {} THEN "unset" ELSE chain[CHOOSE i \in set : \A j \in set : i <= j].mode

\* The policies that apply: the domain's, the one of the address it led to if that
\* was looked up, the default one.
Chain ==
  IF getIPPolicy(addr) # NoPolicy /\ ~host.keep
  THEN <<domain, getIPPolicy(addr), default>> ELSE <<domain, default>>

\* A connection is refused exactly when the policies that apply to it say so, with one
\* exception the callers must see to: a domain that is led to several addresses, or to
\* one no IP policy covers, is served although the default policy blocks.
BlockRespected ==
  /\ (pc = "done" /\ result.kind = "blocked") => Chosen(Chain) = "block"
  /\ (Served /\ Chosen(Chain) = "block") =>
       ~isIP /\ domain.mode \in {"none", "unset"} /\ Len(Chain) = 2

\* The mode a connection is served with is the one its most specific policy sets, or
\* the built-in default; only the default policy by itself may leave it unset.
MostSpecificWins ==
  Served =>
    result.p.mode = IF Chosen(Chain) = "unset" /\ result.p # default
                    THEN "default" ELSE Chosen(Chain)

\* Besides the types: the policy's own host comes before hosts and hosts before DNS, "^" keeps the
\* address it stands before, and a caller that only wants known domains hears of a
\* domain neither the policy nor hosts knows before DNS is asked.
DestinationRight ==
  /\ TypeOK
  /\ (Served /\ ~isIP /\ ~Blank(p.host)) => host = p.host
  /\ (Served /\ ~isIP /\ Blank(p.host) /\ hosts \in Hosts /\ ~hosts.multi) => host = hosts
  /\ (Served /\ host.keep /\ host.single \in Addrs) => result.dst = host.single
  /\ (stopIfNone /\ ~isIP /\ pc \in {"word", "redirect"}) =>
       (~Blank(p.host) \/ hosts # NoHost)
====
