---- MODULE DoHDial ----
(***************************************************************************)
(* How the connections to the DoH server are dialed: genDoHDialFunc and    *)
(* preMapIP of internal/core/policy.go.  Destination and policy are worked *)
(* out once, when the program starts, from the tables genPolicy reads; the *)
(* function that comes of it dials, and asks an IP pool anew every time.   *)
(*                                                                         *)
(* Of Policy's variables, host is the Dst or the address of the URL that   *)
(* decided, addr the final destination, and "pool" a tag still to be asked.*)
(***************************************************************************)
EXTENDS Policy

Refusing == {"block", "tls-alert"}

\* The end of a dial, or of the program's start.
Dialed(kind, dst, pol) ==
  /\ pc' = "dialed" /\ result' = [kind |-> kind, dst |-> dst, p |-> pol]
  /\ UNCHANGED <<config, p>>

\* preMapIP: transformIP's verdict counts ("none" is its error), its result does not.
preMapIP(ip, mapTo) ==
  CASE mapTo = "zero" -> {ip}
    [] mapTo = "multi" -> {"many"}
    [] mapTo = "network" -> {"network", "none"}
    [] mapTo \in Addrs \cup {"pool", "empty"} -> {mapTo}

\* Mutant of Prepared: the mode is not looked at.
PreparedBlind(h, pol, dst) ==
  IF dst = "none" THEN Dialed("failed", "none", NoPolicy) /\ UNCHANGED <<host, addr>>
  ELSE /\ host' = h /\ p' = pol /\ addr' = dst /\ pc' = "dial"
       /\ UNCHANGED <<config, result>>

\* genDoHDialFunc from brk on: the program does not start under a mode that refuses.
Prepared(h, pol, dst) ==
  IF dst = "none" \/ pol.mode \in Refusing
  THEN Dialed("failed", "none", NoPolicy) /\ UNCHANGED <<host, addr>>
  ELSE /\ host' = h /\ p' = pol /\ addr' = dst /\ pc' = "dial"
       /\ UNCHANGED <<config, result>>

\* genDoHDialFunc: the URL has an address.  map_to is that of the merged policy.
DoHIP ==
  /\ pc = "doh" /\ isIP
  /\ \E ip \in Addrs :
       \E pol \in {IF getIPPolicy(ip) = NoPolicy THEN default
                   ELSE mergePolicies(getIPPolicy(ip), default)} :
         \E dst \in preMapIP(ip, pol.mapTo) :
           Prepared([ZeroHost EXCEPT !.single = ip], pol, dst)

\* genDoHDialFunc: where a Dst leads.  The names are left to the system's resolver; an
\* address goes through preMapIP, with "^" before it or not.
Leads(h) ==
  CASE h.multi -> {"many"}
    [] Blank(h) \/ h.single = "self" -> {"origin"}
    [] h.single \in {"cname", "name"} -> {"name"}
    [] h.single = "pool" -> {"pool"}
    [] h.single \in Addrs ->
         IF getIPPolicy(h.single) = NoPolicy THEN {h.single}
         ELSE preMapIP(h.single, getIPPolicy(h.single).mapTo)

\* genDoHDialFunc: the URL has a name.
DoHDomain ==
  /\ pc = "doh" /\ ~isIP
  /\ \E pol \in {IF domain = NoPolicy THEN default ELSE mergePolicies(domain, default)} :
       \E h \in {IF Blank(pol.host) /\ hosts # NoHost THEN hosts ELSE pol.host} :
         \E dst \in Leads(h) : Prepared(h, pol, dst)

----
DialFixed == pc = "dial" /\ addr # "pool" /\ Dialed("serve", addr, p) /\ UNCHANGED <<host, addr>>

\* ipPoolManager.get: no pool has that tag, and the program does not start.
PoolMissing ==
  /\ pc = "dial" /\ addr = "pool"
  /\ Dialed("failed", "none", NoPolicy) /\ UNCHANGED <<host, addr>>

\* What the pool gives is dialed as it is: it is a multi pool, or "^" was before its tag.
DialPool ==
  /\ pc = "dial" /\ addr = "pool"
  /\ \E dst \in Addrs \cup {"many"} : Dialed("serve", dst, p)
  /\ UNCHANGED <<host, addr>>

\* The pool's address goes through ipRedirect, and its policy is merged.  Without one
\* mergePolicies reads through a nil pointer, and nothing recovers from it.
DialPoolRedirect ==
  /\ pc = "dial" /\ addr = "pool" /\ ~host.keep
  /\ addr' \in Addrs /\ host' = [host EXCEPT !.single = "pool"]
  /\ IF getIPPolicy(addr') = NoPolicy THEN Dialed("panic", "none", NoPolicy)
     ELSE \E dst \in Mapped(addr') :
            \E q \in {IF domain = NoPolicy THEN mergePolicies(getIPPolicy(addr'), default)
                      ELSE mergePolicies3(domain, getIPPolicy(addr'), default)} :
              IF dst = "none" THEN Dialed("failed", "none", NoPolicy)
              ELSE IF q.mode \in Refusing THEN Dialed("blocked", "none", NoPolicy)
              ELSE Dialed("serve", dst, q)

DoH == DoHIP \/ DoHDomain \/ DialFixed \/ PoolMissing \/ DialPool \/ DialPoolRedirect

----
\* The policies a DoH connection is dialed under.  The policy of the address a host
\* option names is not among them.
DoHChain ==
  IF host.single = "pool" /\ addr \in Addrs THEN <<domain, getIPPolicy(addr), default>>
  ELSE IF isIP /\ host.single \in Addrs THEN <<getIPPolicy(host.single), default>>
  ELSE <<domain, default>>

\* A DoH connection is never dialed under a mode that refuses connections, and its mode
\* is the one the most specific of its policies sets; one is refused only if they say
\* so.  It panics for one reason: an IP pool answered with an address that no IP policy
\* covers.
DoHPolicyRight ==
  pc = "dialed" =>
    /\ result.kind = "serve" =>
         /\ result.p.mode \notin Refusing
         /\ result.p.mode = IF Chosen(DoHChain) = "unset" /\ result.p # default
                            THEN "default" ELSE Chosen(DoHChain)
    /\ result.kind = "panic" => host.single = "pool" /\ getIPPolicy(addr) = NoPolicy
    /\ result.kind = "blocked" => Chosen(DoHChain) \in Refusing
====
