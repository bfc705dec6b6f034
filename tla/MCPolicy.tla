---- MODULE MCPolicy ----
(***************************************************************************)
(* One IPv4 and one IPv6 address of two bits.  Four kinds of setup: one    *)
(* file with every choice of policies for a host; two files whose tables   *)
(* of domain policies, of IP policies or of hosts overlap in all ways; and *)
(* files with errors, pools, default policies and inbounds.                *)
(***************************************************************************)
EXTENDS Routes

AddrBits == "a4" :> <<0, 1>> @@ "a6" :> <<1, 0>>

Site == <<"com", "x">>
Pattern(s, path) == [star |-> s, path |-> path]
Serving == [EmptyFile EXCEPT !.socks5 = "on"]

\* Every choice of policies: the tables have at most one entry, which covers the site
\* or the IPv4 address.
Policies(hs, maps) == [mode: Modes, host: hs, mapTo: maps]
UpToOne(S) == {<<>>} \cup {<<e>> : e \in S}
SomeHosts == {ZeroHost, [ZeroHost EXCEPT !.single = "a4"]}
DefaultPolicies == Policies(SomeHosts, {"zero"}) \cup {[Unset EXCEPT !.mapTo = "pool"]}
SiteEntries == [pattern: {Pattern("bare", Site)}, value: Policies(Hosts \cup {ZeroHost}, {"zero"})]
HostEntries == [pattern: {Pattern("bare", Site)}, value: Hosts]
AddrEntries == [family: {"v4"}, prefix: {<<0, 1>>}, value: Policies({ZeroHost}, MapTos)]
AnyPolicies ==
  \E d \in DefaultPolicies, i \in AddrEntries :
    LET f == [Serving EXCEPT !.default = d, !.ips = <<i>>]
    IN \/ Start(<<f>>, Site, TRUE)
       \/ \E s \in UpToOne(SiteEntries), h \in UpToOne(HostEntries) :
            Start(<<[f EXCEPT !.domains = s, !.hosts = h]>>, Site, FALSE)

\* Overlapping entries, told apart by two values, one in a first file and the others in
\* a second one.
Lists(S, max) == UNION {[1..k -> S] : k \in 1..max}
Two == {[Unset EXCEPT !.mode = "direct"], [Unset EXCEPT !.mode = "block"]}
TwoHosts == {[ZeroHost EXCEPT !.single = a] : a \in Addrs}
Patterns ==
  {Pattern("all", <<>>), Pattern("none", <<"com">>), Pattern("dot", <<"com">>),
   Pattern("none", Site), Pattern("bare", Site), Pattern("dot", Site),
   Pattern("none", Site \o <<"w">>)}
Queries == {Site, Site \o <<"w">>, <<"com", "y">>}
Nets ==
  [family: {"v4"}, prefix: {<<>>, <<0>>, <<0, 1>>, <<1>>}, value: Two] \cup
  [family: {"v6"}, prefix: {<<>>, <<1, 0>>}, value: Two]
Rest(s) == SubSeq(s, 2, Len(s))
Overlaps ==
  \/ \E s \in Lists([pattern: Patterns, value: Two], 3), q \in Queries :
       Start(<<[Serving EXCEPT !.domains = <<s[1]>>], [Serving EXCEPT !.domains = Rest(s)]>>, q, FALSE)
  \/ \E s \in Lists([pattern: Patterns, value: TwoHosts], 2), q \in Queries :
       Start(<<[Serving EXCEPT !.hosts = <<s[1]>>], [Serving EXCEPT !.hosts = Rest(s)]>>, q, FALSE)
  \/ \E s \in Lists(Nets, 3) :
       Start(<<[Serving EXCEPT !.ips = <<s[1]>>], [Serving EXCEPT !.ips = Rest(s)]>>, Site, TRUE)

\* Errors, pools and options, with flags after two files.
Bad ==
  {[EmptyFile EXCEPT !.default = BadPolicy],
   [EmptyFile EXCEPT !.domains = <<[pattern |-> Pattern("bare", Site), value |-> BadPolicy]>>],
   [EmptyFile EXCEPT !.ips = <<[family |-> "v4", prefix |-> <<>>, value |-> BadPolicy]>>],
   [EmptyFile EXCEPT !.ips = <<[family |-> "bad", prefix |-> <<>>, value |-> Unset]>>]}
OptionFiles ==
  [pools: SUBSET {"p1", "p2"}, default: Two \cup {NoPolicy}, domains: {<<>>}, ips: {<<>>},
   hosts: {<<>>}, socks5: {"unset", "none", "on"}]
Options ==
  \E f \in OptionFiles \cup Bad, g \in OptionFiles \cup Bad, s \in {"unset", "none", "on"} :
    Start(<<f, g, [EmptyFile EXCEPT !.socks5 = s]>>, Site, FALSE)

Spec == (AnyPolicies \/ Overlaps \/ Options) /\ [][Next]_allVars
====
