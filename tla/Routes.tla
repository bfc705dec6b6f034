---- MODULE Routes ----
(***************************************************************************)
(* From the configuration to a policy: main merges the files, and then the *)
(* flags, into a Builder (Builder.Merge and Build of internal/core/core.go)*)
(* and what comes of it is asked for one host, by a session (genPolicy,    *)
(* module Policy) or for the DoH server (genDoHDialFunc, module DoHDial).  *)
(*                                                                         *)
(* A file is what Merge gets of it.  The keys of its tables are already    *)
(* split at ";" and expanded, so an entry has one pattern or prefix; its   *)
(* value is a policy, or a Dst in hosts.  socks5_address stands for all    *)
(* options of which the last one set counts.                               *)
(***************************************************************************)
EXTENDS DoHDial, AddrTrie

CONSTANTS
  Bits,     \* the bits of each address
  V6        \* the addresses that are IPv6

ASSUME RoutesAssumption == Bits \in [Addrs -> Seq({0, 1})] /\ V6 \subseteq Addrs

VARIABLES
  files,    \* the files, the flags last
  n,        \* how many of them are merged
  b,        \* the Builder
  query     \* the labels of the domain asked for

routes == <<files, n, b, query>>
allVars == <<vars, routes>>

BadPolicy == [NoPolicy EXCEPT !.mode = "bad"]   \* newPolicy rejects it

\* A file that says nothing; with no default policy it is NoPolicy.
EmptyFile ==
  [pools |-> {}, default |-> NoPolicy, domains |-> <<>>, ips |-> <<>>, hosts |-> <<>>,
   socks5 |-> "unset"]

NewBuilder ==
  [pools |-> {}, default |-> Unset, domains |-> NewDomainMatcher, ipv4 |-> NewIPTrie,
   ipv6 |-> NewIPTrie, hosts |-> NewDomainMatcher, socks5 |-> ""]

\* The program starts with the files fs, and is later asked for a domain or an address.
Start(fs, labels, ip) ==
  /\ files = fs /\ query = labels /\ isIP = ip
  /\ n = 0 /\ b = NewBuilder
  /\ stopIfNone = FALSE /\ default = Unset /\ domain = NoPolicy /\ hosts = NoHost
  /\ ipPolicy = [a \in Addrs |-> NoPolicy]
  /\ pc = "load" /\ host = ZeroHost /\ p = NoPolicy /\ addr = "none" /\ result = noResult

Exit == pc' = "exit" /\ UNCHANGED <<config, host, p, addr, result, routes>>

----
\* Builder.Merge: what makes it return an error.
Valid(f) ==
  /\ b.pools \cap f.pools = {}
  /\ f.default # BadPolicy
  /\ \A i \in DOMAIN f.domains : f.domains[i].value # BadPolicy
  /\ \A i \in DOMAIN f.ips : f.ips[i].value # BadPolicy /\ f.ips[i].family # "bad"

\* Builder.Merge: a table of domains, one entry after the other.
AddAll(m, entries) ==
  LET added[i \in 0..Len(entries)] ==
        IF i = 0 THEN m ELSE Add(added[i - 1], entries[i].pattern, entries[i].value)
  IN added[Len(entries)]

\* Builder.Merge: the IP tries; "*" has no colon and goes to the IPv4 trie.
InsertAll(t, ips, family) ==
  LET inserted[i \in 0..Len(ips)] ==
        IF i = 0 THEN t
        ELSE IF ips[i].family # family THEN inserted[i - 1]
        ELSE InsertIP(inserted[i - 1], ips[i].prefix, ips[i].value)
  IN inserted[Len(ips)]

\* Builder.Merge: one file.
Merge ==
  /\ pc = "load" /\ n < Len(files)
  /\ LET f == files[n + 1] IN
     IF ~Valid(f) THEN Exit
     ELSE /\ n' = n + 1
          /\ b' = [pools |-> b.pools \cup f.pools,
                   default |-> IF f.default = NoPolicy THEN b.default ELSE f.default,
                   domains |-> AddAll(b.domains, f.domains),
                   ipv4 |-> InsertAll(b.ipv4, f.ips, "v4"),
                   ipv6 |-> InsertAll(b.ipv6, f.ips, "v6"),
                   hosts |-> AddAll(b.hosts, f.hosts),
                   socks5 |-> IF f.socks5 = "unset" THEN b.socks5 ELSE f.socks5]
          /\ UNCHANGED <<vars, files, query>>

\* inboundIsEnabled
Enabled(a) == a \notin {"", "none"}

\* Builder.Build, and then the lookups of routeMatcher: getDomainPolicy, getHosts,
\* getIPPolicy.
Build ==
  /\ pc = "load" /\ n = Len(files)
  /\ IF ~Enabled(b.socks5) THEN Exit
     ELSE /\ default' = b.default
          /\ domain' = IF isIP THEN NoPolicy ELSE FindDomain(b.domains, query, NoPolicy)
          /\ hosts' = IF isIP THEN NoHost ELSE FindDomain(b.hosts, query, NoHost)
          /\ ipPolicy' = [a \in Addrs |->
               FindIP(IF a \in V6 THEN b.ipv6 ELSE b.ipv4, Bits[a], NoPolicy)]
          /\ stopIfNone' \in BOOLEAN /\ pc' \in {"start", "doh"}
          /\ stopIfNone' => pc' = "start"
          /\ UNCHANGED <<isIP, host, p, addr, result, routes>>

Next ==
  \/ Merge \/ Build
  \/ genPolicy /\ UNCHANGED routes
  \/ DoH /\ UNCHANGED routes

----
\* The entries of a table of the first k files, in the order of their merge.
Entries(table, k) ==
  LET all[i \in 0..Len(files)] == IF i = 0 THEN <<>> ELSE all[i - 1] \o files[i][table]
  IN all[k]
All(table) == Entries(table, Len(files))

\* What a pattern covers: "x" itself, "*.x" every name below x, "*x" both, "*" all.
Covers(pattern, domainName) ==
  CASE pattern.star = "all" -> TRUE
    [] pattern.star = "none" -> pattern.path = domainName
    [] pattern.star = "dot" -> IsStrictPrefix(pattern.path, domainName)
    [] pattern.star = "bare" -> IsPrefix(pattern.path, domainName)

\* Of the entries S, the last of the longest.
LastLongest(S, length) ==
  CHOOSE i \in S : \A j \in S : length[j] < length[i] \/ (length[j] = length[i] /\ j <= i)

\* The value of the last of the longest entries that cover the domain.
LongestPattern(entries, none) ==
  LET S == {i \in DOMAIN entries :
              ~Dotless(entries[i].pattern) /\ Covers(entries[i].pattern, query)}
      length == [i \in DOMAIN entries |-> Len(entries[i].pattern.path)]
  IN IF S = {} THEN none ELSE entries[LastLongest(S, length)].value

\* The value of the last of the longest prefixes of an address.
LongestPrefix(entries, family, bits, none) ==
  LET S == {i \in DOMAIN entries : entries[i].family = family /\ IsPrefix(entries[i].prefix, bits)}
      length == [i \in DOMAIN entries |-> Len(entries[i].prefix)]
  IN IF S = {} THEN none ELSE entries[LastLongest(S, length)].value

\* An option of the last of the first k files that sets it.
LastSet(option, k, unset, none) ==
  LET S == {i \in 1..k : files[i][option] # unset}
  IN IF S = {} THEN none ELSE files[CHOOSE i \in S : \A j \in S : j <= i][option]

\* The lookups a connection starts from, in tries built up over several files, find the
\* entry a reader of the files expects: of those that cover the host the longest, and of
\* equals the one that came last; a pattern without a dot is as if it were not there,
\* and "*" among the IP policies covers IPv4 only.  The default policy and the inbound
\* are those of the last file that sets them, and no two files declare one pool.
LongestMatch ==
  pc \in {"start", "doh"} =>
    /\ ~isIP => /\ domain = LongestPattern(All("domains"), NoPolicy)
                /\ hosts = LongestPattern(All("hosts"), NoHost)
    /\ \A a \in Addrs :
         ipPolicy[a] =
           LongestPrefix(All("ips"), IF a \in V6 THEN "v6" ELSE "v4", Bits[a], NoPolicy)
    /\ default = LastSet("default", Len(files), NoPolicy, Unset)
    /\ \A i, j \in DOMAIN files : i < j => files[i].pools \cap files[j].pools = {}
    /\ Enabled(LastSet("socks5", Len(files), "unset", ""))
====
