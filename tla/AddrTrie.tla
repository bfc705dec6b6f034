---- MODULE AddrTrie ----
(***************************************************************************)
(* The lookup structures of internal/addrtrie: DomainMatcher, a tree of    *)
(* the labels of a domain from its last one on, and IPv4Trie and IPv6Trie, *)
(* trees of the bits of an address.                                        *)
(*                                                                         *)
(* A node is the path that leads to it.  A domain is its labels from the   *)
(* last one on; a pattern such a path and the star before it: none, "*."   *)
(* (dot), "*" right before a label (bare), or nothing but "*" (all).  An   *)
(* address is its bits, a prefix the first of them.                        *)
(***************************************************************************)
EXTENDS Integers, Sequences, SequencesExt

NewDomainMatcher == [nodes |-> {<<>>}, exact |-> <<>>, wildcard |-> <<>>]

\* The value of a node is set.
Put(f, node, value) == [x \in DOMAIN f \cup {node} |-> IF x = node THEN value ELSE f[x]]

insertPattern(m, path, value, isWildcard, isExact) ==
  [nodes |-> m.nodes \cup Prefixes(path),
   wildcard |-> IF isWildcard THEN Put(m.wildcard, path, value) ELSE m.wildcard,
   exact |-> IF isExact THEN Put(m.exact, path, value) ELSE m.exact]

\* Without a dot a pattern is an error, which Builder.Merge does not look at.
Dotless(pattern) == pattern.star \in {"none", "bare"} /\ Len(pattern.path) = 1

Add(m, pattern, value) ==
  CASE pattern.star = "all" -> insertPattern(m, <<>>, value, TRUE, FALSE)
    [] Dotless(pattern) -> m
    [] OTHER -> insertPattern(m, pattern.path, value, pattern.star # "none", pattern.star # "dot")

\* Mutant of Passed: "*." in front of a name also covers the name itself.
PassedWhole(m, domain, i) == SubSeq(domain, 1, i) \in DOMAIN m.wildcard

\* DomainMatcher.Find at a node: the wildcard there is a candidate unless the whole
\* domain has led there.
Passed(m, domain, i) == i < Len(domain) /\ SubSeq(domain, 1, i) \in DOMAIN m.wildcard

\* DomainMatcher.Find: one label of the walk, which ends where there is no child.
LabelStep(m, domain, i, above) ==
  LET matched == above.matched /\ SubSeq(domain, 1, i) \in m.nodes
  IN [matched |-> matched,
      candidate |-> IF matched /\ i > 0 /\ Passed(m, domain, i)
                    THEN m.wildcard[SubSeq(domain, 1, i)] ELSE above.candidate]

\* DomainMatcher.Find
FindDomain(m, domain, none) ==
  LET walk[i \in 0..Len(domain)] ==
        LabelStep(m, domain, i, IF i = 0 THEN [matched |-> TRUE, candidate |-> none] ELSE walk[i - 1])
      end == walk[Len(domain)]
  IN IF end.matched /\ domain \in DOMAIN m.exact THEN m.exact[domain]
     ELSE IF end.candidate # none THEN end.candidate
     ELSE IF <<>> \in DOMAIN m.wildcard THEN m.wildcard[<<>>] ELSE none

----
NewIPTrie == [nodes |-> {<<>>}, value |-> <<>>]

InsertIP(t, prefix, value) ==
  [nodes |-> t.nodes \cup Prefixes(prefix), value |-> Put(t.value, prefix, value)]

\* IPv4Trie.Find, IPv6Trie.Find: one bit of the way down.
BitStep(t, addr, i, above) ==
  LET reached == above.reached /\ SubSeq(addr, 1, i) \in t.nodes
  IN [reached |-> reached,
      matched |-> IF reached /\ SubSeq(addr, 1, i) \in DOMAIN t.value
                  THEN t.value[SubSeq(addr, 1, i)] ELSE above.matched]

\* IPv4Trie.Find, IPv6Trie.Find: the last value on the way down.
FindIP(t, addr, none) ==
  LET walk[i \in 0..Len(addr)] ==
        BitStep(t, addr, i, IF i = 0 THEN [reached |-> TRUE, matched |-> none] ELSE walk[i - 1])
  IN walk[Len(addr)].matched
====
