---- MODULE LRUCache ----
(***************************************************************************)
(* What a cache of internal/freelru promises its users: at most Cap        *)
(* entries, in the order of their last use; an entry is answered only      *)
(* while its lifetime lasts; a full cache makes room by dropping the least *)
(* recently used entry and nothing else.                                   *)
(***************************************************************************)
EXTENDS Integers, Sequences, SequencesExt

CONSTANTS
  Keys, Values,
  Cap,         \* capacity
  Lifetimes,   \* lifetimes entries are added with, 0 means for ever
  MaxNow       \* bound: largest reading of the clock

VARIABLES
  cache,   \* entries, least recently used first
  now,     \* the wall clock, in milliseconds; it may be set back
  reply    \* what the last operation answered

vars == <<cache, now, reply>>

NoReply == [op |-> "none"]

Expires(lifetime) == IF lifetime = 0 THEN 0 ELSE now + lifetime

Expired(e) == e.expire # 0 /\ e.expire <= now

Cached(key) == \E i \in 1..Len(cache) : cache[i].key = key

Index(key) == CHOOSE i \in 1..Len(cache) : cache[i].key = key

Entry(key) == cache[Index(key)]

Without(key) == IF Cached(key) THEN RemoveAt(cache, Index(key)) ELSE cache

Init == cache = <<>> /\ now = 0 /\ reply = NoReply

Add(key, value, lifetime) ==
  LET full == ~Cached(key) /\ Len(cache) = Cap
      e == [key |-> key, value |-> value, expire |-> Expires(lifetime)]
  IN /\ reply' = [op |-> "add", evicted |-> full]
     /\ cache' = Append(IF full THEN Tail(cache) ELSE Without(key), e)
     /\ UNCHANGED now

Hit(key) ==
  /\ Cached(key) /\ ~Expired(Entry(key))
  /\ reply' = [op |-> "hit", key |-> key, value |-> Entry(key).value]
  /\ cache' = Append(Without(key), Entry(key))
  /\ UNCHANGED now

\* An expired entry is dropped by the lookup that finds it.
Miss(key) ==
  /\ Cached(key) => Expired(Entry(key))
  /\ cache' = Without(key)
  /\ reply' = [op |-> "miss", key |-> key]
  /\ UNCHANGED now

SetClock(t) == now' = t /\ UNCHANGED <<cache, reply>>

Next ==
  \/ \E t \in 0..MaxNow : SetClock(t)
  \/ \E key \in Keys : Hit(key) \/ Miss(key)
  \/ \E key \in Keys, value \in Values, lifetime \in Lifetimes : Add(key, value, lifetime)

Spec == Init /\ [][Next]_vars
====
