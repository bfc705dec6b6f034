---- MODULE FreeLRU ----
(***************************************************************************)
(* internal/freelru/lru.go: an LRU cache in two arrays.  elements holds    *)
(* the entries without gaps in 0..len-1; each entry is on two rings        *)
(* threaded through the array, one in the order of use (next, prev) and    *)
(* one per collision bucket (nextBucket, prevBucket).  Operators with the  *)
(* names of the Go methods map an LRU to the LRU the method leaves behind. *)
(*                                                                         *)
(* A shard of ShardedLRU runs every operation under its mutex, so each     *)
(* operation is one action.  Bucket stands for hash and hashToBucketPos.   *)
(***************************************************************************)
EXTENDS Integers, Sequences, FiniteSetsExt

CONSTANTS
  Keys, Values, Cap, Lifetimes, MaxNow,   \* as in LRUCache
  Size,       \* length of buckets and of elements
  Bucket(_),  \* the bucket of a key
  NoKey, NoValue   \* the zero key and value

ASSUME FreeLRUAssumption ==
  /\ Cap \in Nat \ {0} /\ Size \in Nat /\ Size >= Cap
  /\ MaxNow \in Nat /\ Lifetimes \subseteq Nat
  /\ \A k \in Keys : Bucket(k) \in 0..(Size - 1)
  /\ NoKey \notin Keys /\ NoValue \notin Values

VARIABLES
  lru,    \* the struct: buckets, elements, head, len, and whether setHead panicked
  now,    \* now(), the wall clock in milliseconds
  reply   \* what the last operation answered

vars == <<lru, now, reply>>

Pos == 0..(Size - 1)
emptyBucket == -1   \* math.MaxUint32

zeroElement ==
  [key |-> NoKey, value |-> NoValue, expire |-> 0,
   next |-> 0, prev |-> 0, nextBucket |-> 0, prevBucket |-> 0, bucketPos |-> 0]

TypeOK ==
  /\ lru.buckets \in [Pos -> Pos \cup {emptyBucket}]
  /\ \A p \in Pos :
       lru.elements[p] \in
         [key: Keys \cup {NoKey}, value: Values \cup {NoValue}, expire: Nat,
          next: Pos, prev: Pos, nextBucket: Pos, prevBucket: Pos, bucketPos: Pos]
  /\ lru.head \in Pos /\ lru.len \in 0..Cap /\ ~lru.panic
  /\ now \in 0..MaxNow

initLRU ==
  [buckets |-> [b \in Pos |-> emptyBucket], elements |-> [p \in Pos |-> zeroElement],
   head |-> 0, len |-> 0, panic |-> FALSE]

Init == lru = initLRU /\ now = 0 /\ reply = [op |-> "none"]

----
setHead(l, pos) ==
  IF pos = l.head THEN [l EXCEPT !.panic = TRUE]
  ELSE LET oldest == l.elements[l.head].next
           a == [l EXCEPT !.elements[pos].prev = l.head, !.elements[pos].next = oldest]
           b == [a EXCEPT !.elements[oldest].prev = pos]
       IN [b EXCEPT !.elements[l.head].next = pos, !.head = pos]

unlinkElement(l, pos) ==
  LET e == l.elements[pos]
      a == [l EXCEPT !.elements[e.prev].next = e.next]
  IN [a EXCEPT !.elements[a.elements[pos].next].prev = a.elements[pos].prev]

\* Mutant of unlinkBucket: the bucket keeps pointing at the removed element.
unlinkBucketStale(l, pos) ==
  LET e == l.elements[pos]
      a == [l EXCEPT !.elements[e.prevBucket].nextBucket = e.nextBucket]
  IN IF e.prevBucket = e.nextBucket /\ e.prevBucket = pos
     THEN [l EXCEPT !.buckets[e.bucketPos] = emptyBucket]
     ELSE [a EXCEPT !.elements[e.nextBucket].prevBucket = e.prevBucket]

unlinkBucket(l, pos) ==
  LET e == l.elements[pos]
      a == [l EXCEPT !.elements[e.prevBucket].nextBucket = e.nextBucket]
  IN IF e.prevBucket = e.nextBucket /\ e.prevBucket = pos
     THEN [l EXCEPT !.buckets[e.bucketPos] = emptyBucket]
     ELSE [a EXCEPT !.elements[e.nextBucket].prevBucket = e.prevBucket,
                    !.buckets[e.bucketPos] = e.nextBucket]

evict(l, pos) ==
  LET a == IF pos = l.head THEN [l EXCEPT !.head = l.elements[pos].prev] ELSE l
  IN [unlinkBucket(unlinkElement(a, pos), pos) EXCEPT !.len = @ - 1]

\* prev and next are read before either neighbour is relinked.
move(l, to, from) ==
  LET e == l.elements[from]
      a == [l EXCEPT !.elements[e.prev].next = to,
                     !.head = IF from = l.head THEN to ELSE @]
      b == [a EXCEPT !.elements[e.next].prev = to]
      c == [b EXCEPT !.elements[e.prevBucket].nextBucket = to]
      d == [c EXCEPT !.elements[e.nextBucket].prevBucket = to]
      f == [d EXCEPT !.elements[to] = d.elements[from]]
  IN IF to = from THEN l
     ELSE IF f.buckets[f.elements[to].bucketPos] = from
          THEN [f EXCEPT !.buckets[f.elements[to].bucketPos] = to] ELSE f

expire(lifetime) == IF lifetime = 0 THEN 0 ELSE now + lifetime

insert(l, pos, key, value, lifetime) ==
  LET a == [l EXCEPT !.elements[pos] =
                       [@ EXCEPT !.key = key, !.value = value, !.expire = expire(lifetime)]]
      b == IF a.len = 0
           THEN [a EXCEPT !.elements[pos] = [@ EXCEPT !.prev = pos, !.next = pos], !.head = pos]
           ELSE IF pos # a.head THEN setHead(a, pos) ELSE a
  IN [b EXCEPT !.len = @ + 1]

removeAt(l, pos) ==
  LET a == evict(l, pos)
      b == move(a, pos, a.len)
  IN [b EXCEPT !.elements[b.len] = [@ EXCEPT !.key = NoKey, !.value = NoValue]]

\* The walk along a bucket, from its first element until it comes back there.
search(l, key) ==
  LET start == l.buckets[Bucket(key)]
      walk[i \in 0..Size] == IF i = 0 THEN start ELSE l.elements[walk[i - 1]].nextBucket
      hits == {i \in 0..(Size - 1) :
                 /\ \A j \in 1..i : walk[j] # start
                 /\ l.elements[walk[i]].key = key}
  IN IF start = emptyBucket \/ hits = {} THEN emptyBucket ELSE walk[Min(hits)]

\* The entry becomes the most recently used one.
use(l, pos) == IF pos # l.head THEN setHead(unlinkElement(l, pos), pos) ELSE l

----
\* addWithLifetime when the walk finds the key: replaced in place, made the head.
update(l, pos, value, lifetime) ==
  use([l EXCEPT !.elements[pos] = [@ EXCEPT !.value = value, !.expire = expire(lifetime)]], pos)

\* Mutant of freePos: the newest entry is evicted.
freePosNewest(l) == IF l.len = Cap THEN l.head ELSE l.len

\* The slot of a new entry: the next free one, or that of the oldest entry.
freePos(l) == IF l.len = Cap THEN l.elements[l.head].next ELSE l.len

\* addWithLifetime of a new key.  The first entry of an empty bucket links to
\* itself; otherwise the entry goes in front of the bucket's first element, looked
\* up again after an eviction, which may have emptied the bucket.
addNew(l, key, value, lifetime) ==
  LET b == Bucket(key)
      empty == l.buckets[b] = emptyBucket
      pos == freePos(l)
      a == IF l.len = Cap THEN evict(l, pos) ELSE l
      start == IF empty \/ a.buckets[b] = emptyBucket THEN pos ELSE a.buckets[b]
      last == IF empty THEN pos ELSE a.elements[start].prevBucket
      c == [a EXCEPT !.buckets[b] = pos,
                     !.elements[pos] = [@ EXCEPT !.bucketPos = b, !.nextBucket = start, !.prevBucket = last]]
      d == [c EXCEPT !.elements[c.elements[start].prevBucket].nextBucket = pos]
      f == [d EXCEPT !.elements[start].prevBucket = pos]
  IN insert(f, pos, key, value, lifetime)

AddWithLifetime(key, value, lifetime) ==
  LET pos == search(lru, key) IN
  /\ lru' = IF pos # emptyBucket THEN update(lru, pos, value, lifetime)
            ELSE addNew(lru, key, value, lifetime)
  /\ reply' = [op |-> "add", evicted |-> pos = emptyBucket /\ lru.len = Cap]
  /\ UNCHANGED now

expired(e) == e.expire # 0 /\ e.expire <= now

\* get, with findKey dropping the entry it finds expired.
Get(key) ==
  LET pos == search(lru, key) IN
  /\ IF pos = emptyBucket
     THEN lru' = lru /\ reply' = [op |-> "miss", key |-> key]
     ELSE IF expired(lru.elements[pos])
     THEN lru' = removeAt(lru, pos) /\ reply' = [op |-> "miss", key |-> key]
     ELSE /\ lru' = use(lru, pos)
          /\ reply' = [op |-> "hit", key |-> key, value |-> lru.elements[pos].value]
  /\ UNCHANGED now

\* Time passes, or the wall clock is set back.
SetClock(t) == now' = t /\ UNCHANGED <<lru, reply>>

Next ==
  \/ \E key \in Keys, value \in Values, lifetime \in Lifetimes :
       AddWithLifetime(key, value, lifetime)
  \/ \E key \in Keys : Get(key)
  \/ \E t \in 0..MaxNow : SetClock(t)

Spec == Init /\ [][Next]_vars

----
Live == 0..(lru.len - 1)

\* Besides the types: both ways round every ring meet, no link leaves the live entries, and a bucket's
\* ring holds exactly the live entries of its keys: move and evict relink all of it.
RingsIntact ==
  /\ TypeOK
  /\ \A p \in Live : LET e == lru.elements[p] IN
       /\ {e.next, e.prev, e.nextBucket, e.prevBucket} \subseteq Live
       /\ lru.elements[e.next].prev = p /\ lru.elements[e.prev].next = p
       /\ lru.elements[e.nextBucket].prevBucket = p
       /\ lru.elements[e.prevBucket].nextBucket = p
       /\ e.key # NoKey /\ e.bucketPos = Bucket(e.key)
       /\ lru.buckets[e.bucketPos] # emptyBucket
       /\ search(lru, e.key) = p
  /\ \A b \in Pos : lru.buckets[b] # emptyBucket =>
       lru.buckets[b] \in Live /\ lru.elements[lru.buckets[b]].bucketPos = b
  /\ lru.len > 0 => lru.head \in Live

\* The entries in the order of use: head.next is the oldest, head the newest.
recencyOf(l) ==
  LET at[i \in 1..l.len] == l.elements[IF i = 1 THEN l.head ELSE at[i - 1]].next
  IN [i \in 1..l.len |-> LET e == l.elements[at[i]] IN
        [key |-> e.key, value |-> e.value, expire |-> e.expire]]

Recency == recencyOf(lru)

Abstract == INSTANCE LRUCache WITH cache <- Recency

\* The two arrays implement the least-recently-used cache: same answers, same
\* evictions, same order of use, whatever the collisions and removals before.
Refines == Abstract!Spec
====
