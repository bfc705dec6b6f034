---- MODULE FreeLRUProofs ----
(***************************************************************************)
(* Proofs about FreeLRU, for any keys, values and lifetimes, any capacity, *)
(* any length of the arrays and any hash: the links are intact between     *)
(* calls, and the LRU implements LRUCache.                                 *)
(*                                                                         *)
(* The first half follows the assignments of lru.go: what each operation   *)
(* does to the fields, and that it keeps the rings rings.  The second half *)
(* follows the order of use: what each operation does to the list of the   *)
(* entries from the oldest to the newest.                                  *)
(***************************************************************************)
EXTENDS FreeLRU, FiniteSetTheorems, SequenceTheorems, WellFoundedInduction,
        NaturalsInduction, TLAPS

\* An element of the array.
Element ==
  [key: Keys \cup {NoKey}, value: Values \cup {NoValue}, expire: Nat,
   next: Pos, prev: Pos, nextBucket: Pos, prevBucket: Pos, bucketPos: Pos]

\* The type of the struct.
LRUs ==
  [buckets: [Pos -> Pos \cup {emptyBucket}], elements: [Pos -> Element],
   head: Pos, len: Int, panic: BOOLEAN]

\* k keeps what l has outside of elements; the contents of the entries; their links.
SameStruct(l, k) ==
  k.buckets = l.buckets /\ k.head = l.head /\ k.len = l.len /\ k.panic = l.panic
SameContents(l, k) ==
  \A p \in Pos : /\ k.elements[p].key = l.elements[p].key
                 /\ k.elements[p].value = l.elements[p].value
                 /\ k.elements[p].expire = l.elements[p].expire
SameUse(l, k) ==
  \A p \in Pos : k.elements[p].next = l.elements[p].next /\ k.elements[p].prev = l.elements[p].prev
SameBuckets(l, k) ==
  \A p \in Pos : /\ k.elements[p].nextBucket = l.elements[p].nextBucket
                 /\ k.elements[p].prevBucket = l.elements[p].prevBucket
                 /\ k.elements[p].bucketPos = l.elements[p].bucketPos

\* k differs from l in one field of the element at x, which is y.
NextSet(l, k, x, y) ==
  \A p \in Pos : /\ k.elements[p].next = IF p = x THEN y ELSE l.elements[p].next
                 /\ k.elements[p].prev = l.elements[p].prev
PrevSet(l, k, x, y) ==
  \A p \in Pos : /\ k.elements[p].prev = IF p = x THEN y ELSE l.elements[p].prev
                 /\ k.elements[p].next = l.elements[p].next
NextBucketSet(l, k, x, y) ==
  \A p \in Pos : /\ k.elements[p].nextBucket = IF p = x THEN y ELSE l.elements[p].nextBucket
                 /\ k.elements[p].prevBucket = l.elements[p].prevBucket
                 /\ k.elements[p].bucketPos = l.elements[p].bucketPos
PrevBucketSet(l, k, x, y) ==
  \A p \in Pos : /\ k.elements[p].prevBucket = IF p = x THEN y ELSE l.elements[p].prevBucket
                 /\ k.elements[p].nextBucket = l.elements[p].nextBucket
                 /\ k.elements[p].bucketPos = l.elements[p].bucketPos

----
(***************************************************************************)
(* What an assignment to a field does.                                     *)
(***************************************************************************)

\* l with e at x, or with y in a field of the element at x.
With(l, x, e) == [l EXCEPT !.elements[x] = e]
WithNext(l, x, y) == [l EXCEPT !.elements[x].next = y]
WithPrev(l, x, y) == [l EXCEPT !.elements[x].prev = y]
WithNextBucket(l, x, y) == [l EXCEPT !.elements[x].nextBucket = y]
WithPrevBucket(l, x, y) == [l EXCEPT !.elements[x].prevBucket = y]

\* An assignment to the element at x is what With says it is.
LEMMA SetElement ==
  ASSUME NEW l \in LRUs, NEW x \in Pos, NEW e \in Element,
         NEW k, k = With(l, x, e)
  PROVE  /\ k \in LRUs /\ SameStruct(l, k)
         /\ \A p \in Pos : k.elements[p] = IF p = x THEN e ELSE l.elements[p]
<1>1. k.elements = [l.elements EXCEPT ![x] = e]
  BY DEF LRUs, With
<1>2. k.buckets = l.buckets /\ k.head = l.head /\ k.len = l.len /\ k.panic = l.panic
  BY DEF LRUs, With
<1>3. k \in LRUs
  BY DEF LRUs, With
<1>4. \A p \in Pos : k.elements[p] = IF p = x THEN e ELSE l.elements[p]
  BY <1>1 DEF LRUs
<1>5. QED
  BY <1>2, <1>3, <1>4 DEF SameStruct

\* An assignment to next changes that field only.
LEMMA SetNext ==
  ASSUME NEW l \in LRUs, NEW x \in Pos, NEW y \in Pos, NEW k, k = WithNext(l, x, y)
  PROVE  /\ k \in LRUs /\ SameStruct(l, k) /\ SameContents(l, k) /\ SameBuckets(l, k)
         /\ NextSet(l, k, x, y)
<1> DEFINE e == [l.elements[x] EXCEPT !.next = y]
<1>1. k = With(l, x, e)
  BY DEF With, WithNext
<1>2. l.elements[x] \in Element
  BY DEF LRUs
<1>3. e \in Element
  BY <1>2 DEF Element
<1> HIDE DEF e
<1>4. k \in LRUs /\ SameStruct(l, k) /\ \A p \in Pos : k.elements[p] = IF p = x THEN e ELSE l.elements[p]
  BY ONLY <1>1, <1>3, l \in LRUs, x \in Pos, SetElement
<1>5. QED
  BY <1>2, <1>4 DEF e, Element, NextSet, SameContents, SameUse, SameBuckets

\* An assignment to prev changes that field only.
LEMMA SetPrev ==
  ASSUME NEW l \in LRUs, NEW x \in Pos, NEW y \in Pos, NEW k, k = WithPrev(l, x, y)
  PROVE  /\ k \in LRUs /\ SameStruct(l, k) /\ SameContents(l, k) /\ SameBuckets(l, k)
         /\ PrevSet(l, k, x, y)
<1> DEFINE e == [l.elements[x] EXCEPT !.prev = y]
<1>1. k = With(l, x, e)
  BY DEF With, WithPrev
<1>2. l.elements[x] \in Element
  BY DEF LRUs
<1>3. e \in Element
  BY <1>2 DEF Element
<1> HIDE DEF e
<1>4. k \in LRUs /\ SameStruct(l, k) /\ \A p \in Pos : k.elements[p] = IF p = x THEN e ELSE l.elements[p]
  BY ONLY <1>1, <1>3, l \in LRUs, x \in Pos, SetElement
<1>5. QED
  BY <1>2, <1>4 DEF e, Element, PrevSet, SameContents, SameUse, SameBuckets

\* An assignment to nextBucket changes that field only.
LEMMA SetNextBucket ==
  ASSUME NEW l \in LRUs, NEW x \in Pos, NEW y \in Pos, NEW k, k = WithNextBucket(l, x, y)
  PROVE  /\ k \in LRUs /\ SameStruct(l, k) /\ SameContents(l, k) /\ SameUse(l, k)
         /\ NextBucketSet(l, k, x, y)
<1> DEFINE e == [l.elements[x] EXCEPT !.nextBucket = y]
<1>1. k = With(l, x, e)
  BY DEF With, WithNextBucket
<1>2. l.elements[x] \in Element
  BY DEF LRUs
<1>3. e \in Element
  BY <1>2 DEF Element
<1> HIDE DEF e
<1>4. k \in LRUs /\ SameStruct(l, k) /\ \A p \in Pos : k.elements[p] = IF p = x THEN e ELSE l.elements[p]
  BY ONLY <1>1, <1>3, l \in LRUs, x \in Pos, SetElement
<1>5. QED
  BY <1>2, <1>4 DEF e, Element, NextBucketSet, SameContents, SameUse, SameBuckets

\* An assignment to prevBucket changes that field only.
LEMMA SetPrevBucket ==
  ASSUME NEW l \in LRUs, NEW x \in Pos, NEW y \in Pos, NEW k, k = WithPrevBucket(l, x, y)
  PROVE  /\ k \in LRUs /\ SameStruct(l, k) /\ SameContents(l, k) /\ SameUse(l, k)
         /\ PrevBucketSet(l, k, x, y)
<1> DEFINE e == [l.elements[x] EXCEPT !.prevBucket = y]
<1>1. k = With(l, x, e)
  BY DEF With, WithPrevBucket
<1>2. l.elements[x] \in Element
  BY DEF LRUs
<1>3. e \in Element
  BY <1>2 DEF Element
<1> HIDE DEF e
<1>4. k \in LRUs /\ SameStruct(l, k) /\ \A p \in Pos : k.elements[p] = IF p = x THEN e ELSE l.elements[p]
  BY ONLY <1>1, <1>3, l \in LRUs, x \in Pos, SetElement
<1>5. QED
  BY <1>2, <1>4 DEF e, Element, PrevBucketSet, SameContents, SameUse, SameBuckets

(***************************************************************************)
(* Rings.                                                                  *)
(***************************************************************************)

\* Following n, and q the other way, the places of S form one ring per class of c: a set
\* that n does not leave has all of a class of which it has one.
Ring(S, n, q, c) ==
  /\ \A x \in S : n[x] \in S /\ q[x] \in S /\ n[q[x]] = x /\ q[n[x]] = x /\ c[n[x]] = c[x]
  /\ \A T \in SUBSET S : (\A x \in T : n[x] \in T) =>
       \A x \in T, y \in S : c[x] = c[y] => y \in T

\* A place that links to itself is alone in its class.
LEMMA AloneInRing ==
  ASSUME NEW S, NEW n, NEW q, NEW c, Ring(S, n, q, c),
         NEW p \in S, n[p] = p \/ q[p] = p
  PROVE  n[p] = p /\ q[p] = p /\ \A y \in S : c[y] = c[p] => y = p
<1>1. n[p] = p /\ q[p] = p
  BY DEF Ring
<1>2. \A x \in {p} : n[x] \in {p}
  BY <1>1
<1>3. {p} \in SUBSET S
  OBVIOUS
<1>4. \A y \in S : c[p] = c[y] => y \in {p}
  BY <1>2, <1>3 DEF Ring
<1>5. QED
  BY <1>1, <1>4

\* Taking a place out of its ring.
LEMMA UnlinkFromRing ==
  ASSUME NEW S, NEW n, NEW q, NEW c, Ring(S, n, q, c), NEW p \in S,
         NEW n1, NEW q1, NEW c1,
         \A x \in S \ {p} : /\ n1[x] = IF x = q[p] THEN n[p] ELSE n[x]
                            /\ q1[x] = IF x = n[p] THEN q[p] ELSE q[x]
                            /\ c1[x] = c[x]
  PROVE  Ring(S \ {p}, n1, q1, c1)
<1>1. \A x \in S : n[x] \in S /\ q[x] \in S /\ n[q[x]] = x /\ q[n[x]] = x /\ c[n[x]] = c[x]
  BY DEF Ring
<1>2. \A x \in S \ {p} : n1[x] \in S \ {p} /\ q1[x] \in S \ {p}
  BY <1>1
<1>3. \A x \in S \ {p} : n1[q1[x]] = x /\ q1[n1[x]] = x /\ c1[n1[x]] = c1[x]
  BY <1>1, <1>2
<1>4. ASSUME NEW T \in SUBSET (S \ {p}), \A x \in T : n1[x] \in T,
             NEW x \in T, NEW y \in S \ {p}, c1[x] = c1[y]
      PROVE  y \in T
  <2> DEFINE R == T \cup {z \in {p} : q[p] \in T}
  <2>1. R \in SUBSET S /\ x \in R
    OBVIOUS
  <2>2. ASSUME NEW z \in R PROVE n[z] \in R
    <3>1. CASE z = p
      BY <1>1, <1>4, <3>1
    <3>2. CASE z # p
      BY <1>1, <1>4, <3>2
    <3>3. QED
      BY <3>1, <3>2
  <2>3. c[x] = c[y]
    BY <1>4
  <2> HIDE DEF R
  <2>4. y \in R
    BY <2>1, <2>2, <2>3 DEF Ring
  <2>5. QED
    BY <2>4 DEF R
<1>5. QED
  BY <1>2, <1>3, <1>4 DEF Ring

\* Putting a place into the ring of s, in front of s.
LEMMA LinkIntoRing ==
  ASSUME NEW S, NEW n, NEW q, NEW c, Ring(S, n, q, c), NEW s \in S, NEW p, p \notin S,
         NEW n1, NEW q1, NEW c1, c1[p] = c[s], n1[p] = s, q1[p] = q[s],
         \A x \in S : /\ n1[x] = IF x = q[s] THEN p ELSE n[x]
                      /\ q1[x] = IF x = s THEN p ELSE q[x]
                      /\ c1[x] = c[x]
  PROVE  Ring(S \cup {p}, n1, q1, c1)
<1>1. \A x \in S : n[x] \in S /\ q[x] \in S /\ n[q[x]] = x /\ q[n[x]] = x /\ c[n[x]] = c[x]
  BY DEF Ring
<1>2. \A x \in S \cup {p} : n1[x] \in S \cup {p} /\ q1[x] \in S \cup {p}
  BY <1>1
<1>3. \A x \in S \cup {p} : n1[q1[x]] = x /\ q1[n1[x]] = x /\ c1[n1[x]] = c1[x]
  BY <1>1, <1>2
<1>4. ASSUME NEW T \in SUBSET (S \cup {p}), \A x \in T : n1[x] \in T,
             NEW x \in T, NEW y \in S \cup {p}, c1[x] = c1[y]
      PROVE  y \in T
  <2> DEFINE R == T \ {p}
  <2>1. R \in SUBSET S
    OBVIOUS
  <2>2. p \in T => s \in R
    BY <1>4
  <2>3. \A z \in R : n[z] \in R
    BY <1>1, <1>4, <2>2
  <2>4. PICK v \in R : c[v] = c1[x]
    BY <2>2
  <2> HIDE DEF R
  <2>5. \A w \in S : c[w] = c1[x] => w \in R
    BY <2>1, <2>3, <2>4 DEF Ring
  <2>6. CASE y # p
    BY <2>5, <2>6, <1>4 DEF R
  <2>7. CASE y = p
    <3>1. q[s] \in R
      BY <2>5, <2>7, <1>1, <1>4
    <3>2. n1[q[s]] = p
      BY <1>1
    <3>3. QED
      BY <3>1, <3>2, <1>4, <2>7 DEF R
  <2>8. QED
    BY <2>6, <2>7
<1>5. QED
  BY <1>2, <1>3, <1>4 DEF Ring

\* A new ring of one place.
LEMMA NewRing ==
  ASSUME NEW S, NEW n, NEW q, NEW c, Ring(S, n, q, c), NEW p, p \notin S,
         NEW n1, NEW q1, NEW c1, n1[p] = p, q1[p] = p,
         \A x \in S : n1[x] = n[x] /\ q1[x] = q[x] /\ c1[x] = c[x] /\ c[x] # c1[p]
  PROVE  Ring(S \cup {p}, n1, q1, c1)
<1>1. \A x \in S : n[x] \in S /\ q[x] \in S /\ n[q[x]] = x /\ q[n[x]] = x /\ c[n[x]] = c[x]
  BY DEF Ring
<1>2. \A x \in S \cup {p} : n1[x] \in S \cup {p} /\ q1[x] \in S \cup {p}
  BY <1>1
<1>3. \A x \in S \cup {p} : n1[q1[x]] = x /\ q1[n1[x]] = x /\ c1[n1[x]] = c1[x]
  BY <1>1, <1>2
<1>4. ASSUME NEW T \in SUBSET (S \cup {p}), \A x \in T : n1[x] \in T,
             NEW x \in T, NEW y \in S \cup {p}, c1[x] = c1[y]
      PROVE  y \in T
  <2> DEFINE R == T \ {p}
  <2>1. R \in SUBSET S /\ \A z \in R : n[z] \in R
    BY <1>1, <1>4
  <2>2. CASE x = p
    BY <2>2, <1>4
  <2>3. CASE x # p
    <3>1. x \in R /\ y \in S /\ c[x] = c[y]
      BY <2>3, <1>4
    <3>2. QED
      BY <3>1, <2>1 DEF Ring
  <2>4. QED
    BY <2>2, <2>3
<1>5. QED
  BY <1>2, <1>3, <1>4 DEF Ring

\* A place moves: t takes the part of f.
LEMMA MoveInRing ==
  ASSUME NEW S, NEW n, NEW q, NEW c, Ring(S, n, q, c), NEW f \in S, NEW t, t \notin S,
         NEW n1, NEW q1, NEW c1, c1[t] = c[f],
         n1[t] = IF n[f] = f THEN t ELSE n[f], q1[t] = IF q[f] = f THEN t ELSE q[f],
         \A x \in S \ {f} : /\ n1[x] = IF x = q[f] THEN t ELSE n[x]
                            /\ q1[x] = IF x = n[f] THEN t ELSE q[x]
                            /\ c1[x] = c[x]
  PROVE  Ring((S \ {f}) \cup {t}, n1, q1, c1)
<1> DEFINE M == (S \ {f}) \cup {t}
<1>1. \A x \in S : n[x] \in S /\ q[x] \in S /\ n[q[x]] = x /\ q[n[x]] = x /\ c[n[x]] = c[x]
  BY DEF Ring
<1>2. \A x \in M : n1[x] \in M /\ q1[x] \in M
  BY <1>1
<1>3. \A x \in M : n1[q1[x]] = x /\ q1[n1[x]] = x /\ c1[n1[x]] = c1[x]
  BY <1>1, <1>2
<1>4. ASSUME NEW T \in SUBSET M, \A x \in T : n1[x] \in T,
             NEW x \in T, NEW y \in M, c1[x] = c1[y]
      PROVE  y \in T
  <2> DEFINE R == (T \ {t}) \cup {z \in {f} : t \in T}
             old(z) == IF z = t THEN f ELSE z
  <2>1. R \in SUBSET S
    OBVIOUS
  <2>2. \A z \in R : n[z] \in R
    BY <1>1, <1>4
  <2>3. old(x) \in R /\ old(y) \in S /\ c[old(x)] = c[old(y)]
    BY <1>4
  <2> HIDE DEF old, R
  <2>4. old(y) \in R
    BY <2>1, <2>2, <2>3 DEF Ring
  <2>5. QED
    BY <2>4 DEF old, R
<1>5. QED
  BY <1>2, <1>3, <1>4 DEF Ring

(***************************************************************************)
(* What the operations on the rings do to the fields.                      *)
(***************************************************************************)

\* In k the neighbours of x in l are linked to each other: in the order of use, and in the
\* ring of its bucket, which starts after x or is empty.
OutOfUse(l, k, x) ==
  LET e == l.elements[x] IN
  \A p \in Pos :
    /\ k.elements[p].next = IF p = e.prev THEN e.next ELSE l.elements[p].next
    /\ k.elements[p].prev = IF p = e.next THEN e.prev ELSE l.elements[p].prev
OutOfBucket(l, k, x) ==
  LET e == l.elements[x] IN
  \A p \in Pos :
    /\ k.elements[p].bucketPos = l.elements[p].bucketPos
    /\ k.elements[p].nextBucket =
         IF p = e.prevBucket THEN e.nextBucket ELSE l.elements[p].nextBucket
    /\ k.elements[p].prevBucket =
         IF p = e.nextBucket THEN e.prevBucket ELSE l.elements[p].prevBucket
    /\ k.buckets[p] =
         IF p # e.bucketPos THEN l.buckets[p]
         ELSE IF e.prevBucket = x /\ e.nextBucket = x THEN emptyBucket ELSE e.nextBucket

\* In k, x is between the head and the oldest entry of l.
AtHead(l, k, x) ==
  LET oldest == l.elements[l.head].next IN
  \A p \in Pos :
    /\ k.elements[p].next =
         IF p = l.head THEN x ELSE IF p = x THEN oldest ELSE l.elements[p].next
    /\ k.elements[p].prev =
         IF p = oldest THEN x ELSE IF p = x THEN l.head ELSE l.elements[p].prev

\* unlinkElement: the links of the order of use, and the head if x was it.
LEMMA UnlinkElementEffect ==
  ASSUME NEW l \in LRUs, NEW x \in Pos, NEW k, k = unlinkElement(l, x)
  PROVE  /\ k \in LRUs /\ SameStruct(l, k) /\ SameContents(l, k) /\ SameBuckets(l, k)
         /\ OutOfUse(l, k, x)
<1> DEFINE e == l.elements[x]
           a == WithNext(l, e.prev, e.next)
           y == a.elements[x].next
           z == a.elements[x].prev
<1>1. k = WithPrev(a, y, z)
  BY DEF unlinkElement, WithNext, WithPrev
<1>2. e.next \in Pos /\ e.prev \in Pos
  BY DEF LRUs, Element
<1> HIDE DEF e
<1>3. /\ a \in LRUs /\ SameStruct(l, a) /\ SameContents(l, a) /\ SameBuckets(l, a)
      /\ NextSet(l, a, e.prev, e.next)
  BY ONLY l \in LRUs, <1>2, SetNext
<1> HIDE DEF a
<1>4. y = e.next /\ z = e.prev
  BY <1>3 DEF e, NextSet
<1>5. /\ k \in LRUs /\ SameStruct(a, k) /\ SameContents(a, k) /\ SameBuckets(a, k)
      /\ PrevSet(a, k, y, z)
  BY ONLY <1>1, <1>2, <1>3, <1>4, SetPrev
<1>6. QED
  BY ONLY <1>3, <1>4, <1>5 DEF e, SameStruct, SameContents, SameBuckets, NextSet, PrevSet, OutOfUse

\* The links of the bucket of x, which becomes the ring without x or empty.
LEMMA UnlinkBucketEffect ==
  ASSUME NEW l \in LRUs, NEW x \in Pos, NEW k, k = unlinkBucket(l, x)
  PROVE  /\ k \in LRUs /\ k.head = l.head /\ k.len = l.len /\ k.panic = l.panic
         /\ SameContents(l, k) /\ SameUse(l, k)
         /\ OutOfBucket(l, k, x)
<1> DEFINE e == l.elements[x]
           a == WithNextBucket(l, e.prevBucket, e.nextBucket)
           c == WithPrevBucket(a, e.nextBucket, e.prevBucket)
<1>1. e.nextBucket \in Pos /\ e.prevBucket \in Pos /\ e.bucketPos \in Pos
  BY DEF LRUs, Element
<1>2. CASE e.prevBucket = x /\ e.nextBucket = x
  <2>1. k = [l EXCEPT !.buckets[e.bucketPos] = emptyBucket]
    BY <1>2 DEF unlinkBucket
  <2>2. k \in LRUs /\ k.head = l.head /\ k.len = l.len /\ k.panic = l.panic
    BY <2>1, <1>1 DEF LRUs
  <2>3. k.elements = l.elements
    BY <2>1 DEF LRUs
  <2>4. \A p \in Pos : k.buckets[p] = IF p = e.bucketPos THEN emptyBucket ELSE l.buckets[p]
    BY <2>1 DEF LRUs
  <2>5. QED
    BY <1>2, <2>2, <2>3, <2>4 DEF SameContents, SameUse, OutOfBucket
<1>3. CASE ~(e.prevBucket = x /\ e.nextBucket = x)
  <2>1. k = [c EXCEPT !.buckets[e.bucketPos] = e.nextBucket]
    BY <1>3 DEF unlinkBucket, WithNextBucket, WithPrevBucket
  <2> HIDE DEF e
  <2>2. /\ a \in LRUs /\ SameStruct(l, a) /\ SameContents(l, a) /\ SameUse(l, a)
        /\ NextBucketSet(l, a, e.prevBucket, e.nextBucket)
    BY ONLY l \in LRUs, <1>1, SetNextBucket
  <2> HIDE DEF a
  <2>3. /\ c \in LRUs /\ SameStruct(a, c) /\ SameContents(a, c) /\ SameUse(a, c)
        /\ PrevBucketSet(a, c, e.nextBucket, e.prevBucket)
    BY ONLY <1>1, <2>2, SetPrevBucket
  <2> HIDE DEF c
  <2>4. k \in LRUs /\ k.head = c.head /\ k.len = c.len /\ k.panic = c.panic /\ k.elements = c.elements
    BY <2>1, <1>1, <2>3 DEF LRUs
  <2>5. \A p \in Pos : k.buckets[p] = IF p = e.bucketPos THEN e.nextBucket ELSE c.buckets[p]
    BY <2>1, <2>3 DEF LRUs
  <2>6. QED
    BY ONLY <1>3, <2>2, <2>3, <2>4, <2>5
       DEF e, SameStruct, SameContents, SameUse, NextBucketSet, PrevBucketSet, OutOfBucket
<1>4. QED
  BY <1>2, <1>3

\* x becomes the newest, between the head and the oldest.
LEMMA SetHeadEffect ==
  ASSUME NEW l \in LRUs, NEW x \in Pos, x # l.head, NEW k, k = setHead(l, x)
  PROVE  /\ k \in LRUs /\ k.head = x /\ k.len = l.len /\ k.panic = l.panic /\ k.buckets = l.buckets
         /\ SameContents(l, k) /\ SameBuckets(l, k)
         /\ AtHead(l, k, x)
<1> DEFINE h == l.head
           oldest == l.elements[h].next
           a1 == WithPrev(l, x, h)
           a == WithNext(a1, x, oldest)
           b == WithPrev(a, oldest, x)
           c == WithNext(b, h, x)
<1>1. k = [c EXCEPT !.head = x]
  BY DEF setHead, WithNext, WithPrev
<1>2. h \in Pos /\ oldest \in Pos
  BY DEF LRUs, Element
<1> HIDE DEF h, oldest
<1>3. /\ a1 \in LRUs /\ SameStruct(l, a1) /\ SameContents(l, a1) /\ SameBuckets(l, a1)
      /\ PrevSet(l, a1, x, h)
  BY ONLY l \in LRUs, x \in Pos, <1>2, SetPrev
<1> HIDE DEF a1
<1>4. /\ a \in LRUs /\ SameStruct(a1, a) /\ SameContents(a1, a) /\ SameBuckets(a1, a)
      /\ NextSet(a1, a, x, oldest)
  BY ONLY x \in Pos, <1>2, <1>3, SetNext
<1> HIDE DEF a
<1>5. /\ b \in LRUs /\ SameStruct(a, b) /\ SameContents(a, b) /\ SameBuckets(a, b)
      /\ PrevSet(a, b, oldest, x)
  BY ONLY x \in Pos, <1>2, <1>4, SetPrev
<1> HIDE DEF b
<1>6. /\ c \in LRUs /\ SameStruct(b, c) /\ SameContents(b, c) /\ SameBuckets(b, c)
      /\ NextSet(b, c, h, x)
  BY ONLY x \in Pos, <1>2, <1>5, SetNext
<1> HIDE DEF c
<1>7. k \in LRUs /\ k.head = x /\ k.len = c.len /\ k.panic = c.panic /\ k.buckets = c.buckets /\ k.elements = c.elements
  BY <1>1, <1>6 DEF LRUs
<1>8. SameContents(l, k) /\ SameBuckets(l, k)
  BY ONLY <1>3, <1>4, <1>5, <1>6, <1>7 DEF SameContents, SameBuckets
<1>9. k.len = l.len /\ k.panic = l.panic /\ k.buckets = l.buckets
  BY ONLY <1>3, <1>4, <1>5, <1>6, <1>7 DEF SameStruct
<1>10. AtHead(l, k, x)
  BY ONLY x # l.head, <1>3, <1>4, <1>5, <1>6, <1>7 DEF h, oldest, NextSet, PrevSet, AtHead
<1>11. QED
  BY <1>7, <1>8, <1>9, <1>10

\* evict: one entry less, out of both rings; the other elements keep their contents.
LEMMA EvictEffect ==
  ASSUME NEW l \in LRUs, NEW x \in Pos, NEW k, k = evict(l, x)
  PROVE  /\ k \in LRUs /\ k.len = l.len - 1 /\ k.panic = l.panic
         /\ k.head = IF x = l.head THEN l.elements[x].prev ELSE l.head
         /\ SameContents(l, k) /\ OutOfUse(l, k, x) /\ OutOfBucket(l, k, x)
<1> DEFINE a == IF x = l.head THEN [l EXCEPT !.head = l.elements[x].prev] ELSE l
           b == unlinkElement(a, x)
           c == unlinkBucket(b, x)
<1>1. k = [c EXCEPT !.len = @ - 1]
  BY DEF evict
<1>2. l.elements[x].prev \in Pos
  BY DEF LRUs, Element
<1>3. /\ a \in LRUs /\ a.buckets = l.buckets /\ a.elements = l.elements
      /\ a.len = l.len /\ a.panic = l.panic
      /\ a.head = IF x = l.head THEN l.elements[x].prev ELSE l.head
  BY <1>2 DEF LRUs
<1> HIDE DEF a
<1>4. /\ b \in LRUs /\ SameStruct(a, b) /\ SameContents(a, b) /\ SameBuckets(a, b)
      /\ OutOfUse(a, b, x)
  BY ONLY x \in Pos, <1>3, UnlinkElementEffect
<1> HIDE DEF b
<1>5. /\ c \in LRUs /\ c.head = b.head /\ c.len = b.len /\ c.panic = b.panic
      /\ SameContents(b, c) /\ SameUse(b, c) /\ OutOfBucket(b, c, x)
  BY ONLY x \in Pos, <1>4, UnlinkBucketEffect
<1> HIDE DEF c
<1>6. /\ k \in LRUs /\ k.len = c.len - 1 /\ k.head = c.head /\ k.panic = c.panic
      /\ k.buckets = c.buckets /\ k.elements = c.elements
  BY <1>1, <1>5 DEF LRUs
<1>7. k.len = l.len - 1 /\ k.panic = l.panic /\ k.head = a.head /\ SameContents(l, k)
  BY ONLY <1>3, <1>4, <1>5, <1>6 DEF SameStruct, SameContents
<1>8. OutOfUse(l, k, x)
  BY ONLY <1>3, <1>4, <1>5, <1>6 DEF SameUse, OutOfUse
<1>9. OutOfBucket(l, k, x)
  BY ONLY x \in Pos, <1>3, <1>4, <1>5, <1>6 DEF SameStruct, SameBuckets, OutOfBucket
<1>10. QED
  BY ONLY <1>3, <1>6, <1>7, <1>8, <1>9

(***************************************************************************)
(* The rings of an LRU.                                                    *)
(***************************************************************************)

\* The fields of the links, each as a function of the place.
nextOf(l) == [p \in Pos |-> l.elements[p].next]
prevOf(l) == [p \in Pos |-> l.elements[p].prev]
nextBucketOf(l) == [p \in Pos |-> l.elements[p].nextBucket]
prevBucketOf(l) == [p \in Pos |-> l.elements[p].prevBucket]
bucketPosOf(l) == [p \in Pos |-> l.elements[p].bucketPos]
oneClass == [p \in Pos |-> 0]

\* The entries of S are on one ring in the order of use, and on one ring per bucket.
UseRing(l, S) == Ring(S, nextOf(l), prevOf(l), oneClass) /\ (S # {} => l.head \in S)
BucketRings(l, S) ==
  /\ Ring(S, nextBucketOf(l), prevBucketOf(l), bucketPosOf(l))
  /\ \A b \in Pos : l.buckets[b] = emptyBucket => \A p \in S : l.elements[p].bucketPos # b
  /\ \A b \in Pos : l.buckets[b] # emptyBucket =>
       l.buckets[b] \in S /\ l.elements[l.buckets[b]].bucketPos = b

\* The entries have keys of their own, and are in the bucket of their key.
Contents(l, S) ==
  /\ \A p \in S : l.elements[p].key \in Keys /\ l.elements[p].bucketPos = Bucket(l.elements[p].key)
  /\ \A p, q \in S : l.elements[p].key = l.elements[q].key => p = q

\* An entry leaves.
LEMMA EvictRings ==
  ASSUME NEW l \in LRUs, NEW S \in SUBSET Pos, NEW x \in S, NEW k, k = evict(l, x),
         UseRing(l, S), BucketRings(l, S), Contents(l, S)
  PROVE  /\ k \in LRUs /\ k.len = l.len - 1 /\ k.panic = l.panic /\ SameContents(l, k)
         /\ UseRing(k, S \ {x}) /\ BucketRings(k, S \ {x}) /\ Contents(k, S \ {x})
<1> DEFINE e == l.elements[x]
<1>1. /\ k \in LRUs /\ k.len = l.len - 1 /\ k.panic = l.panic
      /\ k.head = IF x = l.head THEN l.elements[x].prev ELSE l.head
      /\ SameContents(l, k) /\ OutOfUse(l, k, x) /\ OutOfBucket(l, k, x)
  BY ONLY l \in LRUs, S \in SUBSET Pos, x \in S, k = evict(l, x), EvictEffect
<1>2. UseRing(k, S \ {x})
  <2> DEFINE n == nextOf(l)
             q == prevOf(l)
  <2>1. Ring(S, n, q, oneClass)
    BY DEF UseRing
  <2>2. \A p \in S \ {x} : /\ nextOf(k)[p] = IF p = q[x] THEN n[x] ELSE n[p]
                           /\ prevOf(k)[p] = IF p = n[x] THEN q[x] ELSE q[p]
                           /\ oneClass[p] = oneClass[p]
    BY <1>1 DEF OutOfUse, nextOf, prevOf
  <2> HIDE DEF n, q
  <2>3. Ring(S \ {x}, nextOf(k), prevOf(k), oneClass)
    BY ONLY x \in S, <2>1, <2>2, UnlinkFromRing
  <2>4. S \ {x} # {} => k.head \in S \ {x}
    <3>1. q[x] = x => \A y \in S : oneClass[y] = oneClass[x] => y = x
      BY ONLY x \in S, <2>1, AloneInRing
    <3>2. \A y \in S : oneClass[y] = oneClass[x]
      BY DEF oneClass
    <3>3. q[x] \in S
      BY <2>1 DEF Ring
    <3>4. q[x] = l.elements[x].prev
      BY DEF q, prevOf
    <3>5. QED
      BY <1>1, <3>1, <3>2, <3>3, <3>4 DEF UseRing
  <2>5. QED
    BY <2>3, <2>4 DEF UseRing
<1>3. BucketRings(k, S \ {x})
  <2> DEFINE n == nextBucketOf(l)
             q == prevBucketOf(l)
             c == bucketPosOf(l)
  <2>1. Ring(S, n, q, c)
    BY DEF BucketRings
  <2>2. \A p \in S \ {x} : /\ nextBucketOf(k)[p] = IF p = q[x] THEN n[x] ELSE n[p]
                           /\ prevBucketOf(k)[p] = IF p = n[x] THEN q[x] ELSE q[p]
                           /\ bucketPosOf(k)[p] = c[p]
    BY <1>1 DEF OutOfBucket, nextBucketOf, prevBucketOf, bucketPosOf
  <2>3. \A p \in S : n[p] = l.elements[p].nextBucket /\ q[p] = l.elements[p].prevBucket /\ c[p] = l.elements[p].bucketPos
    BY DEF nextBucketOf, prevBucketOf, bucketPosOf
  <2> HIDE DEF n, q, c
  <2>4. Ring(S \ {x}, nextBucketOf(k), prevBucketOf(k), bucketPosOf(k))
    BY ONLY x \in S, <2>1, <2>2, UnlinkFromRing
  <2>5. q[x] = x \/ n[x] = x => q[x] = x /\ n[x] = x /\ \A y \in S : c[y] = c[x] => y = x
    BY ONLY x \in S, <2>1, AloneInRing
  <2>6. n[x] \in S /\ c[n[x]] = c[x]
    BY <2>1 DEF Ring
  <2>7. \A p \in Pos : k.elements[p].bucketPos = l.elements[p].bucketPos /\
           k.buckets[p] =
             IF p # e.bucketPos THEN l.buckets[p]
             ELSE IF e.prevBucket = x /\ e.nextBucket = x THEN emptyBucket ELSE e.nextBucket
    BY <1>1 DEF OutOfBucket
  <2>8. n[x] # emptyBucket
    BY <2>6 DEF Pos, emptyBucket
  <2>9. ASSUME NEW b \in Pos, k.buckets[b] = emptyBucket, NEW p \in S \ {x}
        PROVE  k.elements[p].bucketPos # b
    BY <2>3, <2>5, <2>6, <2>7, <2>8, <2>9 DEF BucketRings
  <2>10. ASSUME NEW b \in Pos, k.buckets[b] # emptyBucket
         PROVE  k.buckets[b] \in S \ {x} /\ k.elements[k.buckets[b]].bucketPos = b
    <3>1. CASE b = e.bucketPos
      BY <3>1, <2>3, <2>5, <2>6, <2>7, <2>10
    <3>2. CASE b # e.bucketPos
      <4>1. k.buckets[b] = l.buckets[b]
        BY <3>2, <2>7
      <4>2. k.buckets[b] \in S /\ l.elements[k.buckets[b]].bucketPos = b
        BY <4>1, <2>10 DEF BucketRings
      <4>3. QED
        BY <4>2, <3>2, <2>7
    <3>3. QED
      BY <3>1, <3>2
  <2>11. QED
    BY <2>4, <2>9, <2>10 DEF BucketRings
<1>4. Contents(k, S \ {x})
  BY <1>1 DEF SameContents, OutOfBucket, Contents
<1>5. QED
  BY <1>1, <1>2, <1>3, <1>4

\* What the rings and the contents depend on.
LEMMA SameRings ==
  ASSUME NEW l, NEW k, NEW S \in SUBSET Pos
  PROVE  /\ SameUse(l, k) /\ k.head = l.head /\ UseRing(l, S) => UseRing(k, S)
         /\ SameBuckets(l, k) /\ k.buckets = l.buckets /\ BucketRings(l, S) => BucketRings(k, S)
         /\ SameContents(l, k) /\ SameBuckets(l, k) /\ Contents(l, S) => Contents(k, S)
<1>1. SameUse(l, k) => nextOf(k) = nextOf(l) /\ prevOf(k) = prevOf(l)
  BY DEF SameUse, nextOf, prevOf
<1>2. SameBuckets(l, k) => /\ nextBucketOf(k) = nextBucketOf(l) /\ prevBucketOf(k) = prevBucketOf(l)
                           /\ bucketPosOf(k) = bucketPosOf(l)
  BY DEF SameBuckets, nextBucketOf, prevBucketOf, bucketPosOf
<1>3. SameUse(l, k) /\ k.head = l.head /\ UseRing(l, S) => UseRing(k, S)
  BY <1>1 DEF UseRing
<1>4. ASSUME SameBuckets(l, k), k.buckets = l.buckets, BucketRings(l, S)
      PROVE  BucketRings(k, S)
  <2>1. Ring(S, nextBucketOf(k), prevBucketOf(k), bucketPosOf(k))
    BY <1>2, <1>4 DEF BucketRings
  <2>2. QED
    BY <2>1, <1>4 DEF BucketRings, SameBuckets
<1>5. SameContents(l, k) /\ SameBuckets(l, k) /\ Contents(l, S) => Contents(k, S)
  BY DEF SameContents, SameBuckets, Contents
<1>6. QED
  BY <1>3, <1>4, <1>5

\* An entry that is not on the ring becomes the newest.
LEMMA LinkAtHead ==
  ASSUME NEW l \in LRUs, NEW S \in SUBSET Pos, NEW x \in Pos, x \notin S, S # {}, UseRing(l, S),
         NEW k, AtHead(l, k, x), k.head = x
  PROVE  UseRing(k, S \cup {x})
<1> DEFINE n == nextOf(l)
           q == prevOf(l)
           s == n[l.head]
<1>1. Ring(S, n, q, oneClass) /\ l.head \in S
  BY DEF UseRing
<1>2. s \in S /\ q[s] = l.head
  BY <1>1 DEF Ring
<1>3. s = l.elements[l.head].next
  BY <1>1 DEF nextOf
<1>4. nextOf(k)[x] = s /\ prevOf(k)[x] = q[s] /\ oneClass[x] = oneClass[s]
  BY <1>1, <1>2, <1>3 DEF AtHead, nextOf, prevOf, oneClass
<1>5. \A p \in S : /\ nextOf(k)[p] = IF p = q[s] THEN x ELSE n[p]
                   /\ prevOf(k)[p] = IF p = s THEN x ELSE q[p]
                   /\ oneClass[p] = oneClass[p]
  BY <1>1, <1>2, <1>3 DEF AtHead, nextOf, prevOf
<1> HIDE DEF n, q, s
<1>6. Ring(S \cup {x}, nextOf(k), prevOf(k), oneClass)
  BY ONLY x \notin S, <1>1, <1>2, <1>4, <1>5, LinkIntoRing
<1>7. QED
  BY <1>6 DEF UseRing

\* An entry is used.
LEMMA UseRings ==
  ASSUME NEW l \in LRUs, NEW S \in SUBSET Pos, NEW x \in S, NEW k, k = use(l, x),
         UseRing(l, S), BucketRings(l, S), Contents(l, S)
  PROVE  /\ k \in LRUs /\ k.len = l.len /\ k.panic = l.panic /\ SameContents(l, k)
         /\ UseRing(k, S) /\ BucketRings(k, S) /\ Contents(k, S)
<1>1. CASE x = l.head
  BY <1>1 DEF use, SameContents
<1>2. CASE x # l.head
  <2> DEFINE a == unlinkElement(l, x)
  <2>1. k = setHead(a, x)
    BY <1>2 DEF use
  <2>2. a \in LRUs /\ SameStruct(l, a) /\ SameContents(l, a) /\ SameBuckets(l, a) /\ OutOfUse(l, a, x)
    BY ONLY l \in LRUs, x \in S, S \in SUBSET Pos, UnlinkElementEffect
  <2> HIDE DEF a
  <2>3. a.head = l.head /\ l.head \in S \ {x}
    BY <1>2, <2>2 DEF SameStruct, UseRing
  <2>4. /\ k \in LRUs /\ k.head = x /\ k.len = a.len /\ k.panic = a.panic /\ k.buckets = a.buckets
        /\ SameContents(a, k) /\ SameBuckets(a, k) /\ AtHead(a, k, x)
    BY ONLY <2>1, <2>2, <2>3, x \in S, S \in SUBSET Pos, SetHeadEffect
  <2>5. UseRing(a, S \ {x})
    <3> DEFINE n == nextOf(l)
               q == prevOf(l)
    <3>1. Ring(S, n, q, oneClass)
      BY DEF UseRing
    <3>2. \A p \in S \ {x} : /\ nextOf(a)[p] = IF p = q[x] THEN n[x] ELSE n[p]
                             /\ prevOf(a)[p] = IF p = n[x] THEN q[x] ELSE q[p]
                             /\ oneClass[p] = oneClass[p]
      BY <2>2 DEF OutOfUse, nextOf, prevOf
    <3> HIDE DEF n, q
    <3>3. Ring(S \ {x}, nextOf(a), prevOf(a), oneClass)
      BY ONLY x \in S, <3>1, <3>2, UnlinkFromRing
    <3>4. QED
      BY <3>3, <2>3 DEF UseRing
  <2>6. S \ {x} \in SUBSET Pos /\ x \in Pos /\ x \notin S \ {x} /\ S \ {x} # {} /\ (S \ {x}) \cup {x} = S
    BY <2>3
  <2>7. UseRing(k, (S \ {x}) \cup {x})
    BY ONLY <2>2, <2>4, <2>5, <2>6, LinkAtHead
  <2>8. SameContents(l, k) /\ SameBuckets(l, k) /\ k.buckets = l.buckets /\ k.len = l.len /\ k.panic = l.panic
    BY <2>2, <2>4 DEF SameStruct, SameContents, SameBuckets
  <2>9. BucketRings(k, S) /\ Contents(k, S)
    BY <2>8, SameRings
  <2>10. QED
    BY <2>4, <2>6, <2>7, <2>8, <2>9
<1>3. QED
  BY <1>1, <1>2

----
(***************************************************************************)
(* move.                                                                   *)
(***************************************************************************)

\* In k, t has taken the part that f has in l.
Moved(l, k, t, f) ==
  LET e == l.elements[f] IN
  /\ k.head = IF f = l.head THEN t ELSE l.head
  /\ \A p \in Pos \ {t} :
       /\ k.elements[p].key = l.elements[p].key
       /\ k.elements[p].bucketPos = l.elements[p].bucketPos
       /\ k.elements[p].next = IF p = e.prev THEN t ELSE l.elements[p].next
       /\ k.elements[p].prev = IF p = e.next THEN t ELSE l.elements[p].prev
       /\ k.elements[p].nextBucket = IF p = e.prevBucket THEN t ELSE l.elements[p].nextBucket
       /\ k.elements[p].prevBucket = IF p = e.nextBucket THEN t ELSE l.elements[p].prevBucket
       /\ k.elements[p].value = l.elements[p].value
       /\ k.elements[p].expire = l.elements[p].expire
  /\ k.elements[t].key = e.key /\ k.elements[t].bucketPos = e.bucketPos
  /\ k.elements[t].value = e.value /\ k.elements[t].expire = e.expire
  /\ k.elements[t].next = IF e.prev = f THEN t ELSE e.next
  /\ k.elements[t].prev = IF e.next = f THEN t ELSE e.prev
  /\ k.elements[t].nextBucket = IF e.prevBucket = f THEN t ELSE e.nextBucket
  /\ k.elements[t].prevBucket = IF e.nextBucket = f THEN t ELSE e.prevBucket
  /\ \A b \in Pos :
       k.buckets[b] = IF b = e.bucketPos /\ l.buckets[b] = f THEN t ELSE l.buckets[b]

\* move: the element at f is copied to t, and its neighbours and the bucket follow.
LEMMA MoveEffect ==
  ASSUME NEW l \in LRUs, NEW t \in Pos, NEW f \in Pos, t # f, NEW k, k = move(l, t, f)
  PROVE  k \in LRUs /\ k.len = l.len /\ k.panic = l.panic /\ Moved(l, k, t, f)
<1> DEFINE e == l.elements[f]
           h == IF f = l.head THEN t ELSE l.head
           a1 == WithNext(l, e.prev, t)
           a == [l EXCEPT !.elements[e.prev].next = t, !.head = IF f = l.head THEN t ELSE @]
           b == WithPrev(a, e.next, t)
           c == WithNextBucket(b, e.prevBucket, t)
           d == WithPrevBucket(c, e.nextBucket, t)
           g == With(d, t, d.elements[f])
<1>1. e.next \in Pos /\ e.prev \in Pos /\ e.nextBucket \in Pos /\ e.prevBucket \in Pos /\ e.bucketPos \in Pos /\ h \in Pos
  BY DEF LRUs, Element
<1>2. a = [a1 EXCEPT !.head = h]
  BY DEF WithNext
<1>3. k = IF g.buckets[g.elements[t].bucketPos] = f
          THEN [g EXCEPT !.buckets[g.elements[t].bucketPos] = t] ELSE g
  BY DEF move, WithPrev, WithNextBucket, WithPrevBucket, With
<1> HIDE DEF a, e, h
<1>4. /\ a1 \in LRUs /\ SameStruct(l, a1) /\ SameContents(l, a1) /\ SameBuckets(l, a1)
      /\ NextSet(l, a1, e.prev, t)
  BY ONLY l \in LRUs, t \in Pos, <1>1, SetNext
<1> HIDE DEF a1
<1>5. /\ a \in LRUs /\ a.buckets = a1.buckets /\ a.elements = a1.elements
      /\ a.len = a1.len /\ a.panic = a1.panic /\ a.head = h
  BY <1>1, <1>2, <1>4 DEF LRUs
<1>6. /\ b \in LRUs /\ SameStruct(a, b) /\ SameContents(a, b) /\ SameBuckets(a, b)
      /\ PrevSet(a, b, e.next, t)
  BY ONLY t \in Pos, <1>1, <1>5, SetPrev
<1> HIDE DEF b
<1>7. /\ c \in LRUs /\ SameStruct(b, c) /\ SameContents(b, c) /\ SameUse(b, c)
      /\ NextBucketSet(b, c, e.prevBucket, t)
  BY ONLY t \in Pos, <1>1, <1>6, SetNextBucket
<1> HIDE DEF c
<1>8. /\ d \in LRUs /\ SameStruct(c, d) /\ SameContents(c, d) /\ SameUse(c, d)
      /\ PrevBucketSet(c, d, e.nextBucket, t)
  BY ONLY t \in Pos, <1>1, <1>7, SetPrevBucket
<1> HIDE DEF d
<1>9. d.elements[f] \in Element
  BY <1>8 DEF LRUs
<1>10. /\ g \in LRUs /\ SameStruct(d, g)
       /\ \A p \in Pos : g.elements[p] = IF p = t THEN d.elements[f] ELSE d.elements[p]
  BY ONLY t \in Pos, <1>8, <1>9, SetElement
<1> HIDE DEF g
<1>11. g.elements[t].bucketPos = e.bucketPos
  BY <1>4, <1>5, <1>6, <1>7, <1>8, <1>10 DEF SameBuckets, NextBucketSet, PrevBucketSet, e
<1>12. /\ k \in LRUs /\ k.head = g.head /\ k.len = g.len /\ k.panic = g.panic /\ k.elements = g.elements
       /\ \A p \in Pos : k.buckets[p] = IF p = e.bucketPos /\ g.buckets[p] = f THEN t ELSE g.buckets[p]
  BY <1>1, <1>3, <1>10, <1>11 DEF LRUs
<1>13. /\ k.head = h /\ k.len = l.len /\ k.panic = l.panic
       /\ \A p \in Pos : k.buckets[p] = IF p = e.bucketPos /\ l.buckets[p] = f THEN t ELSE l.buckets[p]
  BY ONLY <1>4, <1>5, <1>6, <1>7, <1>8, <1>10, <1>12 DEF SameStruct
<1>14. /\ SameContents(l, d)
       /\ \A p \in Pos : d.elements[p].bucketPos = l.elements[p].bucketPos
  BY ONLY <1>4, <1>5, <1>6, <1>7, <1>8 DEF SameContents, SameBuckets, NextBucketSet, PrevBucketSet
<1>15. \A p \in Pos :
         /\ d.elements[p].next = IF p = e.prev THEN t ELSE l.elements[p].next
         /\ d.elements[p].prev = IF p = e.next THEN t ELSE l.elements[p].prev
  BY ONLY <1>4, <1>5, <1>6, <1>7, <1>8 DEF NextSet, PrevSet, SameUse
<1>16. \A p \in Pos :
         /\ d.elements[p].nextBucket = IF p = e.prevBucket THEN t ELSE l.elements[p].nextBucket
         /\ d.elements[p].prevBucket = IF p = e.nextBucket THEN t ELSE l.elements[p].prevBucket
  BY ONLY <1>4, <1>5, <1>6, <1>7, <1>8 DEF NextBucketSet, PrevBucketSet, SameBuckets
<1>17. Moved(l, k, t, f)
  BY ONLY t \in Pos, f \in Pos, t # f, <1>10, <1>12, <1>13, <1>14, <1>15, <1>16 DEF Moved, SameContents, e, h
<1>18. QED
  BY <1>12, <1>13, <1>17

\* An entry moves.
LEMMA MoveRings ==
  ASSUME NEW l \in LRUs, NEW S \in SUBSET Pos, NEW f \in S, NEW t \in Pos, t \notin S,
         NEW k, k = move(l, t, f),
         UseRing(l, S), BucketRings(l, S), Contents(l, S)
  PROVE  LET M == (S \ {f}) \cup {t} IN
         /\ k \in LRUs /\ k.len = l.len /\ k.panic = l.panic
         /\ UseRing(k, M) /\ BucketRings(k, M) /\ Contents(k, M)
<1> DEFINE M == (S \ {f}) \cup {t}
<1>1. k \in LRUs /\ k.len = l.len /\ k.panic = l.panic /\ Moved(l, k, t, f)
  <2>1. f \in Pos /\ t # f
    OBVIOUS
  <2>2. QED
    BY ONLY <2>1, l \in LRUs, t \in Pos, k = move(l, t, f), MoveEffect
<1>2. UseRing(k, M)
  <2> DEFINE n == nextOf(l)
             q == prevOf(l)
  <2>1. Ring(S, n, q, oneClass)
    BY DEF UseRing
  <2>2. n[f] = f <=> q[f] = f
    BY <2>1 DEF Ring
  <2>3. /\ nextOf(k)[t] = IF n[f] = f THEN t ELSE n[f]
        /\ prevOf(k)[t] = IF q[f] = f THEN t ELSE q[f]
        /\ oneClass[t] = oneClass[f]
    BY <1>1, <2>2 DEF Moved, nextOf, prevOf, oneClass
  <2>4. \A p \in S \ {f} : /\ nextOf(k)[p] = IF p = q[f] THEN t ELSE n[p]
                           /\ prevOf(k)[p] = IF p = n[f] THEN t ELSE q[p]
                           /\ oneClass[p] = oneClass[p]
    BY <1>1 DEF Moved, nextOf, prevOf
  <2> HIDE DEF n, q
  <2>5. Ring(M, nextOf(k), prevOf(k), oneClass)
    BY ONLY f \in S, t \notin S, <2>1, <2>3, <2>4, MoveInRing
  <2>6. k.head \in M
    BY <1>1 DEF Moved, UseRing
  <2>7. QED
    BY <2>5, <2>6 DEF UseRing
<1>3. BucketRings(k, M)
  <2> DEFINE n == nextBucketOf(l)
             q == prevBucketOf(l)
             c == bucketPosOf(l)
  <2>1. Ring(S, n, q, c)
    BY DEF BucketRings
  <2>2. n[f] = f <=> q[f] = f
    BY <2>1 DEF Ring
  <2>3. /\ nextBucketOf(k)[t] = IF n[f] = f THEN t ELSE n[f]
        /\ prevBucketOf(k)[t] = IF q[f] = f THEN t ELSE q[f]
        /\ bucketPosOf(k)[t] = c[f]
    BY <1>1, <2>2 DEF Moved, nextBucketOf, prevBucketOf, bucketPosOf
  <2>4. \A p \in S \ {f} : /\ nextBucketOf(k)[p] = IF p = q[f] THEN t ELSE n[p]
                           /\ prevBucketOf(k)[p] = IF p = n[f] THEN t ELSE q[p]
                           /\ bucketPosOf(k)[p] = c[p]
    BY <1>1 DEF Moved, nextBucketOf, prevBucketOf, bucketPosOf
  <2> HIDE DEF n, q, c
  <2>5. Ring(M, nextBucketOf(k), prevBucketOf(k), bucketPosOf(k))
    BY ONLY f \in S, t \notin S, <2>1, <2>3, <2>4, MoveInRing, SMTT(30)
  <2>6. t # emptyBucket
    BY DEF Pos, emptyBucket
  <2>7. ASSUME NEW b \in Pos, k.buckets[b] = emptyBucket, NEW p \in M
        PROVE  k.elements[p].bucketPos # b
    BY <1>1, <2>6, <2>7 DEF Moved, BucketRings
  <2>8. ASSUME NEW b \in Pos, k.buckets[b] # emptyBucket
        PROVE  k.buckets[b] \in M /\ k.elements[k.buckets[b]].bucketPos = b
    <3>1. \/ k.buckets[b] = t /\ b = l.elements[f].bucketPos
          \/ k.buckets[b] = l.buckets[b] /\ ~(b = l.elements[f].bucketPos /\ l.buckets[b] = f)
      BY <1>1 DEF Moved
    <3>2. CASE k.buckets[b] = t /\ b = l.elements[f].bucketPos
      BY <1>1, <3>2 DEF Moved
    <3>3. CASE k.buckets[b] = l.buckets[b] /\ ~(b = l.elements[f].bucketPos /\ l.buckets[b] = f)
      <4>1. l.buckets[b] \in S /\ l.elements[l.buckets[b]].bucketPos = b
        BY <2>8, <3>3 DEF BucketRings
      <4>2. l.buckets[b] \in S \ {f}
        BY <4>1, <3>3
      <4>3. QED
        BY <1>1, <3>3, <4>1, <4>2 DEF Moved
    <3>4. QED
      BY <3>1, <3>2, <3>3
  <2>9. QED
    BY <2>5, <2>7, <2>8 DEF BucketRings
<1>4. Contents(k, M)
  <2> DEFINE old(p) == IF p = t THEN f ELSE p
  <2>1. \A p \in M : /\ old(p) \in S /\ k.elements[p].key = l.elements[old(p)].key
                     /\ k.elements[p].bucketPos = l.elements[old(p)].bucketPos
    BY <1>1 DEF Moved
  <2>2. \A p, q \in M : old(p) = old(q) => p = q
    OBVIOUS
  <2> HIDE DEF old, M
  <2>3. QED
    BY <2>1, <2>2 DEF Contents
<1>5. QED
  BY <1>1, <1>2, <1>3, <1>4

(***************************************************************************)
(* Walks along a ring.                                                     *)
(***************************************************************************)

\* A set of natural numbers has a smallest element: what the inductions below look at is
\* the smallest number of which a claim does not hold.
LEMMA Smallest ==
  ASSUME NEW T, T \subseteq Nat, T # {}
  PROVE  \E d \in T : \A e \in T : d <= e
<1>1. PICK d \in T : \A e \in T : ~(<<e, d>> \in OpToRel(<, Nat))
  BY NatLessThanWellFounded, WFMin
<1>2. \A e \in T : ~(e < d)
  BY <1>1, Zenon DEF OpToRel
<1>3. d \in Nat /\ \A e \in T : e \in Nat /\ ~(e < d)
  BY <1>2
<1>4. \A e \in T : d <= e
  BY <1>3
<1>5. QED
  BY <1>4

\* w goes m steps of n from x; i steps do not come back to x.
Walk(n, x, m, w) == w[0] = x /\ \A i \in 1..m : w[i] = n[w[i - 1]]
Fresh(x, w, i) == \A j \in 1..i : w[j] # x

\* search's walk, a recursive function, makes its steps: by the smallest i at which it would not.
LEMMA WalkExists ==
  ASSUME NEW P, NEW x \in P, NEW n \in [P -> P], NEW m \in Nat
  PROVE  \E w \in [0..m -> P] : Walk(n, x, m, w)
<1> DEFINE bad == {k \in Nat : ~ \E w \in [0..k -> P] : Walk(n, x, k, w)}
<1> SUFFICES ASSUME bad # {} PROVE FALSE
  OBVIOUS
<1>1. PICK d \in bad : \A e \in bad : d <= e
  BY Smallest
<1>2. CASE d = 0
  <2>1. [i \in 0..0 |-> x] \in [0..0 -> P] /\ Walk(n, x, 0, [i \in 0..0 |-> x])
    BY DEF Walk
  <2>2. QED
    BY <1>1, <1>2, <2>1
<1>3. CASE d # 0
  <2>1. d - 1 \in Nat /\ d - 1 \notin bad
    BY <1>1, <1>3
  <2>2. PICK w \in [0..(d - 1) -> P] : Walk(n, x, d - 1, w)
    BY <2>1
  <2> DEFINE v == [i \in 0..d |-> IF i = d THEN n[w[d - 1]] ELSE w[i]]
  <2>3. v \in [0..d -> P]
    BY <1>1, <2>1
  <2>4. v[0] = x /\ \A i \in 1..d : v[i] = n[v[i - 1]]
    BY <1>1, <1>3, <2>1, <2>2 DEF Walk
  <2>5. QED
    BY <1>1, <2>3, <2>4 DEF Walk
<1>4. QED
  BY <1>2, <1>3

\* A walk stays in its ring.
LEMMA WalkInRing ==
  ASSUME NEW S, NEW n, NEW q, NEW c, Ring(S, n, q, c), NEW x \in S,
         NEW m \in Nat, NEW w, Walk(n, x, m, w)
  PROVE  \A i \in 0..m : w[i] \in S /\ c[w[i]] = c[x]
<1> DEFINE bad == {k \in Nat : k <= m /\ ~(w[k] \in S /\ c[w[k]] = c[x])}
<1> SUFFICES ASSUME bad # {} PROVE FALSE
  OBVIOUS
<1>1. PICK d \in bad : \A e \in bad : d <= e
  BY Smallest
<1>2. d # 0
  BY <1>1 DEF Walk
<1>3. d - 1 \in Nat /\ d - 1 \notin bad
  BY <1>1, <1>2
<1>4. w[d - 1] \in S /\ c[w[d - 1]] = c[x] /\ w[d] = n[w[d - 1]]
  BY <1>1, <1>2, <1>3 DEF Walk
<1>5. QED
  BY <1>1, <1>4 DEF Ring

\* Before it comes back, a walk meets no place twice.
LEMMA WalkDistinct ==
  ASSUME NEW S, NEW n, NEW q, NEW c, Ring(S, n, q, c), NEW x \in S,
         NEW m \in Nat, NEW w, Walk(n, x, m, w), NEW k \in 0..m, Fresh(x, w, k)
  PROVE  \A a, b \in 0..k : a < b => w[a] # w[b]
<1> DEFINE bad == {a \in Nat : a <= k /\ \E b \in 0..k : a < b /\ w[a] = w[b]}
<1> SUFFICES ASSUME bad # {} PROVE FALSE
  OBVIOUS
<1>1. PICK d \in bad : \A e \in bad : d <= e
  BY Smallest
<1>2. PICK b \in 0..k : d < b /\ w[d] = w[b]
  BY <1>1
<1>3. d # 0
  BY <1>1, <1>2 DEF Walk, Fresh
<1>4. \A i \in 1..m : w[i - 1] \in S /\ w[i] = n[w[i - 1]]
  BY WalkInRing DEF Walk
<1>5. \A i \in 1..m : q[w[i]] = w[i - 1]
  BY <1>4 DEF Ring
<1>6. d \in 1..m /\ b \in 1..m
  BY <1>1, <1>2, <1>3
<1>7. w[d - 1] = w[b - 1]
  BY <1>2, <1>5, <1>6
<1>8. d - 1 \in bad
  BY <1>1, <1>2, <1>3, <1>7
<1>9. QED
  BY <1>1, <1>8

\* A walk meets every place of its ring before it comes back.
LEMMA WalkComplete ==
  ASSUME NEW S, IsFiniteSet(S), NEW n, NEW q, NEW c, Ring(S, n, q, c), NEW x \in S,
         NEW m \in Nat, Cardinality(S) <= m, NEW w, Walk(n, x, m, w),
         NEW y \in S, c[y] = c[x]
  PROVE  \E i \in 0..(Cardinality(S) - 1) : w[i] = y /\ Fresh(x, w, i)
<1> DEFINE N == Cardinality(S)
           T == {w[i] : i \in {j \in 0..(N - 1) : Fresh(x, w, j)}}
<1>1. N \in Nat /\ N # 0
  BY FS_CardinalityType, FS_EmptySet
<1>2. \A i \in 0..m : w[i] \in S
  BY WalkInRing
<1>3. x \in T
  BY <1>1 DEF Walk, Fresh
<1>4. ASSUME NEW i \in 0..(N - 1), Fresh(x, w, i) PROVE n[w[i]] \in T
  <2>1. i + 1 \in 1..m /\ w[i + 1] = n[w[i]]
    BY <1>1 DEF Walk
  <2>2. CASE w[i + 1] = x
    BY <1>3, <2>1, <2>2
  <2>3. CASE w[i + 1] # x
    <3>1. Fresh(x, w, i + 1)
      BY <1>4, <2>3 DEF Fresh
    <3>2. i + 1 # N
      <4> SUFFICES ASSUME i + 1 = N PROVE FALSE
        OBVIOUS
      <4> DEFINE v == [j \in 0..N |-> w[j]]
      <4>1. v \in [0..N -> S]
        BY <1>1, <1>2
      <4>2. IsFiniteSet(0..N) /\ Cardinality(0..N) = N + 1
        BY <1>1, FS_Interval
      <4> HIDE DEF v, N
      <4>3. \E a, b \in 0..N : a # b /\ v[a] = v[b]
        BY <1>1, <4>1, <4>2, FS_PigeonHole DEF N
      <4>4. PICK a \in 0..N, b \in 0..N : a < b /\ v[a] = v[b]
        BY <1>1, <4>3
      <4>5. \A a1, b1 \in 0..N : a1 < b1 => w[a1] # w[b1]
        BY <1>1, <3>1, WalkDistinct DEF N
      <4>6. QED
        BY <4>4, <4>5 DEF v
    <3>3. QED
      BY <1>1, <2>1, <3>1, <3>2
  <2>4. QED
    BY <2>2, <2>3
<1>5. T \in SUBSET S /\ \A z \in T : n[z] \in T
  BY <1>1, <1>2, <1>4
<1> HIDE DEF T
<1>6. y \in T
  BY <1>3, <1>5 DEF Ring
<1>7. QED
  BY <1>6 DEF T

\* Min of some natural numbers is the smallest one.
LEMMA MinOfSet ==
  ASSUME NEW T, T \subseteq Nat, T # {}
  PROVE  Min(T) \in T
<1>1. \E d \in T : \A e \in T : d <= e
  BY Smallest
<1>2. QED
  BY <1>1 DEF Min

\* The walk of search is one along the links of a bucket.
LEMMA SearchWalks ==
  ASSUME NEW l \in LRUs, NEW start \in Pos,
         NEW walk, walk = CHOOSE w : w = [i \in 0..Size |-> IF i = 0 THEN start ELSE l.elements[w[i - 1]].nextBucket]
  PROVE  Walk(nextBucketOf(l), start, Size, walk)
<1> DEFINE n == nextBucketOf(l)
<1>1. n \in [Pos -> Pos] /\ \A p \in Pos : n[p] = l.elements[p].nextBucket
  BY DEF LRUs, Element, nextBucketOf
<1>2. Size \in Nat
  BY FreeLRUAssumption
<1> HIDE DEF n
<1>3. PICK w \in [0..Size -> Pos] : Walk(n, start, Size, w)
  BY <1>1, <1>2, WalkExists
<1>4. \A i \in 0..Size : w[i] = IF i = 0 THEN start ELSE l.elements[w[i - 1]].nextBucket
  BY <1>1, <1>2, <1>3 DEF Walk
<1>5. w = [i \in 0..Size |-> w[i]]
  BY <1>3
<1>6. w = [i \in 0..Size |-> IF i = 0 THEN start ELSE l.elements[w[i - 1]].nextBucket]
  BY <1>4, <1>5
<1>7. walk = [i \in 0..Size |-> IF i = 0 THEN start ELSE l.elements[walk[i - 1]].nextBucket]
  BY <1>6
<1>8. \A i \in 0..Size : walk[i] = IF i = 0 THEN start ELSE l.elements[walk[i - 1]].nextBucket
  BY <1>7
<1> DEFINE bad == {i \in Nat : i <= Size /\ walk[i] \notin Pos}
<1>9. bad = {}
  <2> SUFFICES ASSUME bad # {} PROVE FALSE
    OBVIOUS
  <2>1. PICK d \in bad : \A e \in bad : d <= e
    BY Smallest
  <2>2. d # 0
    BY <1>2, <1>8, <2>1
  <2>3. d - 1 \in Nat /\ d - 1 \notin bad
    BY <2>1, <2>2
  <2>4. walk[d - 1] \in Pos /\ walk[d] = l.elements[walk[d - 1]].nextBucket
    <3>1. d \in 0..Size /\ d - 1 <= Size
      BY <1>2, <2>1
    <3>2. walk[d] = l.elements[walk[d - 1]].nextBucket
      BY ONLY <1>8, <2>2, <3>1
    <3>3. QED
      BY ONLY <2>3, <3>1, <3>2
  <2>5. QED
    BY <1>1, <2>1, <2>4
<1>10. \A i \in 0..Size : walk[i] \in Pos
  BY <1>2, <1>9
<1>11. walk[0] = start /\ \A i \in 1..Size : walk[i] = l.elements[walk[i - 1]].nextBucket
  BY ONLY <1>2, <1>8
<1>12. \A i \in 1..Size : walk[i - 1] \in Pos
  BY ONLY <1>2, <1>10
<1>13. \A i \in 1..Size : walk[i] = n[walk[i - 1]]
  BY ONLY <1>1, <1>11, <1>12
<1>14. QED
  BY <1>11, <1>13 DEF Walk, n

\* Places are few.
LEMMA Places ==
  ASSUME NEW S \in SUBSET Pos
  PROVE  IsFiniteSet(S) /\ Cardinality(S) \in Nat /\ Cardinality(S) <= Size
<1>1. Size \in Nat
  BY FreeLRUAssumption
<1>2. IsFiniteSet(Pos) /\ Cardinality(Pos) = Size
  BY <1>1, FS_Interval DEF Pos
<1>3. QED
  BY <1>2, FS_Subset, FS_CardinalityType

\* search finds the entry of a key if and only if there is one.
LEMMA SearchFinds ==
  ASSUME NEW l \in LRUs, NEW S \in SUBSET Pos, BucketRings(l, S), Contents(l, S), NEW key \in Keys
  PROVE  /\ (\A p \in S : l.elements[p].key # key) => search(l, key) = emptyBucket
         /\ \A p \in S : l.elements[p].key = key => search(l, key) = p
<1> DEFINE start == l.buckets[Bucket(key)]
           walk == CHOOSE w : w = [i \in 0..Size |-> IF i = 0 THEN start ELSE l.elements[w[i - 1]].nextBucket]
           hits == {i \in 0..(Size - 1) : Fresh(start, walk, i) /\ l.elements[walk[i]].key = key}
<1>1. search(l, key) = IF start = emptyBucket \/ hits = {} THEN emptyBucket ELSE walk[Min(hits)]
  BY DEF search, Fresh
<1>2. Bucket(key) \in Pos /\ Size \in Nat
  BY FreeLRUAssumption DEF Pos
<1> HIDE DEF start, walk, hits
<1>3. CASE start = emptyBucket
  <2>1. \A p \in S : l.elements[p].key # key
    BY <1>2, <1>3 DEF BucketRings, Contents, start
  <2>2. QED
    BY <1>1, <1>3, <2>1
<1>4. CASE start # emptyBucket
  <2> DEFINE n == nextBucketOf(l)
             q == prevBucketOf(l)
             c == bucketPosOf(l)
  <2>1. start \in S /\ l.elements[start].bucketPos = Bucket(key)
    BY <1>2, <1>4 DEF BucketRings, start
  <2>2. Walk(n, start, Size, walk)
    BY <2>1, SearchWalks DEF walk
  <2>3. Ring(S, n, q, c)
    BY DEF BucketRings
  <2>4. \A p \in S : c[p] = l.elements[p].bucketPos
    BY DEF bucketPosOf
  <2> HIDE DEF n, q, c
  <2>5. \A i \in 0..Size : walk[i] \in S
    BY <1>2, <2>1, <2>2, <2>3, WalkInRing
  <2>6. ASSUME NEW p \in S, l.elements[p].key = key PROVE \E i \in hits : walk[i] = p
    <3>1. c[p] = c[start]
      BY <2>1, <2>4, <2>6 DEF Contents
    <3>2. IsFiniteSet(S) /\ Cardinality(S) \in Nat /\ Cardinality(S) <= Size
      BY Places
    <3>3. PICK i \in 0..(Cardinality(S) - 1) : walk[i] = p /\ Fresh(start, walk, i)
      BY <1>2, <2>1, <2>2, <2>3, <3>1, <3>2, WalkComplete
    <3>4. i \in 0..(Size - 1)
      BY <1>2, <3>2
    <3>5. QED
      BY <2>6, <3>3, <3>4 DEF hits
  <2>7. hits # {} => walk[Min(hits)] \in S /\ l.elements[walk[Min(hits)]].key = key
    <3>1. hits \subseteq Nat
      BY DEF hits
    <3>2. hits # {} => Min(hits) \in hits
      BY <3>1, MinOfSet
    <3>3. \A i \in hits : i \in 0..Size /\ l.elements[walk[i]].key = key
      BY <1>2 DEF hits
    <3>4. QED
      BY <2>5, <3>2, <3>3
  <2>8. (\A p \in S : l.elements[p].key # key) => hits = {}
    BY <2>7
  <2>9. ASSUME NEW p \in S, l.elements[p].key = key PROVE search(l, key) = p
    <3>1. hits # {}
      BY <2>6, <2>9
    <3>2. search(l, key) \in S /\ l.elements[search(l, key)].key = key
      BY <1>1, <1>4, <2>7, <3>1
    <3>3. QED
      BY <2>9, <3>2 DEF Contents
  <2>10. QED
    BY <1>1, <2>8, <2>9
<1>5. QED
  BY <1>3, <1>4

\* k has new contents at x.
Written(l, k, x, key, value, expiry) ==
  \A p \in Pos : /\ k.elements[p].key = IF p = x THEN key ELSE l.elements[p].key
                 /\ k.elements[p].value = IF p = x THEN value ELSE l.elements[p].value
                 /\ k.elements[p].expire = IF p = x THEN expiry ELSE l.elements[p].expire

\* An assignment of a whole entry changes the contents at x only.
LEMMA SetKeyValueExpire ==
  ASSUME NEW l \in LRUs, NEW x \in Pos, NEW key \in Keys, NEW value \in Values, NEW expiry \in Nat,
         NEW k, k = [l EXCEPT !.elements[x] = [@ EXCEPT !.key = key, !.value = value, !.expire = expiry]]
  PROVE  /\ k \in LRUs /\ SameStruct(l, k) /\ SameUse(l, k) /\ SameBuckets(l, k)
         /\ Written(l, k, x, key, value, expiry)
<1> DEFINE e == [l.elements[x] EXCEPT !.key = key, !.value = value, !.expire = expiry]
<1>1. k = With(l, x, e)
  BY DEF With
<1>2. l.elements[x] \in Element
  BY DEF LRUs
<1>3. e \in Element
  BY <1>2 DEF Element
<1> HIDE DEF e
<1>4. k \in LRUs /\ SameStruct(l, k) /\ \A p \in Pos : k.elements[p] = IF p = x THEN e ELSE l.elements[p]
  BY ONLY <1>1, <1>3, l \in LRUs, x \in Pos, SetElement
<1>5. /\ e.key = key /\ e.value = value /\ e.expire = expiry
      /\ e.next = l.elements[x].next /\ e.prev = l.elements[x].prev
      /\ e.nextBucket = l.elements[x].nextBucket /\ e.prevBucket = l.elements[x].prevBucket
      /\ e.bucketPos = l.elements[x].bucketPos
  BY <1>2 DEF e, Element
<1>6. QED
  BY ONLY <1>4, <1>5 DEF Written, SameUse, SameBuckets

\* An assignment of a value and a lifetime keeps the key.
LEMMA SetValueExpire ==
  ASSUME NEW l \in LRUs, NEW x \in Pos, NEW value \in Values, NEW expiry \in Nat,
         NEW k, k = [l EXCEPT !.elements[x] = [@ EXCEPT !.value = value, !.expire = expiry]]
  PROVE  /\ k \in LRUs /\ SameStruct(l, k) /\ SameUse(l, k) /\ SameBuckets(l, k)
         /\ Written(l, k, x, l.elements[x].key, value, expiry)
<1> DEFINE e == [l.elements[x] EXCEPT !.value = value, !.expire = expiry]
<1>1. k = With(l, x, e)
  BY DEF With
<1>2. l.elements[x] \in Element
  BY DEF LRUs
<1>3. e \in Element
  BY <1>2 DEF Element
<1> HIDE DEF e
<1>4. k \in LRUs /\ SameStruct(l, k) /\ \A p \in Pos : k.elements[p] = IF p = x THEN e ELSE l.elements[p]
  BY ONLY <1>1, <1>3, l \in LRUs, x \in Pos, SetElement
<1>5. /\ e.key = l.elements[x].key /\ e.value = value /\ e.expire = expiry
      /\ e.next = l.elements[x].next /\ e.prev = l.elements[x].prev
      /\ e.nextBucket = l.elements[x].nextBucket /\ e.prevBucket = l.elements[x].prevBucket
      /\ e.bucketPos = l.elements[x].bucketPos
  BY <1>2 DEF e, Element
<1>6. QED
  BY ONLY <1>4, <1>5 DEF Written, SameUse, SameBuckets

\* removeAt clears the key and the value of the element it has moved away.
LEMMA ClearKeyValue ==
  ASSUME NEW l \in LRUs, NEW x \in Pos,
         NEW k, k = [l EXCEPT !.elements[x] = [@ EXCEPT !.key = NoKey, !.value = NoValue]]
  PROVE  /\ k \in LRUs /\ SameStruct(l, k) /\ SameUse(l, k) /\ SameBuckets(l, k)
         /\ Written(l, k, x, NoKey, NoValue, l.elements[x].expire)
<1> DEFINE e == [l.elements[x] EXCEPT !.key = NoKey, !.value = NoValue]
<1>1. k = With(l, x, e)
  BY DEF With
<1>2. l.elements[x] \in Element
  BY DEF LRUs
<1>3. e \in Element
  BY <1>2 DEF Element
<1> HIDE DEF e
<1>4. k \in LRUs /\ SameStruct(l, k) /\ \A p \in Pos : k.elements[p] = IF p = x THEN e ELSE l.elements[p]
  BY ONLY <1>1, <1>3, l \in LRUs, x \in Pos, SetElement
<1>5. /\ e.key = NoKey /\ e.value = NoValue /\ e.expire = l.elements[x].expire
      /\ e.next = l.elements[x].next /\ e.prev = l.elements[x].prev
      /\ e.nextBucket = l.elements[x].nextBucket /\ e.prevBucket = l.elements[x].prevBucket
      /\ e.bucketPos = l.elements[x].bucketPos
  BY <1>2 DEF e, Element
<1>6. QED
  BY ONLY <1>4, <1>5 DEF Written, SameUse, SameBuckets

\* removeAt: an entry leaves, and the last one takes its place.
LEMMA RemoveRings ==
  ASSUME NEW l \in LRUs, l.len \in 1..Cap, NEW x \in 0..(l.len - 1), NEW k, k = removeAt(l, x),
         UseRing(l, 0..(l.len - 1)), BucketRings(l, 0..(l.len - 1)), Contents(l, 0..(l.len - 1))
  PROVE  /\ k \in LRUs /\ k.len = l.len - 1 /\ k.panic = l.panic
         /\ UseRing(k, 0..(k.len - 1)) /\ BucketRings(k, 0..(k.len - 1)) /\ Contents(k, 0..(k.len - 1))
<1> DEFINE S == 0..(l.len - 1)
           M == 0..(l.len - 2)
           a == evict(l, x)
           b == move(a, x, a.len)
<1>1. k = [b EXCEPT !.elements[b.len] = [@ EXCEPT !.key = NoKey, !.value = NoValue]]
  BY DEF removeAt
<1>2. l.len \in Nat /\ S \in SUBSET Pos /\ l.len - 1 \in Pos /\ x \in S /\ x \in Pos /\ M \in SUBSET Pos
  BY FreeLRUAssumption DEF Pos
<1>removed. a = evict(l, x) /\ b = move(a, x, a.len)
  OBVIOUS
<1>rings. UseRing(l, S) /\ BucketRings(l, S) /\ Contents(l, S)
  OBVIOUS
<1> HIDE DEF a, b, S, M
<1>3. /\ a \in LRUs /\ a.len = l.len - 1 /\ a.panic = l.panic
      /\ UseRing(a, S \ {x}) /\ BucketRings(a, S \ {x}) /\ Contents(a, S \ {x})
  BY ONLY l \in LRUs, <1>2, <1>removed, <1>rings, EvictRings
<1>4. /\ b \in LRUs /\ b.len = l.len - 1 /\ b.panic = l.panic
      /\ UseRing(b, M) /\ BucketRings(b, M) /\ Contents(b, M)
  <2>1. CASE x = a.len
    <3>1. S \ {x} = M
      BY <1>2, <1>3, <2>1 DEF S, M
    <3>2. b = a
      BY <2>1 DEF move, b
    <3>3. QED
      BY <1>3, <3>1, <3>2
  <2>2. CASE x # a.len
    <3>1. a.len \in S \ {x} /\ x \notin S \ {x} /\ S \ {x} \in SUBSET Pos
      BY <1>2, <1>3, <2>2 DEF S
    <3>2. ((S \ {x}) \ {a.len}) \cup {x} = M
      BY <1>2, <1>3, <2>2 DEF S, M
    <3>3. /\ b \in LRUs /\ b.len = a.len /\ b.panic = a.panic
          /\ UseRing(b, M) /\ BucketRings(b, M) /\ Contents(b, M)
      <4> DEFINE R == S \ {x}
      <4>1. /\ R \in SUBSET Pos /\ a.len \in R /\ x \notin R /\ (R \ {a.len}) \cup {x} = M
            /\ UseRing(a, R) /\ BucketRings(a, R) /\ Contents(a, R)
        BY <1>3, <3>1, <3>2
      <4> HIDE DEF R
      <4>2. QED
        BY ONLY <1>2, <1>3, <1>removed, <4>1, MoveRings
    <3>4. QED
      BY <1>3, <3>3
  <2>3. QED
    BY <2>1, <2>2
<1>5. /\ k \in LRUs /\ SameStruct(b, k) /\ SameUse(b, k) /\ SameBuckets(b, k)
      /\ Written(b, k, b.len, NoKey, NoValue, b.elements[b.len].expire)
  BY ONLY <1>1, <1>2, <1>4, ClearKeyValue
<1>6. k.len = l.len - 1 /\ k.panic = l.panic /\ k.head = b.head /\ k.buckets = b.buckets
  BY <1>4, <1>5 DEF SameStruct
<1>7. UseRing(k, M) /\ BucketRings(k, M)
  BY <1>2, <1>4, <1>5, <1>6, SameRings
<1>8. \A p \in M : k.elements[p].key = b.elements[p].key /\ k.elements[p].bucketPos = b.elements[p].bucketPos
  <2>1. \A p \in M : p \in Pos /\ p # b.len
    BY <1>2, <1>4 DEF M
  <2>2. QED
    BY <1>5, <2>1 DEF Written, SameBuckets
<1>9. Contents(k, M)
  BY <1>4, <1>8 DEF Contents
<1>10. k.len - 1 = l.len - 2
  BY <1>2, <1>6
<1>11. QED
  BY <1>5, <1>6, <1>7, <1>9, <1>10 DEF M

\* An entry found by addWithLifetime gets its new value and is used.
LEMMA UpdateRings ==
  ASSUME NEW l \in LRUs, NEW S \in SUBSET Pos, NEW x \in S, NEW value \in Values,
         NEW lifetime, expire(lifetime) \in Nat, NEW k, k = update(l, x, value, lifetime),
         UseRing(l, S), BucketRings(l, S), Contents(l, S)
  PROVE  /\ k \in LRUs /\ k.len = l.len /\ k.panic = l.panic
         /\ UseRing(k, S) /\ BucketRings(k, S) /\ Contents(k, S)
<1> DEFINE a == [l EXCEPT !.elements[x] = [@ EXCEPT !.value = value, !.expire = expire(lifetime)]]
<1>1. /\ a \in LRUs /\ SameStruct(l, a) /\ SameUse(l, a) /\ SameBuckets(l, a)
      /\ Written(l, a, x, l.elements[x].key, value, expire(lifetime))
  BY SetValueExpire
<1>2. k = use(a, x)
  BY DEF update
<1> HIDE DEF a
<1>3. UseRing(a, S) /\ BucketRings(a, S) /\ a.len = l.len /\ a.panic = l.panic
  BY <1>1, SameRings DEF SameStruct
<1>4. \A p \in S : a.elements[p].key = l.elements[p].key /\ a.elements[p].bucketPos = l.elements[p].bucketPos
  BY <1>1 DEF Written, SameBuckets
<1>5. Contents(a, S)
  BY <1>4 DEF Contents
<1>6. QED
  BY <1>1, <1>2, <1>3, <1>5, UseRings

\* What addNew does to the bucket of its key: pos becomes its first element, in front of start.
linked(l, pos, b, start, last) ==
  LET c == [l EXCEPT !.buckets[b] = pos,
                     !.elements[pos] = [@ EXCEPT !.bucketPos = b, !.nextBucket = start, !.prevBucket = last]]
      d == [c EXCEPT !.elements[c.elements[start].prevBucket].nextBucket = pos]
  IN [d EXCEPT !.elements[start].prevBucket = pos]

BucketLinked(l, k, x, b, start, last) ==
  /\ \A p \in Pos : k.buckets[p] = IF p = b THEN x ELSE l.buckets[p]
  /\ \A p \in Pos :
       /\ k.elements[p].bucketPos = IF p = x THEN b ELSE l.elements[p].bucketPos
       /\ k.elements[p].nextBucket =
            IF p = last THEN x ELSE IF p = x THEN start ELSE l.elements[p].nextBucket
       /\ k.elements[p].prevBucket =
            IF p = start THEN x ELSE IF p = x THEN last ELSE l.elements[p].prevBucket

\* The links of the bucket after addNew has linked pos between last and start.
LEMMA LinkedEffect ==
  ASSUME NEW l \in LRUs, NEW x \in Pos, NEW b \in Pos, NEW start \in Pos, NEW last \in Pos,
         start = x => last = x, start # x => l.elements[start].prevBucket = last,
         NEW k, k = linked(l, x, b, start, last)
  PROVE  /\ k \in LRUs /\ k.head = l.head /\ k.len = l.len /\ k.panic = l.panic
         /\ SameContents(l, k) /\ SameUse(l, k) /\ BucketLinked(l, k, x, b, start, last)
<1> DEFINE e == [l.elements[x] EXCEPT !.bucketPos = b, !.nextBucket = start, !.prevBucket = last]
           c == [l EXCEPT !.buckets[b] = x,
                          !.elements[x] = [@ EXCEPT !.bucketPos = b, !.nextBucket = start, !.prevBucket = last]]
           c1 == With(l, x, e)
           y == c.elements[start].prevBucket
           d == WithNextBucket(c, y, x)
<1>1. k = WithPrevBucket(d, start, x)
  BY DEF linked, WithNextBucket, WithPrevBucket
<1>2. c = [c1 EXCEPT !.buckets[b] = x]
  <2>1. c.elements = [l.elements EXCEPT ![x] = e] /\ c.buckets = [l.buckets EXCEPT ![b] = x]
    BY DEF LRUs
  <2>2. c1.elements = [l.elements EXCEPT ![x] = e]
    BY DEF LRUs, With
  <2>3. c.elements = [c1 EXCEPT !.buckets[b] = x].elements /\ c.buckets = [c1 EXCEPT !.buckets[b] = x].buckets
    BY <2>1, <2>2 DEF LRUs, With
  <2>4. QED
    BY <2>3 DEF LRUs, With
<1>3. l.elements[x] \in Element
  BY DEF LRUs
<1>4. e \in Element
  BY <1>3 DEF Element
<1>5. /\ e.key = l.elements[x].key /\ e.value = l.elements[x].value /\ e.expire = l.elements[x].expire
      /\ e.next = l.elements[x].next /\ e.prev = l.elements[x].prev
      /\ e.nextBucket = start /\ e.prevBucket = last /\ e.bucketPos = b
  BY <1>3 DEF Element
<1> HIDE DEF e
<1>6. c1 \in LRUs /\ SameStruct(l, c1) /\ \A p \in Pos : c1.elements[p] = IF p = x THEN e ELSE l.elements[p]
  BY ONLY l \in LRUs, x \in Pos, <1>4, SetElement
<1> HIDE DEF c1, c
<1>7. /\ c \in LRUs /\ c.head = c1.head /\ c.len = c1.len /\ c.panic = c1.panic /\ c.elements = c1.elements
      /\ \A p \in Pos : c.buckets[p] = IF p = b THEN x ELSE c1.buckets[p]
  BY <1>2, <1>6 DEF LRUs
<1>8. y = last
  BY <1>5, <1>6, <1>7
<1>9. /\ d \in LRUs /\ SameStruct(c, d) /\ SameContents(c, d) /\ SameUse(c, d)
      /\ NextBucketSet(c, d, y, x)
  BY ONLY last \in Pos, x \in Pos, <1>7, <1>8, SetNextBucket
<1> HIDE DEF d
<1>10. /\ k \in LRUs /\ SameStruct(d, k) /\ SameContents(d, k) /\ SameUse(d, k)
       /\ PrevBucketSet(d, k, start, x)
  BY ONLY start \in Pos, x \in Pos, <1>1, <1>9, SetPrevBucket
<1>11. /\ k.head = l.head /\ k.len = l.len /\ k.panic = l.panic
       /\ \A p \in Pos : k.buckets[p] = IF p = b THEN x ELSE l.buckets[p]
  BY ONLY <1>6, <1>7, <1>9, <1>10 DEF SameStruct
<1>12. SameContents(l, k) /\ SameUse(l, k)
  BY ONLY <1>5, <1>6, <1>7, <1>9, <1>10 DEF SameContents, SameUse
<1>13. BucketLinked(l, k, x, b, start, last)
  BY ONLY <1>5, <1>6, <1>7, <1>8, <1>9, <1>10, <1>11 DEF NextBucketSet, PrevBucketSet, BucketLinked
<1>14. QED
  BY <1>10, <1>11, <1>12, <1>13

\* start and last are where a new first element of bucket b, at x, belongs.
Place(l, b, x, start, last) ==
  IF l.buckets[b] = emptyBucket THEN start = x /\ last = x
  ELSE start = l.buckets[b] /\ last = l.elements[start].prevBucket

\* x is in bucket b now; key is the key of no entry.
SameScalars(l, k) == k.head = l.head /\ k.len = l.len /\ k.panic = l.panic
BucketPosSet(l, k, x, b) ==
  \A p \in Pos : k.elements[p].bucketPos = IF p = x THEN b ELSE l.elements[p].bucketPos
Absent(l, S, key) == \A p \in S : l.elements[p].key # key

\* An element that is on no ring becomes the first of bucket b.
LEMMA LinkBucketRings ==
  ASSUME NEW l \in LRUs, NEW S \in SUBSET Pos, NEW x \in Pos, x \notin S, NEW b \in Pos,
         BucketRings(l, S), NEW start, NEW last, Place(l, b, x, start, last),
         NEW k, k = linked(l, x, b, start, last)
  PROVE  /\ k \in LRUs /\ SameScalars(l, k)
         /\ SameContents(l, k) /\ SameUse(l, k) /\ BucketRings(k, S \cup {x})
         /\ BucketPosSet(l, k, x, b)
<1> USE DEF Place
<1> DEFINE n == nextBucketOf(l)
           q == prevBucketOf(l)
           c == bucketPosOf(l)
<1>1. Ring(S, n, q, c)
  BY DEF BucketRings
<1>2. \A p \in S : n[p] = l.elements[p].nextBucket /\ q[p] = l.elements[p].prevBucket /\ c[p] = l.elements[p].bucketPos
  BY DEF nextBucketOf, prevBucketOf, bucketPosOf
<1> HIDE DEF n, q, c
<1>3. l.buckets[b] # emptyBucket => start \in S /\ c[start] = b /\ last = q[start] /\ last \in S
  BY <1>1, <1>2 DEF BucketRings, Ring
<1>4. start \in Pos /\ last \in Pos /\ (start = x => last = x) /\ (start # x => l.elements[start].prevBucket = last)
  BY <1>3
<1>5. /\ k \in LRUs /\ k.head = l.head /\ k.len = l.len /\ k.panic = l.panic
      /\ SameContents(l, k) /\ SameUse(l, k) /\ BucketLinked(l, k, x, b, start, last)
  BY ONLY l \in LRUs, x \in Pos, b \in Pos, <1>4, k = linked(l, x, b, start, last), LinkedEffect, SMTT(30)
<1>6. Ring(S \cup {x}, nextBucketOf(k), prevBucketOf(k), bucketPosOf(k))
  <2>1. \A p \in Pos : /\ bucketPosOf(k)[p] = IF p = x THEN b ELSE l.elements[p].bucketPos
                       /\ nextBucketOf(k)[p] =
                            IF p = last THEN x ELSE IF p = x THEN start ELSE l.elements[p].nextBucket
                       /\ prevBucketOf(k)[p] =
                            IF p = start THEN x ELSE IF p = x THEN last ELSE l.elements[p].prevBucket
    BY <1>5 DEF BucketLinked, nextBucketOf, prevBucketOf, bucketPosOf
  <2>2. CASE l.buckets[b] = emptyBucket
    <3>1. \A p \in S : p \in Pos /\ p # x /\ c[p] # b
      BY <1>2, <2>2 DEF BucketRings
    <3>2. nextBucketOf(k)[x] = x /\ prevBucketOf(k)[x] = x /\ bucketPosOf(k)[x] = b
      BY <2>1, <2>2
    <3>3. \A p \in S : /\ nextBucketOf(k)[p] = n[p] /\ prevBucketOf(k)[p] = q[p]
                       /\ bucketPosOf(k)[p] = c[p] /\ c[p] # bucketPosOf(k)[x]
      BY <1>2, <2>1, <2>2, <3>1, <3>2
    <3>4. QED
      BY ONLY x \notin S, <1>1, <3>2, <3>3, NewRing, SMTT(30)
  <2>3. CASE l.buckets[b] # emptyBucket
    <3>1. start \in S /\ c[start] = b /\ last = q[start] /\ last \in S
      BY <1>3, <2>3
    <3>2. bucketPosOf(k)[x] = c[start] /\ nextBucketOf(k)[x] = start /\ prevBucketOf(k)[x] = q[start]
      BY <2>1, <3>1
    <3>3. \A p \in S : /\ nextBucketOf(k)[p] = IF p = q[start] THEN x ELSE n[p]
                       /\ prevBucketOf(k)[p] = IF p = start THEN x ELSE q[p]
                       /\ bucketPosOf(k)[p] = c[p]
      BY <1>2, <2>1, <3>1
    <3>4. QED
      BY ONLY x \notin S, <1>1, <3>1, <3>2, <3>3, LinkIntoRing
  <2>4. QED
    BY <2>2, <2>3
<1>7. \A p \in Pos : /\ k.buckets[p] = IF p = b THEN x ELSE l.buckets[p]
                     /\ k.elements[p].bucketPos = IF p = x THEN b ELSE l.elements[p].bucketPos
  BY <1>5 DEF BucketLinked
<1>8. x # emptyBucket
  BY DEF Pos, emptyBucket
<1>9. ASSUME NEW b2 \in Pos, k.buckets[b2] = emptyBucket, NEW p \in S \cup {x}
      PROVE  k.elements[p].bucketPos # b2
  BY <1>7, <1>8, <1>9 DEF BucketRings
<1>10. ASSUME NEW b2 \in Pos, k.buckets[b2] # emptyBucket
       PROVE  k.buckets[b2] \in S \cup {x} /\ k.elements[k.buckets[b2]].bucketPos = b2
  <2>1. CASE b2 = b
    BY <1>7, <2>1
  <2>2. CASE b2 # b
    <3>1. k.buckets[b2] = l.buckets[b2]
      BY <1>7, <2>2
    <3>2. l.buckets[b2] \in S /\ l.elements[l.buckets[b2]].bucketPos = b2
      BY <1>10, <3>1 DEF BucketRings
    <3>3. QED
      BY <1>7, <3>1, <3>2
  <2>3. QED
    BY <2>1, <2>2
<1>11. BucketRings(k, S \cup {x})
  BY <1>6, <1>9, <1>10 DEF BucketRings
<1>12. BucketPosSet(l, k, x, b)
  BY <1>7 DEF BucketPosSet
<1>13. SameScalars(l, k)
  BY <1>5 DEF SameScalars
<1>14. QED
  BY <1>5, <1>11, <1>12, <1>13

\* insert: the contents are written and the entry becomes the newest.
LEMMA InsertRings ==
  ASSUME NEW l \in LRUs, NEW S \in SUBSET Pos, NEW x \in Pos, x \notin S,
         l.len = Cardinality(S),
         UseRing(l, S), BucketRings(l, S \cup {x}), Contents(l, S),
         NEW key \in Keys, Absent(l, S, key),
         l.elements[x].bucketPos = Bucket(key),
         NEW value \in Values, NEW lifetime, expire(lifetime) \in Nat,
         NEW k, k = insert(l, x, key, value, lifetime)
  PROVE  /\ k \in LRUs /\ k.len = l.len + 1 /\ k.panic = l.panic /\ k.head = x
         /\ UseRing(k, S \cup {x}) /\ BucketRings(k, S \cup {x}) /\ Contents(k, S \cup {x})
         /\ Written(l, k, x, key, value, expire(lifetime))
<1> DEFINE a == [l EXCEPT !.elements[x] =
                            [@ EXCEPT !.key = key, !.value = value, !.expire = expire(lifetime)]]
           alone == [a EXCEPT !.elements[x] = [@ EXCEPT !.prev = x, !.next = x], !.head = x]
           b == IF a.len = 0 THEN alone ELSE IF x # a.head THEN setHead(a, x) ELSE a
<1>1. /\ a \in LRUs /\ SameStruct(l, a) /\ SameUse(l, a) /\ SameBuckets(l, a)
      /\ Written(l, a, x, key, value, expire(lifetime))
  BY SetKeyValueExpire
<1>0. l.len \in Nat /\ (l.len = 0 <=> S = {})
  BY Places, FS_EmptySet
<1>2. k = [b EXCEPT !.len = @ + 1]
  BY ONLY k = insert(l, x, key, value, lifetime), Zenon DEF insert
<1> HIDE DEF a
<1>3. UseRing(a, S) /\ BucketRings(a, S \cup {x}) /\ a.len = l.len /\ a.panic = l.panic /\ a.head = l.head
  BY <1>1, SameRings DEF SameStruct
<1>4. /\ b \in LRUs /\ b.head = x /\ b.len = a.len /\ b.panic = a.panic /\ b.buckets = a.buckets
      /\ SameContents(a, b) /\ SameBuckets(a, b) /\ UseRing(b, S \cup {x})
  <2>1. CASE a.len = 0
    <3> DEFINE c == WithNext(WithPrev(a, x, x), x, x)
    <3>1. b = [c EXCEPT !.head = x]
      BY <2>1 DEF WithNext, WithPrev
    <3>2. /\ WithPrev(a, x, x) \in LRUs /\ SameStruct(a, WithPrev(a, x, x)) /\ SameContents(a, WithPrev(a, x, x))
          /\ SameBuckets(a, WithPrev(a, x, x)) /\ PrevSet(a, WithPrev(a, x, x), x, x)
      BY ONLY <1>1, x \in Pos, SetPrev
    <3>3. /\ c \in LRUs /\ SameStruct(WithPrev(a, x, x), c) /\ SameContents(WithPrev(a, x, x), c)
          /\ SameBuckets(WithPrev(a, x, x), c) /\ NextSet(WithPrev(a, x, x), c, x, x)
      BY ONLY <3>2, x \in Pos, SetNext
    <3> HIDE DEF c
    <3>4. /\ b \in LRUs /\ b.head = x /\ b.len = c.len /\ b.panic = c.panic /\ b.buckets = c.buckets
          /\ b.elements = c.elements
      BY <3>1, <3>3 DEF LRUs
    <3> HIDE DEF b
    <3>5. b.len = a.len /\ b.panic = a.panic /\ b.buckets = a.buckets /\ SameContents(a, b) /\ SameBuckets(a, b)
      BY ONLY <3>2, <3>3, <3>4 DEF SameStruct, SameContents, SameBuckets
    <3>6. nextOf(b)[x] = x /\ prevOf(b)[x] = x
      BY <3>2, <3>3, <3>4 DEF NextSet, PrevSet, nextOf, prevOf
    <3>7. S = {} /\ Ring(S, nextOf(a), prevOf(a), oneClass)
      BY <1>0, <1>3, <2>1 DEF UseRing
    <3>8. Ring(S \cup {x}, nextOf(b), prevOf(b), oneClass)
      BY ONLY <3>6, <3>7, x \notin S, NewRing
    <3>9. QED
      BY <3>4, <3>5, <3>8 DEF UseRing
  <2>2. CASE a.len # 0
    <3>1. S # {} /\ a.head \in S /\ x # a.head
      BY <1>0, <1>3, <2>2 DEF UseRing
    <3>2. b = setHead(a, x)
      BY <2>2, <3>1
    <3> HIDE DEF b
    <3>3. /\ b \in LRUs /\ b.head = x /\ b.len = a.len /\ b.panic = a.panic /\ b.buckets = a.buckets
          /\ SameContents(a, b) /\ SameBuckets(a, b) /\ AtHead(a, b, x)
      BY ONLY <1>1, x \in Pos, <3>1, <3>2, SetHeadEffect
    <3>4. UseRing(b, S \cup {x})
      BY ONLY <1>1, <1>3, S \in SUBSET Pos, x \in Pos, x \notin S, <3>1, <3>3, LinkAtHead
    <3>5. QED
      BY <3>3, <3>4
  <2>3. QED
    BY <2>1, <2>2
<1> HIDE DEF b
<1>5. /\ k \in LRUs /\ k.len = b.len + 1 /\ k.head = b.head /\ k.panic = b.panic
      /\ k.buckets = b.buckets /\ k.elements = b.elements
  BY <1>0, <1>2, <1>3, <1>4 DEF LRUs
<1>6. SameUse(b, k) /\ SameBuckets(a, k) /\ k.buckets = a.buckets /\ Written(l, k, x, key, value, expire(lifetime))
  BY <1>1, <1>4, <1>5 DEF SameUse, SameBuckets, SameContents, Written
<1>7. S \cup {x} \in SUBSET Pos
  OBVIOUS
<1>8. UseRing(k, S \cup {x}) /\ BucketRings(k, S \cup {x})
  BY ONLY <1>3, <1>4, <1>5, <1>6, <1>7, SameRings
<1>9. \A p \in S : k.elements[p].key = l.elements[p].key /\ k.elements[p].bucketPos = l.elements[p].bucketPos
  BY <1>1, <1>6 DEF Written, SameBuckets
<1>10. k.elements[x].key = key /\ k.elements[x].bucketPos = l.elements[x].bucketPos
  BY <1>1, <1>6 DEF Written, SameBuckets
<1>11. Contents(k, S \cup {x})
  BY <1>9, <1>10 DEF Contents, Absent
<1>12. QED
  BY <1>3, <1>4, <1>5, <1>6, <1>8, <1>11

\* The numbers of places are natural.
LEMMA Numbers ==
  ASSUME NEW n \in Nat
  PROVE  IsFiniteSet(0..(n - 1)) /\ Cardinality(0..(n - 1)) = n
<1>1. 0 \in Int /\ n - 1 \in Int
  OBVIOUS
<1>2. /\ IsFiniteSet(0..(n - 1))
      /\ Cardinality(0..(n - 1)) = IF 0 > n - 1 THEN 0 ELSE (n - 1) - 0 + 1
  BY <1>1, FS_Interval
<1>3. QED
  BY <1>2

\* An eviction empties a bucket only if its one entry leaves, which is linked to itself.
LEMMA EvictedBucket ==
  ASSUME NEW l \in LRUs, NEW S \in SUBSET Pos, BucketRings(l, S), NEW x \in S, NEW b \in Pos,
         NEW a, a = evict(l, x)
  PROVE  /\ l.buckets[b] = emptyBucket => a.buckets[b] = emptyBucket
         /\ l.buckets[b] # emptyBucket /\ a.buckets[b] = emptyBucket => a.elements[x].prevBucket = x
<1>1. x \in Pos
  OBVIOUS
<1>2. OutOfBucket(l, a, x)
  BY ONLY l \in LRUs, <1>1, a = evict(l, x), EvictEffect
<1>3. l.elements[x].bucketPos = b => l.buckets[b] # emptyBucket
  BY DEF BucketRings
<1>4. l.elements[x].nextBucket \in Pos
  BY DEF LRUs, Element
<1>5. l.elements[x].nextBucket # emptyBucket
  BY <1>4 DEF Pos, emptyBucket
<1>6. QED
  BY <1>1, <1>2, <1>3, <1>5 DEF OutOfBucket

\* addNew: the slot of the new entry is the next one, or that of the oldest entry, which leaves.
LEMMA AddNewRings ==
  ASSUME NEW l \in LRUs, l.len \in 0..Cap,
         UseRing(l, 0..(l.len - 1)), BucketRings(l, 0..(l.len - 1)), Contents(l, 0..(l.len - 1)),
         NEW key \in Keys, Absent(l, 0..(l.len - 1), key),
         NEW value \in Values, NEW lifetime, expire(lifetime) \in Nat,
         NEW k, k = addNew(l, key, value, lifetime)
  PROVE  /\ k \in LRUs /\ k.len = (IF l.len = Cap THEN Cap ELSE l.len + 1) /\ k.panic = l.panic
         /\ UseRing(k, 0..(k.len - 1)) /\ BucketRings(k, 0..(k.len - 1)) /\ Contents(k, 0..(k.len - 1))
<1> DEFINE S == 0..(l.len - 1)
           b == Bucket(key)
           empty == l.buckets[b] = emptyBucket
           pos == freePos(l)
           a == IF l.len = Cap THEN evict(l, pos) ELSE l
           start == IF empty \/ a.buckets[b] = emptyBucket THEN pos ELSE a.buckets[b]
           last == IF empty THEN pos ELSE a.elements[start].prevBucket
           f == linked(a, pos, b, start, last)
           R == IF l.len = Cap THEN S \ {pos} ELSE S
           full == l.len = Cap
<1>1. k = insert(f, pos, key, value, lifetime)
  BY ONLY k = addNew(l, key, value, lifetime) DEF addNew, linked
<1>2. /\ UseRing(l, S) /\ BucketRings(l, S) /\ Contents(l, S)
      /\ Absent(l, S, key)
  OBVIOUS
<1>3. Cap \in Nat \ {0} /\ Size \in Nat /\ Cap <= Size /\ l.len \in Nat /\ b \in Pos /\ S \in SUBSET Pos
  BY FreeLRUAssumption DEF Pos
<1>4. full => S # {} /\ l.head \in S /\ pos \in S
  <2> SUFFICES ASSUME full PROVE S # {} /\ l.head \in S /\ pos \in S
    OBVIOUS
  <2>1. 0 \in S
    BY <1>3
  <2>2. l.head \in S /\ nextOf(l)[l.head] \in S
    BY <1>2, <2>1 DEF UseRing, Ring
  <2>3. l.head \in Pos
    BY <1>3, <2>2
  <2>4. pos = nextOf(l)[l.head]
    BY <2>3 DEF freePos, nextOf
  <2>5. QED
    BY <2>1, <2>2, <2>4
<1>5. ~full => pos = l.len
  BY DEF freePos
<1>6. /\ pos \in Pos /\ pos \notin R /\ R \in SUBSET Pos
      /\ R \cup {pos} = 0..((IF full THEN Cap ELSE l.len + 1) - 1)
  <2>1. CASE full
    BY <1>3, <1>4, <2>1
  <2>2. CASE ~full
    BY <1>3, <1>5, <2>2 DEF Pos
  <2>3. QED
    BY <2>1, <2>2
<1>after. a = IF full THEN evict(l, pos) ELSE l
  OBVIOUS
<1>rest. R = IF full THEN S \ {pos} ELSE S
  OBVIOUS
<1>links. /\ start = IF empty \/ a.buckets[b] = emptyBucket THEN pos ELSE a.buckets[b]
          /\ last = IF empty THEN pos ELSE a.elements[start].prevBucket
          /\ f = linked(a, pos, b, start, last)
  OBVIOUS
<1>full. full <=> l.len = Cap
  OBVIOUS
<1>empty. empty <=> l.buckets[b] = emptyBucket
  OBVIOUS
<1>bucket. b = Bucket(key)
  OBVIOUS
<1>7. S = {} <=> l.len = 0
  <2>1. l.len # 0 => 0 \in S
    BY <1>3
  <2>2. l.len = 0 => S = {}
    OBVIOUS
  <2>3. QED
    BY <2>1, <2>2
<1> HIDE DEF S, pos, a, start, last, f, R, full, empty, b
<1>8. /\ a \in LRUs /\ a.len = (IF full THEN l.len - 1 ELSE l.len) /\ a.panic = l.panic /\ SameContents(l, a)
      /\ UseRing(a, R) /\ BucketRings(a, R) /\ Contents(a, R)
  <2>1. CASE full
    BY ONLY l \in LRUs, <1>2, <1>3, <1>4, <1>after, <1>rest, <2>1, EvictRings
  <2>2. CASE ~full
    BY <1>2, <1>after, <1>rest, <2>2 DEF SameContents
  <2>3. QED
    BY <2>1, <2>2
<1>9. /\ empty => a.buckets[b] = emptyBucket
      /\ ~empty /\ a.buckets[b] = emptyBucket => a.elements[pos].prevBucket = pos
  <2>1. CASE full
    <3>1. a = evict(l, pos) /\ pos \in S
      BY <1>4, <1>after, <2>1
    <3>2. QED
      BY ONLY l \in LRUs, <1>2, <1>3, <1>empty, <3>1, EvictedBucket
  <2>2. CASE ~full
    BY <1>after, <1>empty, <2>2
  <2>3. QED
    BY <2>1, <2>2
<1>10. Place(a, b, pos, start, last)
  BY <1>9, <1>links DEF Place
<1>11. /\ f \in LRUs /\ SameScalars(a, f)
       /\ SameContents(a, f) /\ SameUse(a, f) /\ BucketRings(f, R \cup {pos})
       /\ BucketPosSet(a, f, pos, b)
  <2>1. f = linked(a, pos, b, start, last)
    BY <1>links
  <2>2. pos \in Pos /\ pos \notin R /\ R \in SUBSET Pos /\ b \in Pos /\ a \in LRUs /\ BucketRings(a, R)
    BY <1>3, <1>6, <1>8
  <2>3. QED
    BY ONLY <1>10, <2>1, <2>2, LinkBucketRings
<1>12. UseRing(f, R)
  BY <1>6, <1>8, <1>11, SameRings DEF SameScalars
<1>13. \A p \in R : f.elements[p].key = a.elements[p].key /\ f.elements[p].bucketPos = a.elements[p].bucketPos
  BY <1>6, <1>11 DEF SameContents, BucketPosSet
<1>14. Contents(f, R)
  BY <1>8, <1>13 DEF Contents
<1>15. Absent(f, R, key)
  BY <1>2, <1>6, <1>8, <1>11, <1>rest DEF SameContents, Absent
<1>16. f.len = Cardinality(R) /\ f.len \in Nat
  <2>1. IsFiniteSet(S) /\ Cardinality(S) = l.len
    BY <1>3, Numbers DEF S
  <2>2. CASE full
    <3>1. Cardinality(R) = l.len - 1
      BY <1>4, <1>rest, <2>1, <2>2, FS_RemoveElement
    <3>2. QED
      BY <1>3, <1>8, <1>11, <1>full, <2>2, <3>1 DEF SameScalars
  <2>3. CASE ~full
    BY <1>3, <1>8, <1>11, <1>rest, <2>1, <2>3 DEF SameScalars
  <2>4. QED
    BY <2>2, <2>3
<1>17. f.elements[pos].bucketPos = Bucket(key)
  BY <1>6, <1>11, <1>bucket DEF BucketPosSet
<1>18. /\ k \in LRUs /\ k.len = f.len + 1 /\ k.panic = f.panic
       /\ UseRing(k, R \cup {pos}) /\ BucketRings(k, R \cup {pos}) /\ Contents(k, R \cup {pos})
  <2>1. pos \in Pos /\ pos \notin R /\ R \in SUBSET Pos /\ f \in LRUs /\ BucketRings(f, R \cup {pos})
    BY <1>6, <1>11
  <2>2. key \in Keys /\ value \in Values /\ expire(lifetime) \in Nat
    OBVIOUS
  <2>3. QED
    BY ONLY <1>1, <1>12, <1>14, <1>15, <1>16, <1>17, <2>1, <2>2, InsertRings, SMTT(30)
<1>19. k.len = IF full THEN Cap ELSE l.len + 1
  BY <1>3, <1>8, <1>11, <1>18, <1>full DEF SameScalars
<1>20. QED
  BY <1>6, <1>8, <1>11, <1>18, <1>19, <1>full DEF SameScalars

\* The inductive invariant. The live entries are the elements 0 .. len-1; they are on one ring
\* in the order of use and on one per bucket, with keys of their own. Unlike RingsIntact it
\* has nothing a walk from one entry reaches: that every ring is closed and reaches all of
\* its class follows from Ring, which every assignment to a link can be checked against.
IInv ==
  /\ lru \in LRUs /\ lru.len \in 0..Cap /\ ~lru.panic /\ now \in 0..MaxNow
  /\ UseRing(lru, Live) /\ BucketRings(lru, Live) /\ Contents(lru, Live)

\* The live entries are in the arrays.
LEMMA LiveInArrays ==
  ASSUME IInv
  PROVE  /\ Live \in SUBSET Pos /\ lru.len \in Nat /\ Size \in Nat
         /\ \A p \in Live : p \in Pos
  BY FreeLRUAssumption DEF IInv, Live, Pos

\* An empty LRU satisfies the invariant.
LEMMA InitIInv == Init => IInv
<1> SUFFICES ASSUME Init PROVE IInv
  OBVIOUS
<1>1. Cap \in Nat \ {0} /\ Size \in Nat /\ Cap <= Size /\ MaxNow \in Nat
  BY FreeLRUAssumption
<1>2. lru \in LRUs
  <2>1. 0 \in Pos
    BY <1>1 DEF Pos
  <2>2. zeroElement \in Element
    BY <2>1 DEF zeroElement, Element
  <2>3. QED
    BY <2>1, <2>2 DEF Init, initLRU, LRUs
<1>3. lru.len = 0 /\ lru.panic = FALSE /\ now = 0 /\ \A b \in Pos : lru.buckets[b] = emptyBucket
  BY DEF Init, initLRU
<1>4. Live = {}
  BY <1>3 DEF Live
<1>5. \A n, q, c : Ring({}, n, q, c)
  BY DEF Ring
<1>6. UseRing(lru, Live) /\ BucketRings(lru, Live) /\ Contents(lru, Live)
  BY <1>3, <1>4, <1>5 DEF UseRing, BucketRings, Contents
<1>7. QED
  BY <1>1, <1>2, <1>3, <1>6 DEF IInv

\* Adding, of a key the cache has and of one it has not.
LEMMA AddStep ==
  ASSUME IInv, NEW key \in Keys, NEW value \in Values, NEW lifetime \in Lifetimes,
         AddWithLifetime(key, value, lifetime)
  PROVE  IInv'
<1> DEFINE pos == search(lru, key)
<1>1. expire(lifetime) \in Nat
  BY FreeLRUAssumption DEF IInv, expire
<1>2. Live \in SUBSET Pos /\ lru.len \in Nat /\ Cap \in Nat
  BY LiveInArrays, FreeLRUAssumption
<1>3. now' = now
  BY DEF AddWithLifetime
<1>4. CASE pos # emptyBucket
  <2>1. lru' = update(lru, pos, value, lifetime)
    BY <1>4 DEF AddWithLifetime
  <2>2. pos \in Live
    BY <1>2, <1>4, SearchFinds DEF IInv
  <2>3. /\ lru' \in LRUs /\ lru'.len = lru.len /\ lru'.panic = lru.panic
        /\ UseRing(lru', Live) /\ BucketRings(lru', Live) /\ Contents(lru', Live)
    BY <1>1, <1>2, <2>1, <2>2, UpdateRings DEF IInv
  <2>4. Live' = Live
    BY <2>3 DEF Live
  <2>5. QED
    BY <1>3, <2>3, <2>4 DEF IInv
<1>5. CASE pos = emptyBucket
  <2>1. lru' = addNew(lru, key, value, lifetime)
    BY <1>5 DEF AddWithLifetime
  <2>2. Absent(lru, Live, key)
    <3>1. \A p \in Live : p # emptyBucket
      BY <1>2 DEF Pos, emptyBucket
    <3>2. QED
      BY <1>2, <1>5, <3>1, SearchFinds DEF IInv, Absent
  <2>3. /\ lru' \in LRUs /\ lru'.len = (IF lru.len = Cap THEN Cap ELSE lru.len + 1) /\ lru'.panic = lru.panic
        /\ UseRing(lru', 0..(lru'.len - 1)) /\ BucketRings(lru', 0..(lru'.len - 1))
        /\ Contents(lru', 0..(lru'.len - 1))
    BY <1>1, <2>1, <2>2, AddNewRings DEF IInv, Live
  <2>4. lru'.len \in 0..Cap
    BY <1>2, <2>3 DEF IInv
  <2>5. QED
    BY <1>3, <2>3, <2>4 DEF IInv, Live
<1>6. QED
  BY <1>4, <1>5

\* Looking up a key: a miss, an expired entry or a hit.
LEMMA GetStep ==
  ASSUME IInv, NEW key \in Keys, Get(key)
  PROVE  IInv'
<1> DEFINE pos == search(lru, key)
<1>1. Live \in SUBSET Pos /\ lru.len \in Nat /\ Cap \in Nat
  BY LiveInArrays, FreeLRUAssumption
<1>2. now' = now
  BY DEF Get
<1>3. pos # emptyBucket => pos \in Live
  BY <1>1, SearchFinds DEF IInv
<1>4. CASE pos = emptyBucket
  <2>1. lru' = lru
    BY <1>4 DEF Get
  <2>2. QED
    BY <1>2, <2>1 DEF IInv, Live
<1>5. CASE pos # emptyBucket /\ expired(lru.elements[pos])
  <2>1. lru' = removeAt(lru, pos)
    BY <1>5 DEF Get
  <2>2. lru.len \in 1..Cap /\ pos \in 0..(lru.len - 1)
    BY <1>1, <1>3, <1>5 DEF Live, IInv
  <2>3. /\ lru' \in LRUs /\ lru'.len = lru.len - 1 /\ lru'.panic = lru.panic
        /\ UseRing(lru', 0..(lru'.len - 1)) /\ BucketRings(lru', 0..(lru'.len - 1))
        /\ Contents(lru', 0..(lru'.len - 1))
    BY <2>1, <2>2, RemoveRings DEF IInv, Live
  <2>4. lru'.len \in 0..Cap
    BY <1>1, <2>2, <2>3
  <2>5. QED
    BY <1>2, <2>3, <2>4 DEF IInv, Live
<1>6. CASE pos # emptyBucket /\ ~expired(lru.elements[pos])
  <2>1. lru' = use(lru, pos)
    BY <1>6 DEF Get
  <2>2. /\ lru' \in LRUs /\ lru'.len = lru.len /\ lru'.panic = lru.panic
        /\ UseRing(lru', Live) /\ BucketRings(lru', Live) /\ Contents(lru', Live)
    BY <1>1, <1>3, <1>6, <2>1, UseRings DEF IInv
  <2>3. Live' = Live
    BY <2>2 DEF Live
  <2>4. QED
    BY <1>2, <2>2, <2>3 DEF IInv
<1>7. QED
  BY <1>4, <1>5, <1>6

\* Every call of the cache, and the clock, keeps the invariant.
LEMMA NextIInv == IInv /\ [Next]_vars => IInv'
<1> SUFFICES ASSUME IInv, [Next]_vars PROVE IInv'
  OBVIOUS
<1>1. ASSUME NEW key \in Keys, NEW value \in Values, NEW lifetime \in Lifetimes,
             AddWithLifetime(key, value, lifetime)
      PROVE  IInv'
  BY <1>1, AddStep
<1>2. ASSUME NEW key \in Keys, Get(key) PROVE IInv'
  BY <1>2, GetStep
<1>3. ASSUME NEW t \in 0..MaxNow, SetClock(t) PROVE IInv'
  BY <1>3 DEF SetClock, IInv, Live
<1>4. CASE UNCHANGED vars
  BY <1>4 DEF vars, IInv, Live
<1>5. QED
  BY <1>1, <1>2, <1>3, <1>4 DEF Next

\* The inductive invariant: whatever is added, looked up, updated, evicted or expires, in
\* any order, the entries of lru.go are linked in one ring by use and one ring per bucket,
\* and no key has two entries.
THEOREM Inductive == Spec => []IInv
<1>1. Init => IInv
  BY InitIInv
<1>2. IInv /\ [Next]_vars => IInv'
  BY NextIInv
<1>3. QED
  BY <1>1, <1>2, PTL DEF Spec

\* Between calls the links of lru.go are intact, for any capacity, array length and hash:
\* next and prev are inverse and so are nextBucket and prevBucket, no link leaves the live
\* entries, the head and every used bucket point at one of them, and the walk of search along
\* the bucket of an entry's key finds that entry.  One wrong assignment in unlinkElement,
\* unlinkBucket, move or addNew would break it.
THEOREM LinksIntact == Spec => []RingsIntact
<1>1. IInv => RingsIntact
  <2> SUFFICES ASSUME IInv PROVE RingsIntact
    OBVIOUS
  <2>1. Live \in SUBSET Pos /\ lru.len \in Nat /\ Size \in Nat /\ \A p \in Live : p \in Pos
    BY LiveInArrays
  <2>2. TypeOK
    BY DEF IInv, TypeOK, LRUs, Element
  <2>3. ASSUME NEW p \in Live
        PROVE  LET e == lru.elements[p] IN
               /\ {e.next, e.prev} \subseteq Live
               /\ lru.elements[e.next].prev = p /\ lru.elements[e.prev].next = p
    <3> DEFINE n == nextOf(lru)
               q == prevOf(lru)
    <3>1. Ring(Live, n, q, oneClass)
      BY DEF IInv, UseRing
    <3>2. \A x \in Live : n[x] = lru.elements[x].next /\ q[x] = lru.elements[x].prev
      BY <2>1 DEF nextOf, prevOf
    <3> HIDE DEF n, q
    <3>3. n[p] \in Live /\ q[p] \in Live /\ q[n[p]] = p /\ n[q[p]] = p
      BY <3>1 DEF Ring
    <3>4. QED
      BY <3>2, <3>3
  <2>4. ASSUME NEW p \in Live
        PROVE  LET e == lru.elements[p] IN
               /\ {e.nextBucket, e.prevBucket} \subseteq Live
               /\ lru.elements[e.nextBucket].prevBucket = p
               /\ lru.elements[e.prevBucket].nextBucket = p
    <3> DEFINE n == nextBucketOf(lru)
               q == prevBucketOf(lru)
    <3>1. Ring(Live, n, q, bucketPosOf(lru))
      BY DEF IInv, BucketRings
    <3>2. \A x \in Live : n[x] = lru.elements[x].nextBucket /\ q[x] = lru.elements[x].prevBucket
      BY <2>1 DEF nextBucketOf, prevBucketOf
    <3> HIDE DEF n, q
    <3>3. n[p] \in Live /\ q[p] \in Live /\ q[n[p]] = p /\ n[q[p]] = p
      BY <3>1 DEF Ring
    <3>4. QED
      BY <3>2, <3>3
  <2>5. ASSUME NEW p \in Live
        PROVE  LET e == lru.elements[p] IN
               /\ e.key # NoKey /\ e.bucketPos = Bucket(e.key)
               /\ lru.buckets[e.bucketPos] # emptyBucket
               /\ search(lru, e.key) = p
    <3>1. lru.elements[p].key \in Keys /\ lru.elements[p].bucketPos = Bucket(lru.elements[p].key)
      BY DEF IInv, Contents
    <3>2. lru.elements[p].bucketPos \in Pos /\ lru.elements[p].key # NoKey
      BY <3>1, FreeLRUAssumption DEF Pos
    <3>3. lru.buckets[lru.elements[p].bucketPos] # emptyBucket
      BY <3>2 DEF IInv, BucketRings
    <3>4. search(lru, lru.elements[p].key) = p
      BY <2>1, <3>1, SearchFinds DEF IInv
    <3>5. QED
      BY <3>1, <3>2, <3>3, <3>4
  <2>6. \A b \in Pos : lru.buckets[b] # emptyBucket =>
          lru.buckets[b] \in Live /\ lru.elements[lru.buckets[b]].bucketPos = b
    BY DEF IInv, BucketRings
  <2>7. lru.len > 0 => lru.head \in Live
    <3>1. lru.len > 0 => 0 \in Live
      BY <2>1 DEF Live
    <3>2. QED
      BY <3>1 DEF IInv, UseRing
  <2> HIDE DEF RingsIntact
  <2>8. QED
    BY <2>2, <2>3, <2>4, <2>5, <2>6, <2>7 DEF RingsIntact
<1>2. QED
  BY <1>1, Inductive, PTL

(***************************************************************************)
(* The order of use.                                                       *)
(***************************************************************************)

\* o lists S from the oldest entry to the newest, the head.
InOrder(l, S, m, o) ==
  /\ o \in [1..m -> S] /\ \A p \in S : \E i \in 1..m : o[i] = p
  /\ \A i, j \in 1..m : o[i] = o[j] => i = j
  /\ \A i \in 1..(m - 1) : l.elements[o[i]].next = o[i + 1]
  /\ m > 0 => o[m] = l.head /\ l.elements[l.head].next = o[1]

\* The entries of a ring can be listed from the oldest to the newest.
LEMMA OrderExists ==
  ASSUME NEW l \in LRUs, NEW S \in SUBSET Pos, UseRing(l, S)
  PROVE  \E o : InOrder(l, S, Cardinality(S), o)
<1> DEFINE m == Cardinality(S)
           n == nextOf(l)
           q == prevOf(l)
           h == l.head
<1>1. IsFiniteSet(S) /\ m \in Nat
  BY Places
<1>2. CASE m = 0
  <2>1. S = {}
    BY <1>1, <1>2, FS_EmptySet
  <2>2. [i \in 1..0 |-> 0] \in [1..0 -> S]
    OBVIOUS
  <2>3. InOrder(l, S, 0, [i \in 1..0 |-> 0])
    BY <2>1, <2>2 DEF InOrder
  <2>4. QED
    BY <1>2, <2>3
<1>3. CASE m # 0
  <2>1. S # {} /\ h \in S /\ Ring(S, n, q, oneClass)
    BY <1>1, <1>3, FS_EmptySet DEF UseRing
  <2>2. n \in [Pos -> Pos] /\ \A p \in Pos : n[p] = l.elements[p].next
    BY DEF LRUs, Element, nextOf
  <2>3. \A p \in S : oneClass[p] = oneClass[h]
    BY <2>1 DEF oneClass
  <2>4. h \in Pos /\ IsFiniteSet(S) /\ m \in Nat /\ m > 0 /\ m = Cardinality(S)
    BY <1>1, <1>3, <2>1
  <2> HIDE DEF n, q, h, m
  <2>5. PICK w \in [0..m -> Pos] : Walk(n, h, m, w)
    BY <2>2, <2>4, WalkExists
  <2>6. w[0] = h /\ \A i \in 1..m : w[i] = n[w[i - 1]]
    BY <2>5 DEF Walk
  <2>7. \A i \in 0..m : w[i] \in S
    BY <2>1, <2>4, <2>5, WalkInRing
  <2>8. \A y \in S : \E i \in 0..(m - 1) : w[i] = y
    BY <2>1, <2>3, <2>4, <2>5, WalkComplete
  <2>9. \A i, j \in 0..(m - 1) : w[i] = w[j] => i = j
    <3> DEFINE v == [i \in 0..(m - 1) |-> w[i]]
    <3>1. v \in Surjection(0..(m - 1), S)
      <4>1. v \in [0..(m - 1) -> S]
        BY <2>4, <2>7
      <4>2. \A y \in S : \E i \in 0..(m - 1) : v[i] = y
        BY <2>8
      <4> HIDE DEF v
      <4>3. QED
        BY <4>1, <4>2 DEF Surjection
    <3>2. IsFiniteSet(0..(m - 1)) /\ Cardinality(0..(m - 1)) = m
      <4>1. 0 \in Int /\ m - 1 \in Int
        BY <2>4
      <4>2. /\ IsFiniteSet(0..(m - 1))
            /\ Cardinality(0..(m - 1)) = IF 0 > m - 1 THEN 0 ELSE (m - 1) - 0 + 1
        BY <4>1, FS_Interval
      <4>3. QED
        BY <2>4, <4>2
    <3> HIDE DEF v
    <3>3. v \in Injection(0..(m - 1), S)
      BY <2>4, <3>1, <3>2, FS_Surjection
    <3>4. \A i, j \in 0..(m - 1) : v[i] = v[j] => i = j
      BY <3>3 DEF Injection, IsInjective
    <3>5. QED
      BY <3>4 DEF v
  <2>10. w[m] = h
    <3>1. PICK i \in 0..(m - 1) : w[i] = w[m]
      BY <2>4, <2>7, <2>8
    <3>2. CASE i = 0
      BY <2>6, <3>1, <3>2
    <3>3. CASE i # 0
      <4>1. \A j \in 1..m : q[w[j]] = w[j - 1]
        BY <2>1, <2>4, <2>6, <2>7 DEF Ring
      <4>2. w[i - 1] = w[m - 1]
        BY <2>4, <3>1, <3>3, <4>1
      <4>3. i - 1 = m - 1
        BY <2>4, <2>9, <3>3, <4>2
      <4>4. QED
        BY <2>4, <4>3
    <3>4. QED
      BY <3>2, <3>3
  <2> DEFINE o == [i \in 1..m |-> w[i]]
  <2>11. o \in [1..m -> S]
    BY <2>4, <2>7
  <2>12. \A p \in S : \E i \in 1..m : o[i] = p
    <3> SUFFICES ASSUME NEW p \in S PROVE \E i \in 1..m : w[i] = p
      OBVIOUS
    <3>1. PICK i \in 0..(m - 1) : w[i] = p
      BY <2>8
    <3>2. i = 0 => w[m] = p
      BY <2>6, <2>10, <3>1
    <3>3. QED
      BY <2>4, <3>1, <3>2
  <2>13. ASSUME NEW i \in 1..m, NEW j \in 1..m, o[i] = o[j] PROVE i = j
    <3>1. \A a \in 1..m : w[a] = w[IF a = m THEN 0 ELSE a] /\ (IF a = m THEN 0 ELSE a) \in 0..(m - 1)
      BY <2>4, <2>6, <2>10
    <3>2. (IF i = m THEN 0 ELSE i) = (IF j = m THEN 0 ELSE j)
      BY <2>9, <2>13, <3>1
    <3>3. QED
      BY <2>4, <3>2
  <2>14. \A i \in 1..(m - 1) : l.elements[o[i]].next = o[i + 1]
    BY <2>2, <2>4, <2>6
  <2>15. o[m] = l.head /\ l.elements[l.head].next = o[1]
    BY <2>2, <2>4, <2>6, <2>10 DEF h
  <2> HIDE DEF o
  <2>16. InOrder(l, S, m, o)
    BY <2>11, <2>12, <2>13, <2>14, <2>15 DEF InOrder
  <2>17. QED
    BY <2>16 DEF m
<1>4. QED
  BY <1>2, <1>3

\* An entry leaves the order.
Dropped(o, m, j) == [i \in 1..(m - 1) |-> IF i < j THEN o[i] ELSE o[i + 1]]

\* unlinkElement takes the j-th entry out of the order.
LEMMA OrderDrops ==
  ASSUME NEW l \in LRUs, NEW S \in SUBSET Pos, UseRing(l, S), NEW m \in Nat, NEW o, InOrder(l, S, m, o),
         NEW j \in 1..m, NEW x, x = o[j],
         NEW k, OutOfUse(l, k, x), k.head = IF x = l.head THEN l.elements[x].prev ELSE l.head
  PROVE  InOrder(k, S \ {x}, m - 1, Dropped(o, m, j))
<1> DEFINE d == Dropped(o, m, j)
           up(i) == IF i < j THEN i ELSE i + 1
           nx(p) == l.elements[p].next
           pv(p) == l.elements[p].prev
<1>1. /\ \A i \in 1..m : o[i] \in S /\ o[i] \in Pos
      /\ \A p \in S : \E i \in 1..m : o[i] = p
      /\ \A i, i2 \in 1..m : o[i] = o[i2] => i = i2
      /\ \A i \in 1..(m - 1) : nx(o[i]) = o[i + 1]
      /\ o[m] = l.head /\ nx(l.head) = o[1]
  BY DEF InOrder
<1>2. \A p \in S : nx(p) \in S /\ pv(p) \in S /\ pv(nx(p)) = p
  <2>1. \A p \in S : nextOf(l)[p] = nx(p) /\ prevOf(l)[p] = pv(p)
    BY DEF nextOf, prevOf
  <2>2. Ring(S, nextOf(l), prevOf(l), oneClass)
    BY DEF UseRing
  <2>3. QED
    BY <2>1, <2>2 DEF Ring
<1>3. \A p \in Pos : k.elements[p].next = IF p = pv(x) THEN nx(x) ELSE nx(p)
  BY DEF OutOfUse
<1> HIDE DEF nx, pv
<1>4. \A i \in 1..(m - 1) : up(i) \in 1..m /\ up(i) # j /\ d[i] = o[up(i)]
  BY DEF Dropped
<1>5. \A i, i2 \in 1..(m - 1) : up(i) = up(i2) => i = i2
  OBVIOUS
<1>6. \A a \in 1..m : a # j => \E i \in 1..(m - 1) : up(i) = a
  <2> TAKE a \in 1..m
  <2>1. a < j => a \in 1..(m - 1) /\ up(a) = a
    OBVIOUS
  <2>2. a > j => a - 1 \in 1..(m - 1) /\ up(a - 1) = a
    OBVIOUS
  <2>3. QED
    BY <2>1, <2>2
<1> HIDE DEF d
<1>7. d \in [1..(m - 1) -> S \ {x}]
  <2>1. d = [i \in 1..(m - 1) |-> d[i]]
    BY DEF d, Dropped
  <2>2. \A i \in 1..(m - 1) : d[i] \in S \ {x}
    BY <1>1, <1>4
  <2>3. QED
    BY <2>1, <2>2
<1>8. \A p \in S \ {x} : \E i \in 1..(m - 1) : d[i] = p
  <2> TAKE p \in S \ {x}
  <2>1. PICK a \in 1..m : o[a] = p
    BY <1>1
  <2>2. a # j
    BY <2>1
  <2>3. QED
    BY <1>4, <1>6, <2>1, <2>2
<1>9. \A i, i2 \in 1..(m - 1) : d[i] = d[i2] => i = i2
  BY <1>1, <1>4, <1>5
<1>10. \A i \in 2..m : pv(o[i]) = o[i - 1]
  <2> TAKE i \in 2..m
  <2>1. i - 1 \in 1..(m - 1) /\ i - 1 \in 1..m /\ (i - 1) + 1 = i
    OBVIOUS
  <2>2. nx(o[i - 1]) = o[i]
    BY <1>1, <2>1
  <2>3. QED
    BY <1>1, <1>2, <2>1, <2>2
<1>11. pv(o[1]) = o[m]
  BY <1>1, <1>2
<1>12. ASSUME NEW i \in 1..(m - 2) PROVE k.elements[d[i]].next = d[i + 1]
  <2>1. i \in 1..(m - 1) /\ i + 1 \in 1..(m - 1)
    OBVIOUS
  <2>2. CASE up(i) = j - 1
    <3>1. up(i + 1) = j + 1 /\ j \in 2..m /\ j \in 1..(m - 1) /\ i = j - 1
      BY <2>1, <2>2
    <3>2. pv(x) = d[i] /\ nx(x) = d[i + 1]
      <4>1. d[i] = o[j - 1] /\ d[i + 1] = o[j + 1]
        BY <1>4, <2>1, <2>2, <3>1
      <4>2. pv(x) = o[j - 1] /\ nx(x) = o[j + 1]
        BY <1>1, <1>10, <3>1
      <4>3. QED
        BY <4>1, <4>2
    <3>3. d[i] \in Pos
      BY <1>1, <1>4, <2>1
    <3>4. QED
      BY <1>3, <3>2, <3>3
  <2>3. CASE up(i) # j - 1
    <3>1. up(i + 1) = up(i) + 1 /\ up(i) \in 1..(m - 1)
      BY <2>1, <2>3
    <3>2. d[i] # pv(x)
      <4>1. CASE j = 1
        <5>1. pv(x) = o[m] /\ up(i) # m
          BY <1>11, <3>1, <4>1
        <5>2. QED
          BY <1>1, <1>4, <2>1, <5>1
      <4>2. CASE j # 1
        <5>1. pv(x) = o[j - 1] /\ j - 1 \in 1..m
          BY <1>10, <4>2
        <5>2. QED
          BY <1>1, <1>4, <2>1, <2>3, <5>1
      <4>3. QED
        BY <4>1, <4>2
    <3>3. nx(d[i]) = d[i + 1]
      BY <1>1, <1>4, <2>1, <3>1
    <3>4. d[i] \in Pos
      BY <1>1, <1>4, <2>1
    <3>5. QED
      BY <1>3, <3>2, <3>3, <3>4
  <2>4. QED
    BY <2>2, <2>3
<1>13. ASSUME m - 1 > 0 PROVE d[m - 1] = k.head /\ k.elements[k.head].next = d[1]
  <2>1. m - 1 \in 1..(m - 1) /\ 1 \in 1..(m - 1) /\ m \in 2..m
    BY <1>13
  <2>2. CASE j = m
    <3>1. d[m - 1] = o[m - 1] /\ d[1] = o[1] /\ pv(x) = o[m - 1] /\ nx(x) = o[1] /\ x = l.head
      BY <1>1, <1>4, <1>10, <2>1, <2>2
    <3>2. k.head = pv(x) /\ pv(x) \in Pos
      BY <1>1, <2>1, <3>1 DEF pv
    <3>3. QED
      BY <1>3, <3>1, <3>2
  <2>3. CASE j # m
    <3>1. d[m - 1] = o[m] /\ x # l.head /\ k.head = o[m] /\ o[m] \in Pos
      BY <1>1, <1>4, <2>1, <2>3
    <3>2. CASE j = 1
      <4>1. d[1] = o[2] /\ pv(x) = o[m] /\ nx(x) = o[2]
        BY <1>1, <1>4, <1>11, <2>1, <3>2
      <4>2. QED
        BY <1>3, <3>1, <4>1
    <3>3. CASE j # 1
      <4>1. pv(x) = o[j - 1] /\ j - 1 \in 1..m /\ j - 1 # m
        BY <1>10, <3>3
      <4>2. d[1] = o[1] /\ o[m] # pv(x) /\ nx(o[m]) = o[1]
        BY <1>1, <1>4, <2>1, <3>3, <4>1
      <4>3. QED
        BY <1>3, <3>1, <4>2
    <3>4. QED
      BY <3>2, <3>3
  <2>4. QED
    BY <2>2, <2>3
<1>14. (m - 1) - 1 = m - 2
  OBVIOUS
<1>15. InOrder(k, S \ {x}, m - 1, d)
  BY <1>7, <1>8, <1>9, <1>12, <1>13, <1>14 DEF InOrder
<1>16. QED
  BY <1>15 DEF d

\* An entry joins the order as the newest; an entry of it is found elsewhere.
Joined(o, m, x) == [i \in 1..(m + 1) |-> IF i = m + 1 THEN x ELSE o[i]]
Renamed(o, m, f, t) == [i \in 1..m |-> IF o[i] = f THEN t ELSE o[i]]

\* setHead puts x at the end of the order.
LEMMA OrderJoins ==
  ASSUME NEW l \in LRUs, NEW S \in SUBSET Pos, NEW m \in Nat, m > 0, NEW o, InOrder(l, S, m, o),
         NEW x \in Pos, x \notin S, NEW k, AtHead(l, k, x), k.head = x
  PROVE  InOrder(k, S \cup {x}, m + 1, Joined(o, m, x))
<1> DEFINE d == Joined(o, m, x)
<1>1. /\ \A i \in 1..m : o[i] \in S /\ o[i] \in Pos /\ o[i] # x
      /\ \A p \in S : \E i \in 1..m : o[i] = p
      /\ \A i, j \in 1..m : o[i] = o[j] => i = j
      /\ \A i \in 1..(m - 1) : l.elements[o[i]].next = o[i + 1]
      /\ o[m] = l.head /\ l.elements[l.head].next = o[1]
  BY DEF InOrder
<1>2. \A p \in Pos : k.elements[p].next =
         IF p = o[m] THEN x ELSE IF p = x THEN o[1] ELSE l.elements[p].next
  BY <1>1 DEF AtHead
<1>3. d[m + 1] = x /\ \A i \in 1..m : i \in 1..(m + 1) /\ d[i] = o[i]
  BY DEF Joined
<1>4. d \in [1..(m + 1) -> S \cup {x}]
  <2>1. \A i \in 1..(m + 1) : (IF i = m + 1 THEN x ELSE o[i]) \in S \cup {x}
    BY <1>1
  <2>2. QED
    BY <2>1 DEF Joined
<1> HIDE DEF d
<1>5. \A i \in 1..(m + 1) : i = m + 1 \/ i \in 1..m
  OBVIOUS
<1>6. m + 1 \in 1..(m + 1)
  OBVIOUS
<1>7. \A p \in S \cup {x} : \E i \in 1..(m + 1) : d[i] = p
  <2> TAKE p \in S \cup {x}
  <2>1. CASE p = x
    BY <1>3, <1>6, <2>1
  <2>2. CASE p \in S
    <3>1. PICK i \in 1..m : o[i] = p
      BY <1>1, <2>2
    <3>2. QED
      BY <1>3, <3>1
  <2>3. QED
    BY <2>1, <2>2
<1>8. \A i, j \in 1..(m + 1) : d[i] = d[j] => i = j
  BY <1>1, <1>3, <1>5
<1>9. ASSUME NEW i \in 1..((m + 1) - 1) PROVE k.elements[d[i]].next = d[i + 1]
  <2>1. i \in 1..m /\ i + 1 \in 1..(m + 1)
    OBVIOUS
  <2>2. CASE i = m
    BY <1>1, <1>2, <1>3, <2>1, <2>2
  <2>3. CASE i # m
    <3>1. i \in 1..(m - 1) /\ i + 1 \in 1..m /\ m \in 1..m
      BY <2>3
    <3>2. d[i] = o[i] /\ d[i + 1] = o[i + 1] /\ o[i] # o[m] /\ o[i] # x /\ o[i] \in Pos
      BY <1>1, <1>3, <2>3, <3>1
    <3>3. QED
      BY <1>1, <1>2, <3>1, <3>2
  <2>4. QED
    BY <2>2, <2>3
<1>10. d[m + 1] = k.head /\ k.elements[k.head].next = d[1]
  <2>1. 1 \in 1..m /\ m \in 1..m
    OBVIOUS
  <2>2. k.elements[x].next = o[1]
    BY <1>1, <1>2, <2>1
  <2>3. QED
    BY <1>3, <2>1, <2>2
<1>11. InOrder(k, S \cup {x}, m + 1, d)
  BY <1>4, <1>7, <1>8, <1>9, <1>10 DEF InOrder
<1>12. QED
  BY <1>11 DEF d

\* The first entry.
LEMMA OrderStarts ==
  ASSUME NEW x \in Pos, NEW k, k.head = x, k.elements[x].next = x, NEW o
  PROVE  InOrder(k, {x}, 1, Joined(o, 0, x))
<1> DEFINE d == Joined(o, 0, x)
<1>1. d = [i \in 1..1 |-> x]
  BY DEF Joined
<1>2. d[1] = x /\ d \in [1..1 -> {x}] /\ 1..1 = {1}
  BY <1>1
<1> HIDE DEF d
<1>3. InOrder(k, {x}, 1, d)
  BY <1>2 DEF InOrder
<1>4. QED
  BY <1>3 DEF d

\* move changes where an entry is, and the order not otherwise.
LEMMA OrderMoves ==
  ASSUME NEW l \in LRUs, NEW S \in SUBSET Pos, UseRing(l, S), NEW m \in Nat, NEW o, InOrder(l, S, m, o),
         NEW f \in S, NEW t \in Pos, t \notin S, NEW k, Moved(l, k, t, f)
  PROVE  InOrder(k, (S \ {f}) \cup {t}, m, Renamed(o, m, f, t))
<1> DEFINE d == Renamed(o, m, f, t)
           M == (S \ {f}) \cup {t}
           nx(p) == l.elements[p].next
           pv(p) == l.elements[p].prev
<1>1. /\ \A i \in 1..m : o[i] \in S /\ o[i] \in Pos /\ o[i] # t
      /\ \A p \in S : \E i \in 1..m : o[i] = p
      /\ \A i, j \in 1..m : o[i] = o[j] => i = j
      /\ \A i \in 1..(m - 1) : nx(o[i]) = o[i + 1]
      /\ m > 0 => o[m] = l.head /\ nx(l.head) = o[1]
  BY DEF InOrder
<1>2. \A p \in S : nx(p) \in S /\ pv(p) \in S /\ pv(nx(p)) = p /\ nx(pv(p)) = p
  <2>1. \A p \in S : nextOf(l)[p] = nx(p) /\ prevOf(l)[p] = pv(p)
    BY DEF nextOf, prevOf
  <2>2. Ring(S, nextOf(l), prevOf(l), oneClass)
    BY DEF UseRing
  <2>3. QED
    BY <2>1, <2>2 DEF Ring
<1>3. /\ k.head = IF f = l.head THEN t ELSE l.head
      /\ \A p \in S : p # f => k.elements[p].next = IF p = pv(f) THEN t ELSE nx(p)
      /\ k.elements[t].next = IF pv(f) = f THEN t ELSE nx(f)
  BY DEF Moved
<1>4. \A i \in 1..m : d[i] = IF o[i] = f THEN t ELSE o[i]
  BY DEF Renamed
<1>5. d \in [1..m -> M]
  <2>1. \A i \in 1..m : (IF o[i] = f THEN t ELSE o[i]) \in M
    BY <1>1
  <2>2. QED
    BY <2>1 DEF Renamed
<1> HIDE DEF d, nx, pv
<1>6. \A p \in M : \E i \in 1..m : d[i] = p
  <2> TAKE p \in M
  <2>1. PICK i \in 1..m : o[i] = IF p = t THEN f ELSE p
    BY <1>1
  <2>2. QED
    BY <1>4, <2>1
<1>7. \A i, j \in 1..m : d[i] = d[j] => i = j
  BY <1>1, <1>4
\* The entry after p, wherever p is found now.
<1>8. ASSUME NEW p \in S
      PROVE  k.elements[IF p = f THEN t ELSE p].next = IF nx(p) = f THEN t ELSE nx(p)
  <2>1. nx(p) = f <=> p = pv(f)
    BY <1>2
  <2>2. CASE p = f
    BY <1>3, <2>1, <2>2
  <2>3. CASE p # f
    BY <1>3, <2>1, <2>3
  <2>4. QED
    BY <2>2, <2>3
<1>9. ASSUME NEW i \in 1..(m - 1) PROVE k.elements[d[i]].next = d[i + 1]
  <2>1. i \in 1..m /\ i + 1 \in 1..m
    OBVIOUS
  <2>2. d[i] = (IF o[i] = f THEN t ELSE o[i]) /\ d[i + 1] = (IF o[i + 1] = f THEN t ELSE o[i + 1])
    BY <1>4, <2>1
  <2>3. o[i] \in S /\ nx(o[i]) = o[i + 1]
    BY <1>1, <2>1
  <2>4. QED
    BY <1>8, <2>2, <2>3
<1>10. ASSUME m > 0 PROVE d[m] = k.head /\ k.elements[k.head].next = d[1]
  <2>1. m \in 1..m /\ 1 \in 1..m
    BY <1>10
  <2>2. d[m] = (IF o[m] = f THEN t ELSE o[m]) /\ d[1] = (IF o[1] = f THEN t ELSE o[1])
    BY <1>4, <2>1
  <2>3. o[m] \in S /\ nx(o[m]) = o[1] /\ o[m] = l.head
    BY <1>1, <1>10, <2>1
  <2>4. d[m] = k.head
    BY <1>3, <2>2, <2>3
  <2>5. k.elements[d[m]].next = d[1]
    BY <1>8, <2>2, <2>3
  <2>6. QED
    BY <2>4, <2>5
<1>11. InOrder(k, M, m, d)
  BY <1>5, <1>6, <1>7, <1>9, <1>10 DEF InOrder
<1>12. QED
  BY <1>11 DEF d

\* What the order depends on.
LEMMA SameOrder ==
  ASSUME NEW l, NEW k, NEW S \in SUBSET Pos, NEW m \in Nat, NEW o, InOrder(l, S, m, o),
         SameUse(l, k), k.head = l.head
  PROVE  InOrder(k, S, m, o)
<1>1. \A i \in 1..m : o[i] \in Pos
  BY DEF InOrder
<1>2. \A i \in 1..m : k.elements[o[i]].next = l.elements[o[i]].next
  BY <1>1 DEF SameUse
<1>3. \A i \in 1..(m - 1) : i \in 1..m
  OBVIOUS
<1>4. m > 0 => m \in 1..m /\ o[m] = l.head
  BY DEF InOrder
<1>5. QED
  BY <1>2, <1>3, <1>4 DEF InOrder

\* Where an entry is in the order.
LEMMA OrderPlace ==
  ASSUME NEW l, NEW S, NEW m, NEW o, InOrder(l, S, m, o), NEW x \in S
  PROVE  \E j \in 1..m : o[j] = x
BY DEF InOrder

\* What Recency shows of the entry at p, and of the entries listed in o.
content(l, p) ==
  [key |-> l.elements[p].key, value |-> l.elements[p].value, expire |-> l.elements[p].expire]
listed(l, m, o) == [i \in 1..m |-> content(l, o[i])]

\* recencyOf lists the contents in the order of use.
LEMMA RecencyLists ==
  ASSUME NEW l, l.len \in Nat, NEW S, NEW o, InOrder(l, S, l.len, o)
  PROVE  recencyOf(l) = listed(l, l.len, o)
<1> DEFINE m == l.len
           at == CHOOSE w : w = [i \in 1..m |-> l.elements[IF i = 1 THEN l.head ELSE w[i - 1]].next]
<1>1. recencyOf(l) = [i \in 1..m |-> LET e == l.elements[at[i]] IN
                       [key |-> e.key, value |-> e.value, expire |-> e.expire]]
  BY DEF recencyOf
<1>2. /\ o \in [1..m -> S] /\ \A i \in 1..(m - 1) : l.elements[o[i]].next = o[i + 1]
      /\ m > 0 => l.elements[l.head].next = o[1]
  BY DEF InOrder
<1>3. \A i \in 1..m : o[i] = l.elements[IF i = 1 THEN l.head ELSE o[i - 1]].next
  <2> TAKE i \in 1..m
  <2>1. CASE i = 1
    BY <1>2, <2>1
  <2>2. CASE i # 1
    <3>1. i - 1 \in 1..(m - 1) /\ (i - 1) + 1 = i
      BY <2>2
    <3>2. QED
      BY <1>2, <2>2, <3>1
  <2>3. QED
    BY <2>1, <2>2
<1>4. o = [i \in 1..m |-> l.elements[IF i = 1 THEN l.head ELSE o[i - 1]].next]
  BY <1>2, <1>3
<1>5. at = [i \in 1..m |-> l.elements[IF i = 1 THEN l.head ELSE at[i - 1]].next]
  BY ONLY <1>4
<1> HIDE DEF at
<1>6. \A i \in 1..m : at[i] = l.elements[IF i = 1 THEN l.head ELSE at[i - 1]].next
  BY <1>5
<1>7. \A i \in 1..m : at[i] = o[i]
  <2> DEFINE bad == {i \in 1..m : at[i] # o[i]}
  <2> SUFFICES ASSUME bad # {} PROVE FALSE
    OBVIOUS
  <2>1. bad \subseteq Nat
    OBVIOUS
  <2>2. PICK d \in bad : \A e \in bad : d <= e
    BY <2>1, Smallest
  <2>3. CASE d = 1
    BY <1>3, <1>6, <2>2, <2>3
  <2>4. CASE d # 1
    <3>1. d - 1 \in 1..m /\ d - 1 \notin bad
      BY <2>2, <2>4
    <3>2. at[d - 1] = o[d - 1]
      BY <3>1
    <3>3. QED
      BY <1>3, <1>6, <2>2, <2>4, <3>2
  <2>5. QED
    BY <2>3, <2>4
<1>8. \A i \in 1..m : [key |-> l.elements[at[i]].key, value |-> l.elements[at[i]].value, expire |-> l.elements[at[i]].expire] = content(l, o[i])
  BY <1>7 DEF content
<1>9. QED
  BY <1>1, <1>8 DEF listed

\* use puts the entry at the end of the order.
LEMMA UseOrder ==
  ASSUME NEW l \in LRUs, NEW S \in SUBSET Pos, UseRing(l, S), NEW m \in Nat, NEW o, InOrder(l, S, m, o),
         NEW j \in 1..m, NEW x, x = o[j], NEW k, k = use(l, x)
  PROVE  InOrder(k, S, m, Joined(Dropped(o, m, j), m - 1, x))
<1>1. /\ o \in [1..m -> S] /\ o[m] = l.head /\ m \in 1..m
      /\ \A i, i2 \in 1..m : o[i] = o[i2] => i = i2
  BY DEF InOrder
<1>2. CASE x = l.head
  <2>1. j = m
    BY <1>1, <1>2
  <2>2. Joined(Dropped(o, m, j), m - 1, x) = o
    <3>1. (m - 1) + 1 = m
      OBVIOUS
    <3>2. \A i \in 1..m : (IF i = m THEN x ELSE Dropped(o, m, j)[i]) = o[i]
      BY <2>1 DEF Dropped
    <3>3. QED
      BY <1>1, <3>1, <3>2 DEF Joined
  <2>3. k = l
    BY <1>2 DEF use
  <2>4. QED
    BY <2>2, <2>3
<1>3. CASE x # l.head
  <2> DEFINE a == unlinkElement(l, x)
             R == S \ {x}
  <2>1. k = setHead(a, x)
    BY <1>3 DEF use
  <2>2. x \in S /\ x \in Pos /\ R \in SUBSET Pos /\ x \notin R /\ R \cup {x} = S
    BY <1>1
  <2>3. a \in LRUs /\ SameStruct(l, a) /\ SameContents(l, a) /\ SameBuckets(l, a) /\ OutOfUse(l, a, x)
    BY ONLY l \in LRUs, <2>2, UnlinkElementEffect
  <2> HIDE DEF a
  <2>4. a.head = l.head
    BY <2>3 DEF SameStruct
  <2>5. InOrder(a, R, m - 1, Dropped(o, m, j))
    BY <1>3, <2>3, <2>4, OrderDrops
  <2>6. k.head = x /\ AtHead(a, k, x)
    BY ONLY <1>3, <2>1, <2>2, <2>3, <2>4, SetHeadEffect
  <2>7. m - 1 \in Nat /\ m - 1 > 0 /\ (m - 1) + 1 = m
    <3>1. m # 1
      BY <1>1, <1>3
    <3>2. QED
      BY <3>1
  <2> HIDE DEF R
  <2> DEFINE d == Dropped(o, m, j)
  <2>8. InOrder(a, R, m - 1, d)
    BY <2>5
  <2> HIDE DEF d
  <2>9. InOrder(k, R \cup {x}, (m - 1) + 1, Joined(d, m - 1, x))
    BY ONLY <2>2, <2>3, <2>6, <2>7, <2>8, OrderJoins
  <2>10. QED
    BY <2>2, <2>7, <2>9 DEF d
<1>4. QED
  BY <1>2, <1>3

\* The lists of what an operation leaves.
LEMMA ListedDropped ==
  ASSUME NEW l, NEW m \in Nat, NEW o, NEW j \in 1..m
  PROVE  listed(l, m - 1, Dropped(o, m, j)) = Dropped(listed(l, m, o), m, j)
<1>1. \A i \in 1..(m - 1) : i \in 1..m /\ i + 1 \in 1..m
  OBVIOUS
<1>2. \A i \in 1..(m - 1) : content(l, IF i < j THEN o[i] ELSE o[i + 1]) =
         IF i < j THEN content(l, o[i]) ELSE content(l, o[i + 1])
  OBVIOUS
<1>3. QED
  BY <1>1, <1>2 DEF listed, Dropped

\* An entry added at the end.
LEMMA ListedJoined ==
  ASSUME NEW l, NEW m \in Nat, NEW o, NEW x
  PROVE  listed(l, m + 1, Joined(o, m, x)) = Joined(listed(l, m, o), m, content(l, x))
<1>1. \A i \in 1..(m + 1) : i = m + 1 \/ i \in 1..m
  OBVIOUS
<1>2. \A i \in 1..(m + 1) : content(l, IF i = m + 1 THEN x ELSE o[i]) =
         IF i = m + 1 THEN content(l, x) ELSE listed(l, m, o)[i]
  BY <1>1 DEF listed
<1>3. QED
  BY <1>2 DEF listed, Joined

\* Two lists with the same contents.
LEMMA ListedSame ==
  ASSUME NEW l, NEW k, NEW m, NEW o, NEW o2, \A i \in 1..m : content(k, o2[i]) = content(l, o[i])
  PROVE  listed(k, m, o2) = listed(l, m, o)
BY DEF listed

\* k lists what l does, with the j-th entry at the end, as e.
ToEnd(l, k, j, e) == recencyOf(k) = Joined(Dropped(recencyOf(l), l.len, j), l.len - 1, e)

\* use puts the entry at the end of the list.
LEMMA UseRecency ==
  ASSUME NEW l \in LRUs, NEW S \in SUBSET Pos, UseRing(l, S), BucketRings(l, S), Contents(l, S),
         l.len \in Nat, NEW o, InOrder(l, S, l.len, o),
         NEW j \in 1..(l.len), NEW x, x = o[j], NEW k, k = use(l, x)
  PROVE  ToEnd(l, k, j, content(l, x))
<1> DEFINE m == l.len
           d == Dropped(o, m, j)
           o2 == Joined(d, m - 1, x)
<1>1. x \in S
  BY DEF InOrder
<1>2. k \in LRUs /\ k.len = m /\ SameContents(l, k)
  BY ONLY l \in LRUs, S \in SUBSET Pos, <1>1, k = use(l, x), UseRing(l, S), BucketRings(l, S), Contents(l, S), UseRings
<1>3. InOrder(k, S, m, o2)
  BY UseOrder
<1>4. recencyOf(l) = listed(l, m, o)
  BY RecencyLists
<1>5. m - 1 \in Nat /\ (m - 1) + 1 = m /\ m \in Nat /\ j \in 1..m
  OBVIOUS
<1>6. listed(l, m - 1, d) = Dropped(listed(l, m, o), m, j)
  BY ONLY <1>5, ListedDropped DEF d
<1> HIDE DEF d
<1>7. listed(l, (m - 1) + 1, o2) = Joined(listed(l, m - 1, d), m - 1, content(l, x))
  BY ONLY <1>5, ListedJoined DEF o2
<1> HIDE DEF o2, m
<1>8. recencyOf(k) = listed(k, m, o2)
  BY ONLY <1>2, <1>3, <1>5, RecencyLists
<1>9. listed(k, m, o2) = listed(l, m, o2)
  <2>1. \A i \in 1..m : o2[i] \in Pos
    BY <1>3 DEF InOrder
  <2>2. \A i \in 1..m : content(k, o2[i]) = content(l, o2[i])
    BY <1>2, <2>1 DEF SameContents, content
  <2>3. QED
    BY <2>2, ListedSame
<1>10. recencyOf(k) = Joined(Dropped(recencyOf(l), m, j), m - 1, content(l, x))
  BY <1>4, <1>5, <1>6, <1>7, <1>8, <1>9
<1>11. QED
  BY <1>10 DEF m, ToEnd

\* update does so with the new value and lifetime.
LEMMA UpdateRecency ==
  ASSUME NEW l \in LRUs, NEW S \in SUBSET Pos, UseRing(l, S), BucketRings(l, S), Contents(l, S),
         l.len \in Nat, NEW o, InOrder(l, S, l.len, o),
         NEW j \in 1..(l.len), NEW x, x = o[j],
         NEW value \in Values, NEW lifetime, expire(lifetime) \in Nat,
         NEW k, k = update(l, x, value, lifetime)
  PROVE  ToEnd(l, k, j, [key |-> l.elements[x].key, value |-> value, expire |-> expire(lifetime)])
<1> DEFINE m == l.len
           a == [l EXCEPT !.elements[x] = [@ EXCEPT !.value = value, !.expire = expire(lifetime)]]
<1>1. /\ x \in S /\ x \in Pos /\ o \in [1..m -> S] /\ m \in Nat /\ j \in 1..m
      /\ \A i, i2 \in 1..m : o[i] = o[i2] => i = i2
  BY DEF InOrder
<1>2. /\ a \in LRUs /\ SameStruct(l, a) /\ SameUse(l, a) /\ SameBuckets(l, a)
      /\ Written(l, a, x, l.elements[x].key, value, expire(lifetime))
  BY <1>1, SetValueExpire
<1>3. k = use(a, x)
  BY DEF update
<1> HIDE DEF a
<1>4. UseRing(a, S) /\ BucketRings(a, S) /\ a.len = m /\ a.head = l.head
  BY <1>2, SameRings DEF SameStruct
<1>5. Contents(a, S)
  <2>1. \A p \in S : a.elements[p].key = l.elements[p].key /\ a.elements[p].bucketPos = l.elements[p].bucketPos
    BY <1>2 DEF Written, SameBuckets
  <2>2. QED
    BY <2>1 DEF Contents
<1>6. InOrder(a, S, m, o)
  BY <1>2, <1>4, SameOrder
<1>7. recencyOf(l) = listed(l, m, o)
  BY RecencyLists
<1> HIDE DEF m
<1>8. recencyOf(a) = listed(a, m, o)
  BY <1>1, <1>4, <1>6, RecencyLists
<1>9. recencyOf(k) = Joined(Dropped(recencyOf(a), m, j), m - 1, content(a, x))
  <2>1. a.len \in Nat /\ InOrder(a, S, a.len, o) /\ j \in 1..(a.len) /\ x = o[j] /\ S \in SUBSET Pos
    BY <1>1, <1>4, <1>6
  <2>2. ToEnd(a, k, j, content(a, x))
    BY ONLY <1>2, <1>3, <1>4, <1>5, <2>1, UseRecency
  <2>3. QED
    BY <1>4, <2>2 DEF ToEnd
<1>10. Dropped(listed(a, m, o), m, j) = Dropped(listed(l, m, o), m, j)
  <2>1. \A i \in 1..m : i # j => content(a, o[i]) = content(l, o[i])
    <3>1. \A i \in 1..m : i # j => o[i] # x /\ o[i] \in Pos
      BY <1>1
    <3>2. QED
      BY <1>2, <3>1 DEF Written, content
  <2>2. \A i \in 1..m : i # j => listed(a, m, o)[i] = listed(l, m, o)[i]
    BY <2>1 DEF listed
  <2>3. \A i \in 1..(m - 1) : (i < j => i \in 1..m /\ i # j) /\ (~(i < j) => i + 1 \in 1..m /\ i + 1 # j)
    BY <1>1
  <2>4. \A i \in 1..(m - 1) : (IF i < j THEN listed(a, m, o)[i] ELSE listed(a, m, o)[i + 1]) =
                              (IF i < j THEN listed(l, m, o)[i] ELSE listed(l, m, o)[i + 1])
    BY <2>2, <2>3
  <2>5. QED
    BY <2>4 DEF Dropped
<1>11. content(a, x) = [key |-> l.elements[x].key, value |-> value, expire |-> expire(lifetime)]
  BY <1>1, <1>2 DEF Written, content
<1>12. QED
  BY <1>7, <1>8, <1>9, <1>10, <1>11 DEF m, ToEnd

\* removeAt takes the entry out of the list.
LEMMA RemoveRecency ==
  ASSUME NEW l \in LRUs, l.len \in 1..Cap,
         UseRing(l, 0..(l.len - 1)), BucketRings(l, 0..(l.len - 1)), Contents(l, 0..(l.len - 1)),
         NEW o, InOrder(l, 0..(l.len - 1), l.len, o),
         NEW j \in 1..(l.len), NEW x, x = o[j], NEW k, k = removeAt(l, x)
  PROVE  recencyOf(k) = Dropped(recencyOf(l), l.len, j)
<1> DEFINE m == l.len
           S == 0..(m - 1)
           M == 0..(m - 2)
           R == S \ {x}
           a == evict(l, x)
           b == move(a, x, a.len)
           d == Dropped(o, m, j)
<1>1. k = [b EXCEPT !.elements[b.len] = [@ EXCEPT !.key = NoKey, !.value = NoValue]]
  BY DEF removeAt
<1>2. /\ m \in Nat /\ m - 1 \in Nat /\ S \in SUBSET Pos /\ m - 1 \in Pos /\ M \in SUBSET Pos
      /\ m \in 1..Cap /\ j \in 1..m
  BY FreeLRUAssumption DEF Pos
<1>3. x \in S /\ x \in Pos
  BY <1>2 DEF InOrder
<1>4. a = evict(l, x) /\ b = move(a, x, a.len) /\ R = S \ {x} /\ d = Dropped(o, m, j)
  OBVIOUS
<1>5. UseRing(l, S) /\ BucketRings(l, S) /\ Contents(l, S) /\ InOrder(l, S, m, o)
  OBVIOUS
<1>6. recencyOf(l) = listed(l, m, o)
  BY <1>2, RecencyLists
<1>7. k \in LRUs /\ k.len = m - 1
  BY <1>2, <1>3, RemoveRings
<1> HIDE DEF a, b, S, M, R, m
<1>8. /\ a \in LRUs /\ a.len = m - 1 /\ SameContents(l, a) /\ OutOfUse(l, a, x)
      /\ a.head = IF x = l.head THEN l.elements[x].prev ELSE l.head
  BY ONLY l \in LRUs, <1>3, <1>4, EvictEffect DEF m
<1>9. UseRing(a, R) /\ BucketRings(a, R) /\ Contents(a, R)
  BY ONLY l \in LRUs, <1>2, <1>3, <1>4, <1>5, EvictRings
<1>10. InOrder(a, R, m - 1, d)
  BY ONLY l \in LRUs, x = o[j], <1>2, <1>4, <1>5, <1>8, OrderDrops
<1>11. listed(l, m - 1, d) = Dropped(listed(l, m, o), m, j)
  BY ONLY <1>2, <1>4, ListedDropped
<1> HIDE DEF d
<1>12. \A i \in 1..(m - 1) : d[i] \in R /\ d[i] \in Pos
  BY <1>2, <1>4, <1>10 DEF InOrder
\* The last entry, at m - 1, takes the place that is free now.
<1>13. \E o2 : /\ b \in LRUs /\ b.len = m - 1 /\ InOrder(b, M, m - 1, o2)
               /\ \A i \in 1..(m - 1) : content(b, o2[i]) = content(l, d[i])
  <2>1. CASE x = a.len
    <3>1. R = M
      BY <1>2, <1>4, <1>8, <2>1 DEF S, M
    <3>2. b = a
      BY <2>1, <1>4 DEF move
    <3>3. \A i \in 1..(m - 1) : content(b, d[i]) = content(l, d[i])
      BY <1>8, <1>12, <3>2 DEF SameContents, content
    <3>4. QED
      BY <1>8, <1>10, <3>1, <3>2, <3>3
  <2>2. CASE x # a.len
    <3>1. a.len \in R /\ x \notin R /\ R \in SUBSET Pos /\ a.len \in Pos
      BY <1>2, <1>4, <1>8, <2>2 DEF S
    <3>2. (R \ {a.len}) \cup {x} = M
      BY <1>2, <1>3, <1>4, <1>8, <2>2 DEF S, M
    <3>3. b \in LRUs /\ b.len = a.len /\ Moved(a, b, x, a.len)
      BY ONLY <1>3, <1>4, <1>8, <2>2, <3>1, MoveEffect
    <3> DEFINE o2 == Renamed(d, m - 1, a.len, x)
    <3>4. InOrder(b, (R \ {a.len}) \cup {x}, m - 1, o2)
      BY ONLY <1>2, <1>3, <1>8, <1>9, <1>10, <3>1, <3>3, OrderMoves
    <3>5. \A i \in 1..(m - 1) : o2[i] = IF d[i] = a.len THEN x ELSE d[i]
      BY DEF Renamed
    <3> HIDE DEF o2
    <3>6. \A p \in R : p # a.len => content(b, p) = content(a, p)
      BY <3>1, <3>3 DEF Moved, content
    <3>7. content(b, x) = content(a, a.len)
      BY <3>3 DEF Moved, content
    <3>8. \A i \in 1..(m - 1) : content(b, o2[i]) = content(a, d[i])
      BY <1>12, <3>5, <3>6, <3>7
    <3>9. \A i \in 1..(m - 1) : content(a, d[i]) = content(l, d[i])
      BY <1>8, <1>12 DEF SameContents, content
    <3>10. \A i \in 1..(m - 1) : content(b, o2[i]) = content(l, d[i])
      BY <3>8, <3>9
    <3>11. QED
      BY <1>8, <3>2, <3>3, <3>4, <3>10
  <2>3. QED
    BY <2>1, <2>2
<1>14. PICK o2 : /\ b \in LRUs /\ b.len = m - 1 /\ InOrder(b, M, m - 1, o2)
                 /\ \A i \in 1..(m - 1) : content(b, o2[i]) = content(l, d[i])
  BY <1>13
<1>15. /\ SameStruct(b, k) /\ SameUse(b, k)
       /\ Written(b, k, b.len, NoKey, NoValue, b.elements[b.len].expire)
  BY ONLY <1>1, <1>2, <1>14, ClearKeyValue
<1>16. InOrder(k, M, m - 1, o2)
  <2>1. k.head = b.head
    BY <1>15 DEF SameStruct
  <2>2. QED
    BY ONLY <1>2, <1>14, <1>15, <2>1, SameOrder
<1>17. \A i \in 1..(m - 1) : content(k, o2[i]) = content(l, d[i])
  <2>1. \A i \in 1..(m - 1) : o2[i] \in M
    BY <1>14 DEF InOrder
  <2>2. \A p \in M : p \in Pos /\ p # b.len
    BY <1>2, <1>14 DEF M
  <2>3. \A p \in M : content(k, p) = content(b, p)
    BY <1>15, <2>2 DEF Written, content
  <2>4. QED
    BY <1>14, <2>1, <2>3
<1>18. listed(k, m - 1, o2) = listed(l, m - 1, d)
  BY <1>17, ListedSame
<1>19. recencyOf(k) = listed(k, m - 1, o2)
  BY <1>2, <1>7, <1>16, RecencyLists
<1>20. QED
  BY <1>6, <1>11, <1>18, <1>19 DEF m

\* insert puts the new entry at the end of the order.
LEMMA InsertOrder ==
  ASSUME NEW l \in LRUs, NEW S \in SUBSET Pos, NEW x \in Pos, x \notin S, UseRing(l, S),
         l.len \in Nat, NEW o, InOrder(l, S, l.len, o),
         NEW key \in Keys, NEW value \in Values, NEW lifetime, expire(lifetime) \in Nat,
         NEW k, k = insert(l, x, key, value, lifetime)
  PROVE  /\ InOrder(k, S \cup {x}, l.len + 1, Joined(o, l.len, x))
         /\ k.len = l.len + 1 /\ Written(l, k, x, key, value, expire(lifetime))
<1> DEFINE m == l.len
           a == [l EXCEPT !.elements[x] =
                            [@ EXCEPT !.key = key, !.value = value, !.expire = expire(lifetime)]]
           alone == [a EXCEPT !.elements[x] = [@ EXCEPT !.prev = x, !.next = x], !.head = x]
           b == IF a.len = 0 THEN alone ELSE IF x # a.head THEN setHead(a, x) ELSE a
           d == Joined(o, m, x)
<1>1. a \in LRUs /\ SameStruct(l, a) /\ SameUse(l, a) /\ Written(l, a, x, key, value, expire(lifetime))
  BY SetKeyValueExpire
<1>2. k = [b EXCEPT !.len = @ + 1]
  BY ONLY k = insert(l, x, key, value, lifetime), Zenon DEF insert
<1> HIDE DEF a
<1>3. UseRing(a, S) /\ a.len = m /\ a.head = l.head
  BY <1>1, SameRings DEF SameStruct
<1>4. InOrder(a, S, m, o)
  BY <1>1, <1>3, SameOrder
<1>5. m \in Nat
  OBVIOUS
<1>6. b \in LRUs /\ b.len = m /\ SameContents(a, b) /\ InOrder(b, S \cup {x}, m + 1, d)
  <2>1. CASE m = 0
    <3> DEFINE c1 == WithPrev(a, x, x)
               c == WithNext(c1, x, x)
    <3>1. b = [c EXCEPT !.head = x]
      BY <1>3, <2>1 DEF WithNext, WithPrev
    <3>2. c1 \in LRUs /\ SameStruct(a, c1) /\ SameContents(a, c1)
      BY ONLY <1>1, x \in Pos, SetPrev
    <3> HIDE DEF c1
    <3>3. c \in LRUs /\ NextSet(c1, c, x, x) /\ SameStruct(c1, c) /\ SameContents(c1, c)
      BY ONLY <3>2, x \in Pos, SetNext
    <3> HIDE DEF c
    <3>4. b \in LRUs /\ b.head = x /\ b.elements = c.elements /\ b.len = c.len
      BY <3>1, <3>3 DEF LRUs
    <3> HIDE DEF b
    <3>5. b.elements[x].next = x
      BY <3>3, <3>4 DEF NextSet
    <3>6. InOrder(b, {x}, 1, Joined(o, 0, x))
      BY ONLY x \in Pos, <3>4, <3>5, OrderStarts
    <3>7. S = {}
      BY <1>4, <2>1 DEF InOrder
    <3>8. S \cup {x} = {x} /\ m + 1 = 1 /\ d = Joined(o, 0, x)
      BY <2>1, <3>7
    <3>9. b.len = m /\ SameContents(a, b)
      BY ONLY <1>3, <3>2, <3>3, <3>4 DEF SameStruct, SameContents
    <3>10. QED
      BY <3>4, <3>6, <3>8, <3>9
  <2>2. CASE m # 0
    <3>1. m > 0 /\ m \in 1..m
      BY <1>5, <2>2
    <3>2. a.head \in S
      BY <1>4, <3>1 DEF InOrder
    <3>3. x # a.head
      BY <3>2
    <3>4. b = setHead(a, x)
      BY <1>3, <2>2, <3>3
    <3> HIDE DEF b
    <3>5. b \in LRUs /\ b.head = x /\ AtHead(a, b, x) /\ b.len = m /\ SameContents(a, b)
      BY ONLY <1>1, <1>3, x \in Pos, <3>3, <3>4, SetHeadEffect
    <3>6. InOrder(b, S \cup {x}, m + 1, d)
      BY ONLY <1>1, <1>4, <1>5, S \in SUBSET Pos, x \in Pos, x \notin S, <3>1, <3>5, OrderJoins DEF d
    <3>7. QED
      BY <3>5, <3>6
  <2>3. QED
    BY <2>1, <2>2
<1> HIDE DEF b
<1>7. k.head = b.head /\ k.elements = b.elements /\ k.len = m + 1
  BY <1>2, <1>6 DEF LRUs
<1>8. SameUse(b, k)
  BY <1>7 DEF SameUse
<1>9. S \cup {x} \in SUBSET Pos /\ m + 1 \in Nat
  BY <1>5
<1> HIDE DEF d
<1>10. InOrder(k, S \cup {x}, m + 1, d)
  BY ONLY <1>6, <1>7, <1>8, <1>9, SameOrder
<1>11. Written(l, k, x, key, value, expire(lifetime))
  BY <1>1, <1>6, <1>7 DEF SameContents, Written
<1>12. QED
  BY <1>7, <1>10, <1>11 DEF d

\* k lists what l does, in the order o, and then e.
AtEnd(l, k, o, e) == recencyOf(k) = Joined(listed(l, l.len, o), l.len, e)

\* The list of an LRU that insert has written to.
LEMMA InsertRecency ==
  ASSUME NEW l \in LRUs, NEW S \in SUBSET Pos, NEW x \in Pos, x \notin S,
         UseRing(l, S), l.len \in Nat, NEW o, InOrder(l, S, l.len, o),
         NEW key \in Keys, NEW value \in Values, NEW lifetime, expire(lifetime) \in Nat,
         NEW k, k = insert(l, x, key, value, lifetime)
  PROVE  AtEnd(l, k, o, [key |-> key, value |-> value, expire |-> expire(lifetime)])
<1> DEFINE m == l.len
           d == Joined(o, m, x)
<1>1. m \in Nat
  OBVIOUS
<1>2. k.len = m + 1 /\ Written(l, k, x, key, value, expire(lifetime)) /\ InOrder(k, S \cup {x}, m + 1, d)
  <2>1. /\ InOrder(k, S \cup {x}, l.len + 1, Joined(o, l.len, x))
        /\ k.len = l.len + 1 /\ Written(l, k, x, key, value, expire(lifetime))
    BY ONLY l \in LRUs, S \in SUBSET Pos, x \in Pos, x \notin S, UseRing(l, S), l.len \in Nat,
            InOrder(l, S, l.len, o), key \in Keys, value \in Values, expire(lifetime) \in Nat,
            k = insert(l, x, key, value, lifetime), InsertOrder, SMTT(60)
  <2>2. QED
    BY <2>1
<1>3. listed(k, m + 1, d) = Joined(listed(k, m, o), m, content(k, x))
  BY <1>1, ListedJoined
<1> HIDE DEF d, m
<1>4. recencyOf(k) = listed(k, m + 1, d)
  BY <1>1, <1>2, RecencyLists
<1>5. listed(k, m, o) = listed(l, m, o)
  <2>1. \A i \in 1..m : o[i] \in S
    BY DEF InOrder, m
  <2>2. \A p \in S : content(k, p) = content(l, p)
    <3>1. \A p \in S : p \in Pos /\ p # x
      OBVIOUS
    <3>2. QED
      BY <1>2, <3>1 DEF Written, content
  <2>3. QED
    BY <2>1, <2>2, ListedSame
<1>6. content(k, x) = [key |-> key, value |-> value, expire |-> expire(lifetime)]
  BY <1>2 DEF Written, content
<1>7. QED
  BY <1>3, <1>4, <1>5, <1>6 DEF m, AtEnd

\* k lists what l does and a new entry; without the first one of l if the cache was full.
Added(l, k, key, value, expiry) ==
  LET e == [key |-> key, value |-> value, expire |-> expiry] IN
  /\ l.len # Cap => recencyOf(k) = Joined(recencyOf(l), l.len, e)
  /\ l.len = Cap => recencyOf(k) = Joined(Dropped(recencyOf(l), l.len, 1), l.len - 1, e)

\* addNew puts the new entry at the end of the list; the first one leaves a full cache.
LEMMA AddNewRecency ==
  ASSUME NEW l \in LRUs, l.len \in 0..Cap, NEW S, S = 0..(l.len - 1),
         UseRing(l, S), BucketRings(l, S), Contents(l, S),
         NEW o, InOrder(l, S, l.len, o),
         NEW key \in Keys, NEW value \in Values, NEW lifetime, expire(lifetime) \in Nat,
         NEW k, k = addNew(l, key, value, lifetime)
  PROVE  Added(l, k, key, value, expire(lifetime))
<1> DEFINE m == l.len
           b == Bucket(key)
           empty == l.buckets[b] = emptyBucket
           pos == freePos(l)
           a == IF m = Cap THEN evict(l, pos) ELSE l
           start == IF empty \/ a.buckets[b] = emptyBucket THEN pos ELSE a.buckets[b]
           last == IF empty THEN pos ELSE a.elements[start].prevBucket
           f == linked(a, pos, b, start, last)
           R == IF m = Cap THEN S \ {pos} ELSE S
           n == IF m = Cap THEN m - 1 ELSE m
           d == IF m = Cap THEN Dropped(o, m, 1) ELSE o
           e == [key |-> key, value |-> value, expire |-> expire(lifetime)]
<1>1. k = insert(f, pos, key, value, lifetime)
  BY ONLY k = addNew(l, key, value, lifetime) DEF addNew, linked
<1>2. UseRing(l, S) /\ BucketRings(l, S) /\ Contents(l, S) /\ InOrder(l, S, m, o)
  OBVIOUS
<1>3. /\ Cap \in Nat \ {0} /\ Size \in Nat /\ Cap <= Size /\ m \in Nat /\ m <= Cap
      /\ b \in Pos /\ S \in SUBSET Pos
  BY FreeLRUAssumption DEF Pos
<1>4. m = Cap => pos = o[1] /\ pos \in S /\ 1 \in 1..m /\ n \in Nat
  BY <1>3 DEF freePos, InOrder
<1>5. m # Cap => pos = m
  BY DEF freePos
<1>6. pos \in Pos /\ pos \notin R /\ R \in SUBSET Pos
  BY <1>3, <1>4, <1>5 DEF Pos
<1>7. /\ a = (IF m = Cap THEN evict(l, pos) ELSE l)
      /\ R = (IF m = Cap THEN S \ {pos} ELSE S)
      /\ n = (IF m = Cap THEN m - 1 ELSE m)
      /\ d = (IF m = Cap THEN Dropped(o, m, 1) ELSE o)
      /\ f = linked(a, pos, b, start, last)
  OBVIOUS
<1>8. /\ start = IF empty \/ a.buckets[b] = emptyBucket THEN pos ELSE a.buckets[b]
      /\ last = IF empty THEN pos ELSE a.elements[start].prevBucket
      /\ empty <=> l.buckets[b] = emptyBucket
  OBVIOUS
<1>9. recencyOf(l) = listed(l, m, o)
  BY <1>3, RecencyLists
<1> HIDE DEF pos, a, start, last, f, R, n, d, empty, b, m
<1>10. /\ a \in LRUs /\ a.len = n /\ n \in Nat /\ SameContents(l, a)
       /\ UseRing(a, R) /\ BucketRings(a, R) /\ InOrder(a, R, n, d)
  <2>1. CASE m = Cap
    <3>1. pos \in S
      BY <1>4, <2>1
    <3>2. /\ a.len = m - 1 /\ OutOfUse(l, a, pos)
          /\ a.head = IF pos = l.head THEN l.elements[pos].prev ELSE l.head
      BY ONLY l \in LRUs, <1>6, <1>7, <2>1, EvictEffect DEF m
    <3>3. a \in LRUs /\ SameContents(l, a) /\ UseRing(a, R) /\ BucketRings(a, R)
      BY ONLY l \in LRUs, <1>2, <1>3, <1>7, <2>1, <3>1, EvictRings
    <3>4. InOrder(a, S \ {pos}, m - 1, Dropped(o, m, 1))
      BY ONLY l \in LRUs, <1>2, <1>3, <1>4, <2>1, <3>2, OrderDrops
    <3>5. QED
      BY <1>4, <1>7, <2>1, <3>2, <3>3, <3>4
  <2>2. CASE m # Cap
    BY <1>2, <1>3, <1>7, <2>2 DEF SameContents, m
  <2>3. QED
    BY <2>1, <2>2
<1>11. /\ empty => a.buckets[b] = emptyBucket
       /\ ~empty /\ a.buckets[b] = emptyBucket => a.elements[pos].prevBucket = pos
  <2>1. CASE m = Cap
    <3>1. a = evict(l, pos) /\ pos \in S
      BY <1>4, <1>7, <2>1
    <3>2. QED
      BY ONLY l \in LRUs, <1>2, <1>3, <1>8, <3>1, EvictedBucket
  <2>2. CASE m # Cap
    BY <1>7, <1>8, <2>2
  <2>3. QED
    BY <2>1, <2>2
<1>12. Place(a, b, pos, start, last)
  BY <1>8, <1>11 DEF Place
<1>13. f \in LRUs /\ SameScalars(a, f) /\ SameContents(a, f) /\ SameUse(a, f)
  <2>1. a \in LRUs /\ BucketRings(a, R) /\ f = linked(a, pos, b, start, last)
    BY <1>7, <1>10
  <2>2. QED
    BY ONLY <1>3, <1>6, <1>12, <2>1, LinkBucketRings
<1>14. f.len = n /\ f.head = a.head
  BY <1>10, <1>13 DEF SameScalars
<1>15. UseRing(f, R) /\ InOrder(f, R, n, d)
  BY ONLY <1>6, <1>10, <1>13, <1>14, SameRings, SameOrder
<1>16. recencyOf(k) = Joined(listed(f, n, d), n, e)
  <2>1. f.len \in Nat /\ InOrder(f, R, f.len, d)
    BY <1>10, <1>14, <1>15
  <2>2. key \in Keys /\ value \in Values /\ expire(lifetime) \in Nat
    OBVIOUS
  <2>3. AtEnd(f, k, d, [key |-> key, value |-> value, expire |-> expire(lifetime)])
    BY ONLY <1>1, <1>6, <1>13, <1>15, <2>1, <2>2, InsertRecency, Zenon
  <2>4. QED
    BY <1>14, <2>3 DEF AtEnd
<1>17. listed(f, n, d) = listed(l, n, d)
  <2>1. \A i \in 1..n : d[i] \in Pos
    BY <1>6, <1>15 DEF InOrder
  <2>2. \A i \in 1..n : content(f, d[i]) = content(l, d[i])
    BY <1>10, <1>13, <2>1 DEF SameContents, content
  <2>3. QED
    BY <2>2, ListedSame
<1>18. CASE m = Cap
  <2>1. listed(l, m - 1, Dropped(o, m, 1)) = Dropped(listed(l, m, o), m, 1)
    BY ONLY <1>3, <1>4, <1>18, ListedDropped
  <2>2. QED
    BY <1>7, <1>9, <1>16, <1>17, <1>18, <2>1 DEF m, Added
<1>19. CASE m # Cap
  BY <1>7, <1>9, <1>16, <1>17, <1>19 DEF m, Added
<1>20. QED
  BY <1>18, <1>19

(***************************************************************************)
(* The lists of the entries as the sequences of LRUCache.                  *)
(***************************************************************************)

\* A function on 1..m is a sequence of length m.
LEMMA FunctionIsSeq ==
  ASSUME NEW E, NEW n \in Nat, NEW s \in [1..n -> E]
  PROVE  s \in Seq(E) /\ Len(s) = n
<1>1. s \in Seq(E)
  BY SeqDef, Zenon
<1>2. Len(s) \in Nat /\ DOMAIN s = 1..Len(s) /\ DOMAIN s = 1..n
  BY <1>1, LenProperties
<1>3. Len(s) = n
  <2>1. 1..Len(s) = 1..n
    BY <1>2
  <2>2. Len(s) >= 1 => Len(s) \in 1..n
    BY <1>2, <2>1
  <2>3. n >= 1 => n \in 1..Len(s)
    BY <1>2, <2>1
  <2>4. QED
    BY <1>2, <2>2, <2>3
<1>4. QED
  BY <1>1, <1>3

\* Append, as a list.
LEMMA AppendJoins ==
  ASSUME NEW E, NEW s \in Seq(E), NEW e \in E
  PROVE  Append(s, e) = Joined(s, Len(s), e)
<1>1. Len(s) \in Nat /\ s \in [1..Len(s) -> E]
  BY LenProperties
<1>2. Append(s, e) \in Seq(E) /\ Len(Append(s, e)) = Len(s) + 1
  OBVIOUS
<1>3. \A i \in 1..(Len(s) + 1) : Append(s, e)[i] = IF i = Len(s) + 1 THEN e ELSE s[i]
  BY <1>1
<1>4. Append(s, e) = [i \in 1..(Len(s) + 1) |-> Append(s, e)[i]]
  BY <1>2, LenProperties
<1>5. QED
  BY <1>3, <1>4 DEF Joined

\* A list without its j-th entry is a sequence.
LEMMA DroppedIsSeq ==
  ASSUME NEW E, NEW s \in Seq(E), NEW j \in 1..Len(s)
  PROVE  Dropped(s, Len(s), j) \in Seq(E) /\ Len(Dropped(s, Len(s), j)) = Len(s) - 1
<1> DEFINE d == Dropped(s, Len(s), j)
<1>1. Len(s) - 1 \in Nat /\ s \in [1..Len(s) -> E] /\ Len(s) \in Nat
  BY LenProperties
<1>2. \A i \in 1..(Len(s) - 1) : (IF i < j THEN s[i] ELSE s[i + 1]) \in E
  BY <1>1
<1>3. d \in [1..(Len(s) - 1) -> E]
  BY <1>2 DEF Dropped
<1> HIDE DEF d
<1>4. d \in Seq(E) /\ Len(d) = Len(s) - 1
  BY <1>1, <1>3, FunctionIsSeq
<1>5. QED
  BY <1>4 DEF d

\* RemoveAt, as a list.
LEMMA RemoveAtDrops ==
  ASSUME NEW E, NEW s \in Seq(E), NEW j \in 1..Len(s)
  PROVE  Abstract!RemoveAt(s, j) = Dropped(s, Len(s), j)
<1> DEFINE a == SubSeq(s, 1, j - 1)
           b == SubSeq(s, j + 1, Len(s))
           d == Dropped(s, Len(s), j)
<1>1. Len(s) \in Nat /\ s \in [1..Len(s) -> E]
  BY LenProperties
<1>2. /\ a \in Seq(E) /\ Len(a) = j - 1
      /\ \A i \in 1..(j - 1) : a[i] = s[i]
  <2>1. 1 \in Int /\ j - 1 \in Int /\ \A i \in 1..(j - 1) : s[i] \in E
    BY <1>1
  <2>2. /\ a \in Seq(E) /\ Len(a) = IF 1 <= j - 1 THEN (j - 1) - 1 + 1 ELSE 0
        /\ \A i \in 1..((j - 1) - 1 + 1) : a[i] = s[1 + i - 1]
    BY ONLY <2>1, SubSeqProperties
  <2>3. QED
    BY <1>1, <2>2
<1>3. /\ b \in Seq(E) /\ Len(b) = Len(s) - j
      /\ \A i \in 1..(Len(s) - j) : b[i] = s[j + i]
  <2>1. j + 1 \in Int /\ Len(s) \in Int /\ \A i \in (j + 1)..Len(s) : s[i] \in E
    BY <1>1
  <2>2. /\ b \in Seq(E) /\ Len(b) = IF j + 1 <= Len(s) THEN Len(s) - (j + 1) + 1 ELSE 0
        /\ \A i \in 1..(Len(s) - (j + 1) + 1) : b[i] = s[(j + 1) + i - 1]
    BY ONLY <2>1, SubSeqProperties
  <2>3. QED
    BY <1>1, <2>2
<1> HIDE DEF a, b
<1>4. /\ a \o b \in Seq(E) /\ Len(a \o b) = Len(a) + Len(b)
      /\ \A i \in 1..(Len(a) + Len(b)) : (a \o b)[i] = IF i <= Len(a) THEN a[i] ELSE b[i - Len(a)]
  BY <1>2, <1>3, ConcatProperties
<1>5. Len(a \o b) = Len(s) - 1
  BY <1>1, <1>2, <1>3, <1>4
<1>6. \A i \in 1..(Len(s) - 1) : (a \o b)[i] = IF i < j THEN s[i] ELSE s[i + 1]
  <2> TAKE i \in 1..(Len(s) - 1)
  <2>1. (a \o b)[i] = IF i <= j - 1 THEN a[i] ELSE b[i - (j - 1)]
    BY <1>1, <1>2, <1>3, <1>4
  <2>2. CASE i < j
    BY <1>2, <2>1, <2>2
  <2>3. CASE ~(i < j)
    <3>1. i - (j - 1) \in 1..(Len(s) - j) /\ j + (i - (j - 1)) = i + 1
      BY <1>1, <2>3
    <3>2. QED
      BY <1>3, <2>1, <2>3, <3>1
  <2>4. QED
    BY <2>2, <2>3
<1>7. a \o b = [i \in 1..(Len(s) - 1) |-> (a \o b)[i]]
  BY <1>4, <1>5, LenProperties
<1>8. a \o b = d
  BY <1>6, <1>7 DEF Dropped
<1>9. Abstract!RemoveAt(s, j) = a \o b
  BY DEF Abstract!RemoveAt, a, b
<1>10. QED
  BY <1>8, <1>9

\* Tail, as a list.
LEMMA TailDrops ==
  ASSUME NEW E, NEW s \in Seq(E), Len(s) > 0
  PROVE  Tail(s) = Dropped(s, Len(s), 1)
<1> DEFINE d == Dropped(s, Len(s), 1)
<1>1. Len(s) \in Nat /\ s # <<>> /\ 1 \in 1..Len(s)
  BY EmptySeq, LenProperties
<1>2. Tail(s) \in Seq(E) /\ Len(Tail(s)) = Len(s) - 1 /\ \A i \in 1..Len(Tail(s)) : Tail(s)[i] = s[i + 1]
  BY <1>1, HeadTailProperties
<1>3. d \in Seq(E) /\ Len(d) = Len(s) - 1
  BY <1>1, DroppedIsSeq
<1>4. \A i \in 1..(Len(s) - 1) : d[i] = s[i + 1]
  BY <1>1 DEF Dropped
<1> HIDE DEF d
<1>5. Tail(s) = d
  BY <1>2, <1>3, <1>4, SeqEqual
<1>6. QED
  BY <1>5 DEF d

\* What a sequence of LRUCache has.
Entries == [key: Keys \cup {NoKey}, value: Values \cup {NoValue}, expire: Nat]

\* The invariant gives the list its order.
LEMMA OrderOfUse ==
  ASSUME IInv
  PROVE  \E o : InOrder(lru, Live, lru.len, o)
<1>1. lru.len \in Nat /\ Live \in SUBSET Pos /\ lru \in LRUs /\ UseRing(lru, Live)
  BY LiveInArrays DEF IInv
<1>2. Cardinality(Live) = lru.len
  BY <1>1, Numbers DEF Live
<1>3. QED
  BY <1>1, <1>2, OrderExists

\* The list is a sequence of entries, one for each live element.
LEMMA RecencyIsSeq ==
  ASSUME IInv, NEW o, InOrder(lru, Live, lru.len, o)
  PROVE  /\ Recency = listed(lru, lru.len, o) /\ Recency \in Seq(Entries) /\ Len(Recency) = lru.len
         /\ \A i \in 1..(lru.len) : Recency[i] = content(lru, o[i]) /\ o[i] \in Live
<1>1. lru.len \in Nat /\ Live \in SUBSET Pos /\ lru \in LRUs
  BY LiveInArrays DEF IInv
<1>2. Recency = listed(lru, lru.len, o)
  BY <1>1, RecencyLists DEF Recency
<1>3. \A i \in 1..(lru.len) : o[i] \in Live /\ o[i] \in Pos
  BY <1>1 DEF InOrder
<1>4. \A p \in Pos : content(lru, p) \in Entries
  BY <1>1 DEF content, Entries, LRUs, Element
<1>5. listed(lru, lru.len, o) \in [1..(lru.len) -> Entries]
  BY <1>3, <1>4 DEF listed
<1>6. Recency \in Seq(Entries) /\ Len(Recency) = lru.len
  BY <1>1, <1>2, <1>5, FunctionIsSeq
<1>7. \A i \in 1..(lru.len) : Recency[i] = content(lru, o[i])
  BY <1>2 DEF listed
<1>8. QED
  BY <1>2, <1>3, <1>6, <1>7

\* What LRUCache says of a key that an entry has.
LEMMA KeyThere ==
  ASSUME IInv, NEW key \in Keys, NEW x \in Live, lru.elements[x].key = key
  PROVE  \E o : \E j \in 1..(lru.len) :
           /\ InOrder(lru, Live, lru.len, o) /\ o[j] = x
           /\ Abstract!Cached(key) /\ Abstract!Entry(key) = content(lru, x)
           /\ Abstract!Without(key) = Dropped(Recency, lru.len, j)
<1>1. PICK o : InOrder(lru, Live, lru.len, o)
  BY OrderOfUse
<1>2. PICK j \in 1..(lru.len) : o[j] = x
  BY <1>1, OrderPlace
<1>3. /\ Recency \in Seq(Entries) /\ Len(Recency) = lru.len
      /\ \A i \in 1..(lru.len) : Recency[i] = content(lru, o[i]) /\ o[i] \in Live
  BY <1>1, RecencyIsSeq
<1>4. \A i \in 1..(lru.len) : Recency[i].key = lru.elements[o[i]].key
  <2>1. \A p : content(lru, p).key = lru.elements[p].key
    BY DEF content
  <2>2. QED
    BY <1>3, <2>1
<1>5. Recency[j].key = key
  BY <1>2, <1>4
<1>6. \A i \in 1..(lru.len) : Recency[i].key = key => i = j
  <2> TAKE i \in 1..(lru.len)
  <2> HAVE Recency[i].key = key
  <2>1. lru.elements[o[i]].key = key /\ o[i] \in Live
    BY <1>3, <1>4
  <2>2. o[i] = x
    BY <2>1 DEF IInv, Contents
  <2>3. QED
    BY <1>1, <1>2, <2>2 DEF InOrder
<1>7. Abstract!Index(key) = j
  BY <1>3, <1>5, <1>6 DEF Abstract!Index
<1>8. Abstract!Cached(key)
  BY <1>3, <1>5 DEF Abstract!Cached
<1>9. Abstract!Entry(key) = content(lru, x)
  BY <1>2, <1>3, <1>7 DEF Abstract!Entry
<1>10. Abstract!Without(key) = Dropped(Recency, lru.len, j)
  <2>1. Abstract!Without(key) = Abstract!RemoveAt(Recency, j)
    BY <1>7, <1>8 DEF Abstract!Without
  <2>2. Abstract!RemoveAt(Recency, j) = Dropped(Recency, Len(Recency), j)
    BY <1>3, RemoveAtDrops
  <2>3. QED
    BY <1>3, <2>1, <2>2
<1>11. QED
  BY <1>1, <1>2, <1>8, <1>9, <1>10

\* What LRUCache says of a key that no entry has.
LEMMA KeyNotThere ==
  ASSUME IInv, NEW key \in Keys, Absent(lru, Live, key)
  PROVE  ~Abstract!Cached(key) /\ Abstract!Without(key) = Recency
<1>1. PICK o : InOrder(lru, Live, lru.len, o)
  BY OrderOfUse
<1>2. /\ Len(Recency) = lru.len
      /\ \A i \in 1..(lru.len) : Recency[i] = content(lru, o[i]) /\ o[i] \in Live
  BY <1>1, RecencyIsSeq
<1>3. \A i \in 1..(lru.len) : Recency[i].key # key
  <2>1. \A p : content(lru, p).key = lru.elements[p].key
    BY DEF content
  <2>2. QED
    BY <1>2, <2>1 DEF Absent
<1>4. ~Abstract!Cached(key)
  BY <1>2, <1>3 DEF Abstract!Cached
<1>5. QED
  BY <1>4 DEF Abstract!Without

\* search and what it stands for.
LEMMA SearchSees ==
  ASSUME IInv, NEW key \in Keys
  PROVE  /\ search(lru, key) = emptyBucket => Absent(lru, Live, key)
         /\ search(lru, key) # emptyBucket =>
              search(lru, key) \in Live /\ lru.elements[search(lru, key)].key = key
<1>1. Live \in SUBSET Pos /\ lru \in LRUs /\ BucketRings(lru, Live) /\ Contents(lru, Live)
  BY LiveInArrays DEF IInv
<1>2. /\ (\A p \in Live : lru.elements[p].key # key) => search(lru, key) = emptyBucket
      /\ \A p \in Live : lru.elements[p].key = key => search(lru, key) = p
  BY <1>1, SearchFinds
<1>3. \A p \in Live : p # emptyBucket
  BY <1>1 DEF Pos, emptyBucket
<1>4. QED
  BY <1>2, <1>3 DEF Absent

\* A list that an operation has appended an entry to.
LEMMA RecencyAppends ==
  ASSUME NEW s \in Seq(Entries), NEW j \in 1..Len(s), NEW e \in Entries
  PROVE  Append(Dropped(s, Len(s), j), e) = Joined(Dropped(s, Len(s), j), Len(s) - 1, e)
<1> DEFINE d == Dropped(s, Len(s), j)
<1>1. d \in Seq(Entries) /\ Len(d) = Len(s) - 1
  BY DroppedIsSeq
<1> HIDE DEF d
<1>2. Append(d, e) = Joined(d, Len(d), e)
  BY <1>1, AppendJoins
<1>3. QED
  BY <1>1, <1>2 DEF d

\* An empty LRU stands for an empty cache.
LEMMA InitRefines == Init => Abstract!Init
<1> SUFFICES ASSUME Init PROVE Abstract!Init
  OBVIOUS
<1>1. lru.len = 0 /\ now = 0 /\ reply = [op |-> "none"]
  BY DEF Init, initLRU
<1>2. IInv
  BY InitIInv
<1>3. PICK o : InOrder(lru, Live, lru.len, o)
  BY <1>2, OrderOfUse
<1>4. Recency \in Seq(Entries) /\ Len(Recency) = 0
  BY <1>1, <1>2, <1>3, RecencyIsSeq
<1>5. Recency = <<>>
  BY <1>4, EmptySeq
<1>6. QED
  BY <1>1, <1>5 DEF Abstract!Init, Abstract!NoReply

\* addWithLifetime does what Add of LRUCache says: a key the cache has moves to the end with
\* its new value, a new one joins the end and a full cache loses its first.
LEMMA AddRefines ==
  ASSUME IInv, NEW key \in Keys, NEW value \in Values, NEW lifetime \in Lifetimes,
         AddWithLifetime(key, value, lifetime)
  PROVE  Abstract!Add(key, value, lifetime)
<1> DEFINE pos == search(lru, key)
           m == lru.len
           e == [key |-> key, value |-> value, expire |-> expire(lifetime)]
<1>1. expire(lifetime) \in Nat
  BY FreeLRUAssumption DEF IInv, expire
<1>2. /\ lru \in LRUs /\ Live \in SUBSET Pos /\ m \in Nat /\ m \in 0..Cap /\ Cap \in Nat \ {0}
      /\ UseRing(lru, Live) /\ BucketRings(lru, Live) /\ Contents(lru, Live)
  BY LiveInArrays, FreeLRUAssumption DEF IInv
<1>3. e \in Entries /\ Abstract!Expires(lifetime) = expire(lifetime)
  BY <1>1 DEF Entries, Abstract!Expires, expire
<1>4. /\ lru' = IF pos # emptyBucket THEN update(lru, pos, value, lifetime)
                ELSE addNew(lru, key, value, lifetime)
      /\ reply' = [op |-> "add", evicted |-> pos = emptyBucket /\ lru.len = Cap]
      /\ now' = now
  BY DEF AddWithLifetime
<1>5. Recency' = recencyOf(lru')
  BY DEF Recency
<1>6. Recency = recencyOf(lru)
  BY DEF Recency
<1>7. CASE pos # emptyBucket
  <2>1. pos \in Live /\ lru.elements[pos].key = key
    BY <1>7, SearchSees
  <2>2. PICK o : \E j \in 1..m :
          /\ InOrder(lru, Live, m, o) /\ o[j] = pos
          /\ Abstract!Cached(key) /\ Abstract!Without(key) = Dropped(Recency, m, j)
    BY <2>1, KeyThere
  <2>3. PICK j \in 1..m :
          /\ InOrder(lru, Live, m, o) /\ o[j] = pos
          /\ Abstract!Cached(key) /\ Abstract!Without(key) = Dropped(Recency, m, j)
    BY <2>2
  <2>4. Recency \in Seq(Entries) /\ Len(Recency) = m
    BY <2>3, RecencyIsSeq
  <2>5. recencyOf(lru') = Joined(Dropped(recencyOf(lru), m, j), m - 1, e)
    <3>1. lru' = update(lru, pos, value, lifetime)
      BY <1>4, <1>7
    <3>2. ToEnd(lru, lru', j,
            [key |-> lru.elements[pos].key, value |-> value, expire |-> expire(lifetime)])
      <4>1. /\ lru.len \in Nat /\ InOrder(lru, Live, lru.len, o) /\ j \in 1..(lru.len) /\ pos = o[j]
            /\ value \in Values
        BY <1>2, <2>3
      <4>2. QED
        BY ONLY <1>1, <1>2, <3>1, <4>1, UpdateRecency, Zenon
    <3>3. QED
      BY <2>1, <3>2 DEF ToEnd
  <2>6. Append(Dropped(Recency, m, j), e) = Joined(Dropped(Recency, m, j), m - 1, e)
    BY ONLY <1>3, <2>3, <2>4, RecencyAppends
  <2>7. Recency' = Append(Abstract!Without(key), e)
    BY <1>5, <1>6, <2>3, <2>5, <2>6
  <2>8. QED
    BY <1>3, <1>4, <1>7, <2>3, <2>7 DEF Abstract!Add
<1>8. CASE pos = emptyBucket
  <2>1. Absent(lru, Live, key)
    BY <1>8, SearchSees
  <2>2. ~Abstract!Cached(key) /\ Abstract!Without(key) = Recency
    BY <2>1, KeyNotThere
  <2>3. PICK o : InOrder(lru, Live, m, o)
    BY OrderOfUse
  <2>4. Recency \in Seq(Entries) /\ Len(Recency) = m
    BY <2>3, RecencyIsSeq
  <2>5. /\ m # Cap => recencyOf(lru') = Joined(recencyOf(lru), m, e)
        /\ m = Cap => recencyOf(lru') = Joined(Dropped(recencyOf(lru), m, 1), m - 1, e)
    <3>1. lru' = addNew(lru, key, value, lifetime)
      BY <1>4, <1>8
    <3>2. lru.len \in 0..Cap /\ Live = 0..(lru.len - 1) /\ InOrder(lru, Live, lru.len, o)
      BY <1>2, <2>3 DEF Live
    <3>3. key \in Keys /\ value \in Values /\ lru \in LRUs
      BY <1>2
    <3>4. Added(lru, lru', key, value, expire(lifetime))
      BY ONLY <1>1, <1>2, <3>1, <3>2, <3>3, AddNewRecency, Zenon
    <3>5. QED
      BY <3>4 DEF Added
  <2>6. CASE m # Cap
    <3>1. Recency' = Append(Recency, e)
      BY <1>3, <1>5, <1>6, <2>4, <2>5, <2>6, AppendJoins
    <3>2. QED
      BY <1>3, <1>4, <1>8, <2>2, <2>4, <2>6, <3>1 DEF Abstract!Add
  <2>7. CASE m = Cap
    <3>1. Tail(Recency) = Dropped(Recency, m, 1)
      BY <1>2, <2>4, <2>7, TailDrops
    <3>2. Recency' = Append(Tail(Recency), e)
      BY <1>2, <1>3, <1>5, <1>6, <2>4, <2>5, <2>7, <3>1, RecencyAppends
    <3>3. QED
      BY <1>3, <1>4, <1>8, <2>2, <2>4, <2>7, <3>2 DEF Abstract!Add
  <2>8. QED
    BY <2>6, <2>7
<1>9. QED
  BY <1>7, <1>8

\* A lookup does what Get of LRUCache says: a hit moves its entry to the end, an expired
\* entry is dropped, and the reply is the same.
LEMMA GetRefines ==
  ASSUME IInv, NEW key \in Keys, Get(key)
  PROVE  Abstract!Hit(key) \/ Abstract!Miss(key)
<1> DEFINE pos == search(lru, key)
           m == lru.len
<1>1. /\ lru \in LRUs /\ Live \in SUBSET Pos /\ m \in Nat /\ m \in 0..Cap
      /\ UseRing(lru, Live) /\ BucketRings(lru, Live) /\ Contents(lru, Live)
  BY LiveInArrays DEF IInv
<1>2. now' = now
  BY DEF Get
<1>3. Recency = recencyOf(lru) /\ Recency' = recencyOf(lru')
  BY DEF Recency
<1>4. CASE pos = emptyBucket
  <2>1. lru' = lru /\ reply' = [op |-> "miss", key |-> key]
    BY <1>4 DEF Get
  <2>2. ~Abstract!Cached(key) /\ Abstract!Without(key) = Recency
    BY <1>4, SearchSees, KeyNotThere
  <2>3. Recency' = Recency
    BY <1>3, <2>1
  <2>4. QED
    BY <1>2, <2>1, <2>2, <2>3 DEF Abstract!Miss
<1>5. CASE pos # emptyBucket
  <2>1. pos \in Live /\ lru.elements[pos].key = key
    BY <1>5, SearchSees
  <2>2. PICK o : \E j \in 1..m :
          /\ InOrder(lru, Live, m, o) /\ o[j] = pos
          /\ Abstract!Cached(key) /\ Abstract!Entry(key) = content(lru, pos)
          /\ Abstract!Without(key) = Dropped(Recency, m, j)
    BY <2>1, KeyThere
  <2>3. PICK j \in 1..m :
          /\ InOrder(lru, Live, m, o) /\ o[j] = pos
          /\ Abstract!Cached(key) /\ Abstract!Entry(key) = content(lru, pos)
          /\ Abstract!Without(key) = Dropped(Recency, m, j)
    BY <2>2
  <2>4. /\ Recency \in Seq(Entries) /\ Len(Recency) = m /\ content(lru, pos) \in Entries
    <3>1. /\ Recency \in Seq(Entries) /\ Len(Recency) = m
          /\ \A i \in 1..m : Recency[i] = content(lru, o[i])
      BY <2>3, RecencyIsSeq
    <3>2. QED
      BY <2>3, <3>1
  <2>5. /\ content(lru, pos).value = lru.elements[pos].value
        /\ content(lru, pos).expire = lru.elements[pos].expire
    BY DEF content
  <2>6. Abstract!Expired(Abstract!Entry(key)) <=> expired(lru.elements[pos])
    BY <2>3, <2>5 DEF Abstract!Expired, expired
  <2>7. CASE expired(lru.elements[pos])
    <3>1. lru' = removeAt(lru, pos) /\ reply' = [op |-> "miss", key |-> key]
      BY <1>5, <2>7 DEF Get
    <3>2. recencyOf(lru') = Dropped(recencyOf(lru), m, j)
      <4>1. /\ lru.len \in 1..Cap /\ UseRing(lru, 0..(lru.len - 1)) /\ BucketRings(lru, 0..(lru.len - 1))
            /\ Contents(lru, 0..(lru.len - 1)) /\ InOrder(lru, 0..(lru.len - 1), lru.len, o)
        BY <1>1, <2>3 DEF Live
      <4>2. QED
        BY ONLY <1>1, <2>3, <3>1, <4>1, RemoveRecency, Zenon
    <3>3. Recency' = Abstract!Without(key)
      BY <1>3, <2>3, <3>2
    <3>4. QED
      BY <1>2, <2>6, <2>7, <3>1, <3>3 DEF Abstract!Miss
  <2>8. CASE ~expired(lru.elements[pos])
    <3>1. /\ lru' = use(lru, pos)
          /\ reply' = [op |-> "hit", key |-> key, value |-> lru.elements[pos].value]
      BY <1>5, <2>8 DEF Get
    <3>2. ToEnd(lru, lru', j, content(lru, pos))
      <4>1. lru.len \in Nat /\ InOrder(lru, Live, lru.len, o) /\ j \in 1..(lru.len) /\ pos = o[j]
        BY <1>1, <2>3
      <4>2. QED
        BY ONLY <1>1, <3>1, <4>1, UseRecency, Zenon
    <3>3. Append(Dropped(Recency, m, j), content(lru, pos)) =
            Joined(Dropped(Recency, m, j), m - 1, content(lru, pos))
      BY ONLY <2>3, <2>4, RecencyAppends
    <3>4. Recency' = Append(Abstract!Without(key), Abstract!Entry(key))
      BY <1>3, <2>3, <3>2, <3>3 DEF ToEnd
    <3>5. QED
      BY <1>2, <2>3, <2>5, <2>6, <2>8, <3>1, <3>4 DEF Abstract!Hit
  <2>9. QED
    BY <2>7, <2>8
<1>6. QED
  BY <1>4, <1>5

\* Every step of the LRU is a step of LRUCache or leaves what it stands for alone.
LEMMA NextRefines == IInv /\ [Next]_vars => [Abstract!Next]_(Abstract!vars)
<1> SUFFICES ASSUME IInv, [Next]_vars PROVE [Abstract!Next]_(Abstract!vars)
  OBVIOUS
<1>1. ASSUME NEW key \in Keys, NEW value \in Values, NEW lifetime \in Lifetimes,
             AddWithLifetime(key, value, lifetime)
      PROVE  Abstract!Next
  BY <1>1, AddRefines DEF Abstract!Next
<1>2. ASSUME NEW key \in Keys, Get(key) PROVE Abstract!Next
  BY <1>2, GetRefines DEF Abstract!Next
<1>3. ASSUME NEW t \in 0..MaxNow, SetClock(t) PROVE Abstract!Next
  <2>1. Recency' = Recency
    BY <1>3 DEF SetClock, Recency
  <2>2. Abstract!SetClock(t)
    BY <1>3, <2>1 DEF SetClock, Abstract!SetClock
  <2>3. QED
    BY <2>2 DEF Abstract!Next
<1>4. CASE UNCHANGED vars
  <2>1. Recency' = Recency
    BY <1>4 DEF vars, Recency
  <2>2. QED
    BY <1>4, <2>1 DEF vars, Abstract!vars
<1>5. QED
  BY <1>1, <1>2, <1>3, <1>4 DEF Next

\* lru.go implements LRUCache, for any capacity, array length, hash, keys, values and
\* lifetimes: with the rings read from the oldest entry to the head, an add is an append that
\* drops the first of a full cache, a hit moves its entry to the end, an expired entry
\* vanishes when it is looked up, and every call returns what the abstract cache returns.
\* Nothing in the arrays, the hash or the compaction of removeAt shows.
THEOREM ImplementsLRUCache == Spec => Refines
<1>1. Init => Abstract!Init
  BY InitRefines
<1>2. IInv /\ [Next]_vars => [Abstract!Next]_(Abstract!vars)
  BY NextRefines
<1>3. QED
  BY <1>1, <1>2, Inductive, PTL DEF Spec, Refines, Abstract!Spec
====
