---- MODULE IPPool ----
(***************************************************************************)
(* internal/core/ippool.go: a pool probes its IPs again and again, keeps   *)
(* the best ones with a weight each, and hands one of them (or, with       *)
(* multi, all of them) to whoever calls Get, by weighted round robin.      *)
(*                                                                         *)
(* A scan runs one goroutine per IP, at most Concurrency of them at a      *)
(* time.  A caller of Get copies the pool's answer under the read lock and *)
(* chooses from its copy later, when the pool may have been updated.       *)
(***************************************************************************)
EXTENDS Integers, Sequences, FiniteSets, FiniteSetsExt

CONSTANTS
  IPs,           \* indexes of p.ips, an interval 1..n
  TopCount,      \* topIPCount; the default may exceed the number of IPs
  Attempts,      \* dials per IP and scan
  Measured(_),   \* what a test of an IP can measure: failed dials, average latency
  Scale, MaxWeight,   \* weightScaleFactor, maxWeight
  Concurrency,   \* capacity of sem
  CounterSize,   \* the counter is taken modulo this, 2^32 in the code
  Options,       \* wait_scan_on_startup, multi and the width of int to consider
  Getters        \* goroutines that call Get

ASSUME IPPoolAssumption ==
  /\ IsFiniteSet(IPs) /\ IPs = 1..Cardinality(IPs) /\ IPs # {}
  /\ TopCount \in Nat \ {0} /\ Attempts \in Nat \ {0} /\ Concurrency \in Nat \ {0}
  /\ \A i \in IPs : Measured(i) \subseteq [fails: 0..(Attempts - 1), latency: Nat]
  /\ Scale \in Nat /\ MaxWeight \in Nat \ {0}
  /\ CounterSize \in Nat \ {0} /\ Options \subseteq [wait: BOOLEAN, multi: BOOLEAN, narrow: BOOLEAN]

VARIABLES
  wait,      \* waitScanOnStartUp
  multi,     \* option multi
  narrow,    \* a 32-bit build: int is as wide as the counter
  serving,   \* Build has returned
  scan,      \* "start", "first" (the first scan), "testing" (a later one), "idle"
  test,      \* each IP's goroutine: "none", "queued" on sem, "testing", "done"
  results,   \* the channel of results, in the order they arrive
  best,      \* bestIndexes, bestWeights, totalWeight, curValidIPs
  valid,     \* history: the valid results best was made from
  counter,   \* atomic counter of Get
  snap       \* each caller's copy of best, or none

poolVars == <<wait, multi, narrow, serving, scan, test, results, best, valid, counter, snap>>
getVars == <<counter, snap>>
scanVars == <<scan, test, results>>
options == <<wait, multi, narrow>>

\* What a test can measure; without a success there is no latency.
Result(i) ==
  {[ip |-> i, fails |-> m.fails, latency |-> m.latency] :
     m \in Measured(i) \cup {[fails |-> Attempts, latency |-> 0]}}

noBest == [indexes |-> [i \in 1..TopCount |-> 1], weights |-> [i \in 1..TopCount |-> 0],
           total |-> 0, valid |-> 0]
noSnap == [best |-> noBest, usable |-> {}, taken |-> FALSE]

\* The IPs that answered in the scan best was made from.
usable == {r.ip : r \in valid}

PoolTypeOK ==
  /\ {wait, multi, narrow, serving} \subseteq BOOLEAN
  /\ scan \in {"start", "first", "testing", "idle"}
  /\ test \in [IPs -> {"none", "queued", "testing", "done"}]
  /\ \A i \in 1..Len(results) : results[i] \in Result(results[i].ip)
  /\ Cardinality({i \in IPs : test[i] = "testing"}) <= Concurrency
  /\ best.indexes \in [1..TopCount -> IPs] /\ best.weights \in [1..TopCount -> 0..MaxWeight]
  /\ best.total \in Nat /\ best.valid \in 0..TopCount
  /\ valid \subseteq UNION {Result(i) : i \in IPs}
  /\ counter \in 0..(CounterSize - 1)
  /\ \A g \in Getters : snap[g].taken => ~multi

PoolInit ==
  /\ \E o \in Options : wait = o.wait /\ multi = o.multi /\ narrow = o.narrow
  /\ serving = FALSE
  /\ scan = "start" /\ test = [i \in IPs |-> "none"] /\ results = <<>>
  /\ best = noBest /\ valid = {}
  /\ counter = 0
  /\ snap = [g \in Getters |-> noSnap]

----
\* start: with wait_scan_on_startup the server is built only after the first scan.
Serve ==
  /\ ~serving /\ (wait => scan \in {"testing", "idle"})
  /\ serving' = TRUE
  /\ UNCHANGED <<options, scan, test, results, best, valid, getVars>>

\* scan: the first one at start, the others on the monitor's tick.
ScanStart ==
  /\ scan \in {"start", "idle"}
  /\ scan' = IF scan = "start" THEN "first" ELSE "testing"
  /\ test' = [i \in IPs |-> "queued"] /\ results' = <<>>
  /\ UNCHANGED <<options, serving, best, valid, getVars>>

\* A test goroutine gets its place in sem.
TestStart(i) ==
  /\ test[i] = "queued"
  /\ Cardinality({j \in IPs : test[j] = "testing"}) < Concurrency
  /\ test' = [test EXCEPT ![i] = "testing"]
  /\ UNCHANGED <<options, serving, scan, results, best, valid, getVars>>

\* Mutant of testIP: a test without a success leaves without its result.
testIPNoResult(i) ==
  /\ test[i] = "testing"
  /\ \E r \in Result(i) :
       /\ results' = IF r.fails < Attempts THEN Append(results, r) ELSE results
       /\ test' = [test EXCEPT ![i] = IF r.fails < Attempts THEN "done" ELSE "none"]
  /\ UNCHANGED <<options, serving, scan, best, valid, getVars>>

\* testIP: some of the attempts fail, the others have an average latency; the
\* result is sent and the place given back.
testIP(i) ==
  /\ test[i] = "testing"
  /\ \E r \in Result(i) : results' = Append(results, r)
  /\ test' = [test EXCEPT ![i] = "done"]
  /\ UNCHANGED <<options, serving, scan, best, valid, getVars>>

\* The order of updateBest: by loss, then by latency.
Better(a, b) == a.fails < b.fails \/ (a.fails = b.fails /\ a.latency < b.latency)

\* slices.SortStableFunc
Sorted(s) ==
  LET before(i, j) == Better(s[i], s[j]) \/ (~Better(s[j], s[i]) /\ i < j)
      rank(j) == Cardinality({i \in 1..Len(s) : before(i, j)})
  IN [i \in 1..Len(s) |-> s[CHOOSE j \in 1..Len(s) : rank(j) = i - 1]]

\* Mutant of Weight: the lower clamp is missing.
WeightNoMin(r) ==
  LET d == r.latency * (Attempts + r.fails)
  IN IF d = 0 THEN MaxWeight ELSE Min({MaxWeight, (Scale * Attempts) \div d})

\* The weight of a result: Scale / (latency * (1 + loss)), clamped to 1..MaxWeight.
Weight(r) ==
  LET d == r.latency * (Attempts + r.fails)
  IN IF d = 0 THEN MaxWeight ELSE Max({1, Min({MaxWeight, (Scale * Attempts) \div d})})

\* The sum of the first n weights.
Total(weights, n) ==
  LET acc[i \in 0..n] == IF i = 0 THEN 0 ELSE acc[i - 1] + weights[i] IN acc[n]

\* Mutant of updateBest: a shorter list keeps the old number of entries.
updateBestKeepValid(ok) ==
  LET sorted == Sorted(ok)
      n == Min({TopCount, Len(sorted)})
      weights == [i \in 1..TopCount |-> IF i <= n THEN Weight(sorted[i]) ELSE 0]
  IN [indexes |-> [i \in 1..TopCount |-> IF i <= n THEN sorted[i].ip ELSE best.indexes[i]],
      weights |-> weights, total |-> Total(weights, n), valid |-> Max({n, best.valid})]

\* Mutant of updateBest: the results are not sorted.
updateBestUnsorted(ok) ==
  LET n == Min({TopCount, Len(ok)})
      weights == [i \in 1..TopCount |-> IF i <= n THEN Weight(ok[i]) ELSE 0]
  IN [indexes |-> [i \in 1..TopCount |-> IF i <= n THEN ok[i].ip ELSE best.indexes[i]],
      weights |-> weights, total |-> Total(weights, n), valid |-> n]

\* updateBest of a non-empty list; it runs under the write lock.
updateBest(ok) ==
  LET sorted == Sorted(ok)
      n == Min({TopCount, Len(sorted)})
      weights == [i \in 1..TopCount |-> IF i <= n THEN Weight(sorted[i]) ELSE 0]
  IN [indexes |-> [i \in 1..TopCount |-> IF i <= n THEN sorted[i].ip ELSE best.indexes[i]],
      weights |-> weights, total |-> Total(weights, n), valid |-> n]

\* The results with a success, in the order they arrived.
Reached(s) ==
  LET acc[i \in 0..Len(s)] ==
        IF i = 0 THEN <<>>
        ELSE IF s[i].fails < Attempts THEN Append(acc[i - 1], s[i]) ELSE acc[i - 1]
  IN acc[Len(s)]

\* wg.Wait is over: the IPs that lost every attempt are dropped, and a scan that
\* reached none leaves the pool as it was.
ScanEnd ==
  /\ scan \in {"first", "testing"} /\ \A i \in IPs : test[i] = "done"
  /\ scan' = "idle"
  /\ test' = [i \in IPs |-> "none"] /\ results' = <<>>
  /\ \E ok \in {Reached(results)} :
       IF ok = <<>> THEN UNCHANGED <<best, valid>>
       ELSE /\ best' = updateBest(ok)
            /\ valid' = {r \in {results[i] : i \in 1..Len(results)} : r.fails < Attempts}
  /\ UNCHANGED <<options, serving, getVars>>

----
\* What Get returns without a choice: the fallback (no IP of the pool) of a pool that has
\* no best IP, all of them with multi.
AnswerAll == {best.indexes[i] : i \in 1..best.valid}

\* Get under the read lock: the answer for an empty or a multi pool, else a copy.
GetCopy(g) ==
  /\ serving /\ ~snap[g].taken
  /\ IF best.valid = 0 \/ multi THEN UNCHANGED snap
     ELSE snap' = [snap EXCEPT ![g] = [best |-> best, usable |-> usable, taken |-> TRUE]]
  /\ UNCHANGED <<options, serving, scanVars, best, valid, counter>>

\* The entry whose share of 0..total-1 holds target, 0 if the loop falls through.
Pick(b, target) ==
  LET past == {i \in 1..b.valid : Total(b.weights, i) > target}
  IN IF past = {} THEN 0 ELSE Min(past)

\* int(current): on a 32-bit build the upper half of the counter is negative.
int(c) == IF narrow /\ 2 * c >= CounterSize THEN c - CounterSize ELSE c

\* Go's remainder has the sign of the dividend.
Rem(a, n) == IF a >= 0 THEN a % n ELSE -((-a) % n)

\* What Get returns from a copy: one IP, or the fallback if the loop falls through.
AnswerOne(b, c) ==
  LET k == Pick(b, Rem(int(c), b.total)) IN IF k = 0 THEN {} ELSE {b.indexes[k]}

\* Get after the lock: counter.Add(1) - 1, and the answer for it.
GetPick(g) ==
  /\ snap[g].taken
  /\ counter' = (counter + 1) % CounterSize
  /\ snap' = [snap EXCEPT ![g] = noSnap]
  /\ UNCHANGED <<options, serving, scanVars, best, valid>>

Scanner == ScanEnd \/ \E i \in IPs : TestStart(i) \/ testIP(i)

PoolNext ==
  \/ Serve \/ ScanStart \/ Scanner
  \/ \E g \in Getters : GetCopy(g) \/ GetPick(g)

PoolSpec == PoolInit /\ [][PoolNext]_poolVars

\* The scan's goroutines run and every dial ends by its timeout; Build goes on.
PoolFairSpec == PoolSpec /\ WF_poolVars(Scanner) /\ WF_poolVars(Serve) /\ WF_poolVars(scan = "start" /\ ScanStart)

----
\* In the pool and in every copy a caller holds, weights, count and total are those of
\* one and the same update: over a full turn each entry is picked as often as its weight
\* says, and at least once; the modulus of Get is not zero; and a target below zero, as
\* a 32-bit build computes it, still finds an entry.
FairShare ==
  \A b \in {best} \cup {snap[g].best : g \in {h \in Getters : snap[h].taken}} :
    /\ \A i \in 1..b.valid :
         LET share == Cardinality({t \in 0..(b.total - 1) : Pick(b, t) = i})
         IN share = b.weights[i] /\ share >= 1
    /\ b = noBest \/ (b.total > 0 /\ \A t \in (1 - b.total)..(b.total - 1) : Pick(b, t) # 0)

\* Get never hands out an IP that did not answer in the scan behind its copy, and
\* falls back only when no scan has reached any IP, never because of an update
\* between the copy and the choice.
AnswersUsable ==
  /\ AnswerAll \subseteq usable /\ (AnswerAll = {} => usable = {})
  /\ \A g \in Getters : snap[g].taken =>
       LET a == AnswerOne(snap[g].best, counter) IN a # {} /\ a \subseteq snap[g].usable

\* Besides the types: the kept IPs are the best of their scan: none is left out for one that lost
\* more or was slower, and no place is left empty while an IP answered.
KeepsTheBest ==
  LET kept == {best.indexes[i] : i \in 1..best.valid} IN
  /\ PoolTypeOK
  /\ Cardinality(kept) = Min({TopCount, Cardinality(valid)})
  /\ \A a, b \in valid : (a.ip \in kept /\ b.ip \notin kept) => ~Better(b, a)

\* Every scan ends, whatever the order in which its goroutines get into sem, and with
\* it the start of the server, which may be waiting for the first one.
ScanEnds == (~serving \/ scan # "idle") ~> (serving /\ scan = "idle")
====
