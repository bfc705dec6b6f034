---- MODULE SingleFlightProofs ----
(***************************************************************************)
(* Proofs of the safety properties of SingleFlight for any goroutines, any *)
(* keys and any number of calls of Do.                                     *)
(***************************************************************************)
EXTENDS SingleFlight, TLAPS

\* Goroutines whose call is the entry of their key in the map.
Leading == {"fn", "defer", "delete"}

\* Each goroutine inside Do has an invocation of its own that has not ended.
OwnInvocation ==
  /\ \A p \in Procs : pc[p] # "idle" =>
       inv[p] \in Calls /\ inv[p] <= n /\ ret[inv[p]].call = NoCall
  /\ \A p, q \in Procs : (pc[p] # "idle" /\ pc[q] # "idle" /\ inv[p] = inv[q]) => p = q

\* Invocations not made yet have left no trace.
Untouched ==
  \A c \in Calls : c > n =>
    /\ wg[c] = 0 /\ out[c] = "zero" /\ dups[c] = 0 /\ ret[c].call = NoCall
    /\ \A p \in Procs : cur[p] # c

\* The map and the goroutines running a flight agree with each other.
LeaderCur == \A p \in Procs : pc[p] \in Leading \cup {"return"} => cur[p] = inv[p]

LeaderEntry == \A p \in Procs : pc[p] \in Leading => m[arg[inv[p]]] = inv[p]

EntryLeader ==
  \A k \in Keys : m[k] # NoCall =>
    /\ arg[m[k]] = k
    /\ \E p \in Procs : pc[p] \in Leading /\ inv[p] = m[k]

MutexHolder == \A p \in Procs : mu = p <=> pc[p] = "delete"

\* Where a flight is, told from its call object.
NotStarted ==
  \A p \in Procs : pc[p] \in {"lock", "wait"} =>
    wg[inv[p]] = 0 /\ out[inv[p]] = "zero" /\ dups[inv[p]] = 0

Flying ==
  \A p \in Procs :
    /\ pc[p] = "fn" => wg[inv[p]] = 1 /\ out[inv[p]] = "zero"
    /\ pc[p] = "defer" => wg[inv[p]] = 1 /\ out[inv[p]] # "zero"
    /\ pc[p] \in {"delete", "return"} => Over(inv[p])

DupsCounted == \A c \in Calls : dups[c] > 0 <=> Joined(c)

\* What a goroutine in wg.Wait waits for.
Waiting ==
  \A p \in Procs : pc[p] = "wait" =>
    /\ cur[p] \in Calls /\ cur[p] # inv[p]
    /\ arg[cur[p]] = arg[inv[p]]
    /\ cur[p] \notin before[inv[p]]
    /\ wg[cur[p]] = 1 \/ out[cur[p]] # "zero"

PastIsOver == \A i \in Calls : \A c \in before[i] : Over(c) /\ c < i

\* The leader's flag is what it read from dups.
FlagIsDups ==
  \A i \in Calls : (ret[i].call = i /\ out[i] = "return") =>
    (ret[i].shared <=> dups[i] > 0)

IInv ==
  /\ TypeOK /\ OwnInvocation /\ Untouched
  /\ LeaderCur /\ LeaderEntry /\ EntryLeader /\ MutexHolder
  /\ NotStarted /\ Flying /\ DupsCounted /\ Waiting /\ PastIsOver
  /\ OutcomeOfOwnKey /\ FreshFlight /\ FlagIsDups

\* A Group that was never used satisfies the inductive invariant.
LEMMA InitIInv == Init => IInv
  BY SingleFlightAssumption
  DEF Init, IInv, TypeOK, OwnInvocation, Untouched, LeaderCur, LeaderEntry, EntryLeader,
      MutexHolder, NotStarted, Flying, DupsCounted, Waiting, PastIsOver, OutcomeOfOwnKey,
      FreshFlight, FlagIsDups, Joined, Over, NoReturn, Leading, Calls, NoCall

\* A caller that enters Do and takes the mutex keeps the invariant.
LEMMA DoIInv ==
  ASSUME IInv, NEW p \in Procs, NEW k \in Keys, Do(p, k)
  PROVE  IInv'
<1> USE SingleFlightAssumption DEF Do, Goto, IInv, Calls, NoCall, Leading
<1>1. TypeOK'
  BY DEF TypeOK, OwnInvocation, LeaderCur, Waiting, NotStarted, Flying
<1>2. OwnInvocation'
  BY DEF OwnInvocation, TypeOK, Untouched
<1>3. Untouched'
  BY DEF Untouched, TypeOK, OwnInvocation, LeaderCur, EntryLeader
<1>4. LeaderCur'
  BY DEF LeaderCur, TypeOK, OwnInvocation
<1>5. LeaderEntry'
  BY DEF LeaderEntry, TypeOK, OwnInvocation, EntryLeader, LeaderCur
<1>6. EntryLeader'
  <2> SUFFICES ASSUME NEW kk \in Keys, m[kk] # NoCall
               PROVE  /\ arg'[m[kk]] = kk
                      /\ \E q \in Procs : pc'[q] \in Leading /\ inv'[q] = m[kk]
    BY DEF EntryLeader
  <2>1. PICK q \in Procs : pc[q] \in Leading /\ inv[q] = m[kk]
    BY DEF EntryLeader
  <2>2. q # p /\ m[kk] # n + 1 /\ arg[m[kk]] = kk
    BY <2>1 DEF EntryLeader, OwnInvocation, TypeOK
  <2> QED
    BY <2>1, <2>2 DEF TypeOK
<1>7. MutexHolder'
  BY DEF MutexHolder, TypeOK
<1>8. NotStarted'
  BY DEF NotStarted, TypeOK, OwnInvocation, Untouched, Flying, EntryLeader, LeaderCur
<1>9. Flying'
  BY DEF Flying, TypeOK, OwnInvocation, NotStarted, LeaderCur, Over
<1>10. DupsCounted'
  BY ZenonT(40) DEF DupsCounted, TypeOK, OwnInvocation, Untouched, LeaderCur, Joined, Waiting
<1>11. Waiting'
  <2> SUFFICES ASSUME NEW q \in Procs, pc'[q] = "wait"
               PROVE  Waiting!(q)'
    BY DEF Waiting
  <2>1. pc[q] = "wait" /\ q # p
    BY DEF TypeOK
  <2>2. n + 1 \in Calls /\ cur[q] # n + 1 /\ inv[q] # n + 1 /\ inv[q] \in Calls
    BY <2>1 DEF TypeOK, OwnInvocation, Untouched
  <2> QED
    BY <2>1, <2>2 DEF TypeOK, Waiting
<1>12. PastIsOver'
  BY DEF PastIsOver, TypeOK, OwnInvocation, Untouched, LeaderCur, NotStarted, Flying, Over
<1>13. OutcomeOfOwnKey'
  BY DEF OutcomeOfOwnKey, TypeOK, OwnInvocation, Untouched, LeaderCur, Flying, DupsCounted, Joined, Waiting, Over
<1>14. FreshFlight'
  BY DEF FreshFlight, TypeOK, OwnInvocation, Untouched, LeaderCur, Flying, Waiting, PastIsOver, Over
<1>15. FlagIsDups'
  BY DEF FlagIsDups, TypeOK, OwnInvocation, Untouched, LeaderCur, EntryLeader, Waiting, Flying, Over
<1> QED
  BY <1>1, <1>2, <1>3, <1>4, <1>5, <1>6, <1>7, <1>8, <1>9, <1>10, <1>11, <1>12, <1>13, <1>14, <1>15

\* A caller that finds a call of its key and joins it keeps the invariant.
LEMMA DoJoinIInv ==
  ASSUME IInv, NEW p \in Procs, DoJoin(p)
  PROVE  IInv'
<1> USE SingleFlightAssumption DEF DoJoin, Goto, IInv, Calls, NoCall, Leading
<1>1. TypeOK'
  <2>1. m[arg[inv[p]]] \in Calls
    BY DEF TypeOK, OwnInvocation
  <2> QED
    BY <2>1, SMTT(30) DEF TypeOK
<1>2. OwnInvocation'
  BY DEF OwnInvocation, TypeOK, Untouched
<1>3. Untouched'
  BY DEF Untouched, TypeOK, OwnInvocation, LeaderCur, EntryLeader
<1>4. LeaderCur'
  BY DEF LeaderCur, TypeOK, OwnInvocation
<1>5. LeaderEntry'
  BY DEF LeaderEntry, TypeOK, OwnInvocation, EntryLeader, LeaderCur
<1>6. EntryLeader'
  BY DEF EntryLeader, TypeOK, OwnInvocation, LeaderEntry, LeaderCur
<1>7. MutexHolder'
  BY DEF MutexHolder, TypeOK
<1>8. NotStarted'
  <2>1. m[arg[inv[p]]] \in Calls /\ arg[inv[p]] \in Keys
    BY DEF TypeOK, OwnInvocation
  <2>2. PICK l \in Procs : pc[l] \in Leading /\ inv[l] = m[arg[inv[p]]]
    BY <2>1 DEF EntryLeader
  <2>3. \A q \in Procs : pc'[q] \in {"lock", "wait"} =>
          pc[q] \in {"lock", "wait"} /\ inv[q] # m[arg[inv[p]]]
    BY <2>2 DEF TypeOK, OwnInvocation
  <2> QED
    BY <2>1, <2>3 DEF TypeOK, OwnInvocation, NotStarted
<1>9. Flying'
  BY DEF Flying, TypeOK, OwnInvocation, NotStarted, LeaderCur, Over
<1>10. DupsCounted'
  <2>1. m[arg[inv[p]]] \in Calls
    BY DEF TypeOK, OwnInvocation
  <2>2. \A c \in Calls : Joined(c)' <=> Joined(c) \/ c = m[arg[inv[p]]]
    BY <2>1 DEF TypeOK, Joined
  <2> QED
    BY <2>1, <2>2 DEF TypeOK, DupsCounted
<1>11. Waiting'
  BY DEF Waiting, TypeOK, OwnInvocation, Untouched, EntryLeader, MutexHolder, NotStarted, Flying, PastIsOver, LeaderCur, Over
<1>12. PastIsOver'
  BY DEF PastIsOver, TypeOK, OwnInvocation, LeaderCur, NotStarted, Flying, Over
<1>13. OutcomeOfOwnKey'
  BY DEF OutcomeOfOwnKey, TypeOK, OwnInvocation, Untouched, LeaderCur, Flying, DupsCounted, Joined, Waiting, Over
<1>14. FreshFlight'
  BY DEF FreshFlight, TypeOK, OwnInvocation, Untouched, LeaderCur, Flying, Waiting, PastIsOver, Over
<1>15. FlagIsDups'
  <2>1. m[arg[inv[p]]] \in Calls /\ arg[inv[p]] \in Keys
    BY DEF TypeOK, OwnInvocation
  <2>2. PICK l \in Procs : pc[l] \in Leading /\ inv[l] = m[arg[inv[p]]]
    BY <2>1 DEF EntryLeader
  <2>3. ret[m[arg[inv[p]]]].call = NoCall
    BY <2>2 DEF OwnInvocation
  <2> QED
    BY <2>1, <2>3 DEF TypeOK, FlagIsDups
<1> QED
  BY <1>1, <1>2, <1>3, <1>4, <1>5, <1>6, <1>7, <1>8, <1>9, <1>10, <1>11, <1>12, <1>13, <1>14, <1>15

\* A caller that finds none and starts a flight keeps the invariant.
LEMMA DoStartIInv ==
  ASSUME IInv, NEW p \in Procs, DoStart(p)
  PROVE  IInv'
<1> USE SingleFlightAssumption DEF DoStart, Goto, IInv, Calls, NoCall, Leading
<1>1. TypeOK'
  BY SMTT(30) DEF TypeOK, OwnInvocation, LeaderCur, Waiting, NotStarted, Flying
<1>2. OwnInvocation'
  BY DEF OwnInvocation, TypeOK, Untouched
<1>3. Untouched'
  BY DEF Untouched, TypeOK, OwnInvocation, LeaderCur, EntryLeader
<1>4. LeaderCur'
  BY DEF LeaderCur, TypeOK, OwnInvocation
<1>5. LeaderEntry'
  BY DEF LeaderEntry, TypeOK, OwnInvocation, EntryLeader, LeaderCur
<1>6. EntryLeader'
  BY DEF EntryLeader, TypeOK, OwnInvocation, LeaderEntry, LeaderCur
<1>7. MutexHolder'
  BY DEF MutexHolder, TypeOK
<1>8. NotStarted'
  BY DEF NotStarted, TypeOK, OwnInvocation, Untouched, Flying, EntryLeader, LeaderCur
<1>9. Flying'
  BY DEF Flying, TypeOK, OwnInvocation, NotStarted, LeaderCur, Over
<1>10. DupsCounted'
  <2>1. \A c \in Calls : Joined(c)' <=> Joined(c)
    BY DEF TypeOK, Joined
  <2> QED
    BY <2>1 DEF TypeOK, DupsCounted
<1>11. Waiting'
  BY DEF Waiting, TypeOK, OwnInvocation, Untouched, EntryLeader, MutexHolder, NotStarted, Flying, PastIsOver, LeaderCur, Over
<1>12. PastIsOver'
  BY DEF PastIsOver, TypeOK, OwnInvocation, LeaderCur, NotStarted, Flying, Over
<1>13. OutcomeOfOwnKey'
  BY DEF OutcomeOfOwnKey, TypeOK, OwnInvocation, Untouched, LeaderCur, Flying, DupsCounted, Joined, Waiting, Over
<1>14. FreshFlight'
  BY DEF FreshFlight, TypeOK, OwnInvocation, Untouched, LeaderCur, Flying, Waiting, PastIsOver, Over
<1>15. FlagIsDups'
  BY DEF FlagIsDups, TypeOK, OwnInvocation, Untouched, LeaderCur, EntryLeader, Waiting, Flying, Over
<1> QED
  BY <1>1, <1>2, <1>3, <1>4, <1>5, <1>6, <1>7, <1>8, <1>9, <1>10, <1>11, <1>12, <1>13, <1>14, <1>15

\* fn returning, panicking or calling Goexit keeps the invariant.
LEMMA FnIInv ==
  ASSUME IInv, NEW p \in Procs, NEW o \in Outcomes, Fn(p, o)
  PROVE  IInv'
<1> USE SingleFlightAssumption DEF Fn, Goto, IInv, Outcomes, Calls, NoCall, Leading
<1>1. TypeOK'
  BY DEF TypeOK, OwnInvocation, LeaderCur, Waiting, NotStarted, Flying
<1>2. OwnInvocation'
  BY DEF OwnInvocation, TypeOK, Untouched
<1>3. Untouched'
  BY DEF Untouched, TypeOK, OwnInvocation, LeaderCur, EntryLeader
<1>4. LeaderCur'
  BY DEF LeaderCur, TypeOK, OwnInvocation
<1>5. LeaderEntry'
  BY DEF LeaderEntry, TypeOK, OwnInvocation, EntryLeader, LeaderCur
<1>6. EntryLeader'
  BY DEF EntryLeader, TypeOK, OwnInvocation, LeaderEntry, LeaderCur
<1>7. MutexHolder'
  BY DEF MutexHolder, TypeOK
<1>8. NotStarted'
  BY DEF NotStarted, TypeOK, OwnInvocation, Untouched, Flying, EntryLeader, LeaderCur
<1>9. Flying'
  BY DEF Flying, TypeOK, OwnInvocation, NotStarted, LeaderCur, Over
<1>10. DupsCounted'
  <2>1. \A q \in Procs : pc'[q] = "wait" <=> pc[q] = "wait"
    BY DEF TypeOK
  <2>2. \A c \in Calls : Joined(c)' <=> Joined(c)
    BY <2>1 DEF Joined
  <2> QED
    BY <2>2 DEF DupsCounted
<1>11. Waiting'
  BY DEF Waiting, TypeOK, OwnInvocation, Untouched, EntryLeader, MutexHolder, NotStarted, Flying, PastIsOver, LeaderCur, Over
<1>12. PastIsOver'
  BY DEF PastIsOver, TypeOK, OwnInvocation, LeaderCur, NotStarted, Flying, Over
<1>13. OutcomeOfOwnKey'
  BY DEF OutcomeOfOwnKey, TypeOK, OwnInvocation, Untouched, LeaderCur, Flying, DupsCounted, Joined, Waiting, Over
<1>14. FreshFlight'
  BY DEF FreshFlight, TypeOK, OwnInvocation, Untouched, LeaderCur, Flying, Waiting, PastIsOver, Over
<1>15. FlagIsDups'
  BY DEF FlagIsDups, TypeOK, OwnInvocation, Untouched, LeaderCur, EntryLeader, Waiting, Flying, Over
<1> QED
  BY <1>1, <1>2, <1>3, <1>4, <1>5, <1>6, <1>7, <1>8, <1>9, <1>10, <1>11, <1>12, <1>13, <1>14, <1>15

\* The deferred wg.Done of doCall keeps the invariant.
LEMMA WgDoneIInv ==
  ASSUME IInv, NEW p \in Procs, WgDone(p)
  PROVE  IInv'
<1> USE SingleFlightAssumption DEF WgDone, Goto, IInv, Calls, NoCall, Leading
<1>1. TypeOK'
  BY DEF TypeOK, OwnInvocation, LeaderCur, Waiting, NotStarted, Flying
<1>2. OwnInvocation'
  BY DEF OwnInvocation, TypeOK, Untouched
<1>3. Untouched'
  BY DEF Untouched, TypeOK, OwnInvocation, LeaderCur, EntryLeader
<1>4. LeaderCur'
  BY DEF LeaderCur, TypeOK, OwnInvocation
<1>5. LeaderEntry'
  BY DEF LeaderEntry, TypeOK, OwnInvocation, EntryLeader, LeaderCur
<1>6. EntryLeader'
  BY DEF EntryLeader, TypeOK, OwnInvocation, LeaderEntry, LeaderCur
<1>7. MutexHolder'
  BY DEF MutexHolder, TypeOK
<1>8. NotStarted'
  BY DEF NotStarted, TypeOK, OwnInvocation, Untouched, Flying, EntryLeader, LeaderCur
<1>9. Flying'
  BY DEF Flying, TypeOK, OwnInvocation, NotStarted, LeaderCur, Over
<1>10. DupsCounted'
  <2>1. \A q \in Procs : pc'[q] = "wait" <=> pc[q] = "wait"
    BY DEF TypeOK
  <2>2. \A c \in Calls : Joined(c)' <=> Joined(c)
    BY <2>1 DEF Joined
  <2> QED
    BY <2>2 DEF DupsCounted
<1>11. Waiting'
  BY DEF Waiting, TypeOK, OwnInvocation, Untouched, EntryLeader, MutexHolder, NotStarted, Flying, PastIsOver, LeaderCur, Over
<1>12. PastIsOver'
  BY DEF PastIsOver, TypeOK, OwnInvocation, LeaderCur, NotStarted, Flying, Over
<1>13. OutcomeOfOwnKey'
  BY DEF OutcomeOfOwnKey, TypeOK, OwnInvocation, Untouched, LeaderCur, Flying, DupsCounted, Joined, Waiting, Over
<1>14. FreshFlight'
  BY DEF FreshFlight, TypeOK, OwnInvocation, Untouched, LeaderCur, Flying, Waiting, PastIsOver, Over
<1>15. FlagIsDups'
  BY DEF FlagIsDups, TypeOK, OwnInvocation, Untouched, LeaderCur, EntryLeader, Waiting, Flying, Over
<1> QED
  BY <1>1, <1>2, <1>3, <1>4, <1>5, <1>6, <1>7, <1>8, <1>9, <1>10, <1>11, <1>12, <1>13, <1>14, <1>15

\* Removing the ended call from the map, and unlocking, keeps the invariant.
LEMMA DeleteIInv ==
  ASSUME IInv, NEW p \in Procs, Delete(p)
  PROVE  IInv'
<1> USE SingleFlightAssumption DEF Delete, Goto, IInv, Calls, NoCall, Leading
<1>1. TypeOK'
  BY DEF TypeOK, OwnInvocation, LeaderCur, Waiting, NotStarted, Flying
<1>2. OwnInvocation'
  BY DEF OwnInvocation, TypeOK, Untouched
<1>3. Untouched'
  BY DEF Untouched, TypeOK, OwnInvocation, LeaderCur, EntryLeader
<1>4. LeaderCur'
  BY DEF LeaderCur, TypeOK, OwnInvocation
<1>5. LeaderEntry'
  BY DEF LeaderEntry, TypeOK, OwnInvocation, EntryLeader, LeaderCur
<1>6. EntryLeader'
  <2> SUFFICES ASSUME NEW kk \in Keys, m'[kk] # NoCall
               PROVE  /\ arg[m'[kk]] = kk
                      /\ \E q \in Procs : pc'[q] \in Leading /\ inv[q] = m'[kk]
    BY DEF EntryLeader
  <2>1. m'[kk] = m[kk] /\ kk # arg[inv[p]]
    BY DEF TypeOK, OwnInvocation, LeaderCur, LeaderEntry
  <2>2. PICK q \in Procs : pc[q] \in Leading /\ inv[q] = m[kk]
    BY <2>1 DEF EntryLeader
  <2>3. q # p
    BY <2>1, <2>2 DEF EntryLeader
  <2> QED
    BY <2>1, <2>2, <2>3 DEF TypeOK, EntryLeader
<1>7. MutexHolder'
  BY DEF MutexHolder, TypeOK
<1>8. NotStarted'
  BY DEF NotStarted, TypeOK, OwnInvocation, Untouched, Flying, EntryLeader, LeaderCur
<1>9. Flying'
  BY DEF Flying, TypeOK, OwnInvocation, NotStarted, LeaderCur, Over
<1>10. DupsCounted'
  <2>1. \A q \in Procs : pc'[q] = "wait" <=> pc[q] = "wait"
    BY DEF TypeOK
  <2>2. \A c \in Calls : Joined(c)' <=> Joined(c)
    BY <2>1 DEF Joined
  <2> QED
    BY <2>2 DEF DupsCounted
<1>11. Waiting'
  BY DEF Waiting, TypeOK, OwnInvocation, Untouched, EntryLeader, MutexHolder, NotStarted, Flying, PastIsOver, LeaderCur, Over
<1>12. PastIsOver'
  BY DEF PastIsOver, TypeOK, OwnInvocation, LeaderCur, NotStarted, Flying, Over
<1>13. OutcomeOfOwnKey'
  BY DEF OutcomeOfOwnKey, TypeOK, OwnInvocation, Untouched, LeaderCur, Flying, DupsCounted, Joined, Waiting, Over
<1>14. FreshFlight'
  BY DEF FreshFlight, TypeOK, OwnInvocation, Untouched, LeaderCur, Flying, Waiting, PastIsOver, Over
<1>15. FlagIsDups'
  BY DEF FlagIsDups, TypeOK, OwnInvocation, Untouched, LeaderCur, EntryLeader, Waiting, Flying, Over
<1> QED
  BY <1>1, <1>2, <1>3, <1>4, <1>5, <1>6, <1>7, <1>8, <1>9, <1>10, <1>11, <1>12, <1>13, <1>14, <1>15

\* The return of the caller that ran fn keeps the invariant.
LEMMA LeaderReturnIInv ==
  ASSUME IInv, NEW p \in Procs, LeaderReturn(p)
  PROVE  IInv'
<1> USE SingleFlightAssumption DEF LeaderReturn, Ended, Goto, IInv, Calls, NoCall, Leading
<1>1. TypeOK'
  BY DEF TypeOK, OwnInvocation, LeaderCur, Waiting, NotStarted, Flying
<1>2. OwnInvocation'
  BY DEF OwnInvocation, TypeOK, Untouched
<1>3. Untouched'
  BY DEF Untouched, TypeOK, OwnInvocation, LeaderCur, EntryLeader
<1>4. LeaderCur'
  BY DEF LeaderCur, TypeOK, OwnInvocation
<1>5. LeaderEntry'
  BY DEF LeaderEntry, TypeOK, OwnInvocation, EntryLeader, LeaderCur
<1>6. EntryLeader'
  BY DEF EntryLeader, TypeOK, OwnInvocation, LeaderEntry, LeaderCur
<1>7. MutexHolder'
  BY DEF MutexHolder, TypeOK
<1>8. NotStarted'
  BY DEF NotStarted, TypeOK, OwnInvocation, Untouched, Flying, EntryLeader, LeaderCur
<1>9. Flying'
  BY DEF Flying, TypeOK, OwnInvocation, NotStarted, LeaderCur, Over
<1>10. DupsCounted'
  <2>1. \A c \in Calls : Joined(c)' <=> Joined(c)
    <3>1. \A q \in Procs : (pc'[q] = "wait" /\ cur'[q] = cur[q]) <=> pc[q] = "wait"
      BY DEF TypeOK
    <3>2. \A c \in Calls : \A j \in Calls \ {c} : ret'[j].call = c <=> ret[j].call = c
      BY DEF TypeOK, OwnInvocation, LeaderCur
    <3> QED
      BY <3>1, <3>2 DEF Joined
  <2> QED
    BY <2>1 DEF TypeOK, DupsCounted
<1>11. Waiting'
  BY DEF Waiting, TypeOK, OwnInvocation, Untouched, EntryLeader, MutexHolder, NotStarted, Flying, PastIsOver, LeaderCur, Over
<1>12. PastIsOver'
  BY DEF PastIsOver, TypeOK, OwnInvocation, LeaderCur, NotStarted, Flying, Over
<1>13. OutcomeOfOwnKey'
  BY DEF OutcomeOfOwnKey, TypeOK, OwnInvocation, Untouched, LeaderCur, Flying, DupsCounted, Joined, Waiting, Over
<1>14. FreshFlight'
  BY DEF FreshFlight, TypeOK, OwnInvocation, Untouched, LeaderCur, Flying, Waiting, PastIsOver, Over
<1>15. FlagIsDups'
  <2>1. cur[p] = inv[p] /\ inv[p] \in Calls
    BY DEF LeaderCur, OwnInvocation
  <2>2. ASSUME NEW i \in Calls, i # inv[p] PROVE ret'[i] = ret[i]
    BY <2>2
  <2>3. ret'[inv[p]].shared = (dups[inv[p]] > 0 /\ out[inv[p]] = "return")
    BY <2>1, Zenon DEF TypeOK
  <2> QED
    BY <2>1, <2>2, <2>3 DEF TypeOK, FlagIsDups
<1> QED
  BY <1>1, <1>2, <1>3, <1>4, <1>5, <1>6, <1>7, <1>8, <1>9, <1>10, <1>11, <1>12, <1>13, <1>14, <1>15

\* The return of a caller that waited keeps the invariant.
LEMMA WaiterReturnIInv ==
  ASSUME IInv, NEW p \in Procs, WaiterReturn(p)
  PROVE  IInv'
<1> USE SingleFlightAssumption DEF WaiterReturn, Ended, Goto, IInv, Calls, NoCall, Leading
<1>1. TypeOK'
  BY DEF TypeOK, OwnInvocation, LeaderCur, Waiting, NotStarted, Flying
<1>2. OwnInvocation'
  BY DEF OwnInvocation, TypeOK, Untouched
<1>3. Untouched'
  BY DEF Untouched, TypeOK, OwnInvocation, LeaderCur, EntryLeader
<1>4. LeaderCur'
  BY DEF LeaderCur, TypeOK, OwnInvocation
<1>5. LeaderEntry'
  BY DEF LeaderEntry, TypeOK, OwnInvocation, EntryLeader, LeaderCur
<1>6. EntryLeader'
  BY DEF EntryLeader, TypeOK, OwnInvocation, LeaderEntry, LeaderCur
<1>7. MutexHolder'
  BY DEF MutexHolder, TypeOK
<1>8. NotStarted'
  BY DEF NotStarted, TypeOK, OwnInvocation, Untouched, Flying, EntryLeader, LeaderCur
<1>9. Flying'
  BY DEF Flying, TypeOK, OwnInvocation, NotStarted, LeaderCur, Over
<1>10. DupsCounted'
  <2>1. cur[p] \in Calls /\ inv[p] \in Calls /\ cur[p] # inv[p] /\ ret[inv[p]].call = NoCall
    BY DEF Waiting, OwnInvocation
  <2>2. ret'[inv[p]].call = cur[p] /\ \A j \in Calls \ {inv[p]} : ret'[j] = ret[j]
    BY <2>1 DEF TypeOK
  <2>3. \A q \in Procs : pc'[q] = "wait" <=> (pc[q] = "wait" /\ q # p)
    BY DEF TypeOK
  <2>4. \A q \in Procs \ {p} : cur'[q] = cur[q]
    BY DEF TypeOK
  <2>5. ASSUME NEW c \in Calls PROVE Joined(c)' <=> Joined(c)
    BY <2>1, <2>2, <2>3, <2>4 DEF Joined
  <2> QED
    BY <2>5 DEF TypeOK, DupsCounted
<1>11. Waiting'
  BY DEF Waiting, TypeOK, OwnInvocation, Untouched, EntryLeader, MutexHolder, NotStarted, Flying, PastIsOver, LeaderCur, Over
<1>12. PastIsOver'
  BY DEF PastIsOver, TypeOK, OwnInvocation, LeaderCur, NotStarted, Flying, Over
<1>13. OutcomeOfOwnKey'
  BY DEF OutcomeOfOwnKey, TypeOK, OwnInvocation, Untouched, LeaderCur, Flying, DupsCounted, Joined, Waiting, Over
<1>14. FreshFlight'
  BY DEF FreshFlight, TypeOK, OwnInvocation, Untouched, LeaderCur, Flying, Waiting, PastIsOver, Over
<1>15. FlagIsDups'
  BY DEF FlagIsDups, TypeOK, OwnInvocation, Untouched, LeaderCur, EntryLeader, Waiting, Flying, Over
<1> QED
  BY <1>1, <1>2, <1>3, <1>4, <1>5, <1>6, <1>7, <1>8, <1>9, <1>10, <1>11, <1>12, <1>13, <1>14, <1>15

\* Every step of every goroutine keeps the invariant.
LEMMA NextIInv == IInv /\ [Next]_vars => IInv'
<1> SUFFICES ASSUME IInv, [Next]_vars PROVE IInv'
  OBVIOUS
<1>1. CASE UNCHANGED vars
  BY <1>1
  DEF vars, IInv, TypeOK, OwnInvocation, Untouched, LeaderCur, LeaderEntry, EntryLeader,
      MutexHolder, NotStarted, Flying, DupsCounted, Waiting, PastIsOver, OutcomeOfOwnKey,
      FreshFlight, FlagIsDups, Joined, Over
<1>2. CASE Next
  <2>1. PICK p \in Procs : Step(p) \/ \E k \in Keys : Do(p, k)
    BY <1>2 DEF Next
  <2>2. CASE \E k \in Keys : Do(p, k)
    BY <2>2, DoIInv
  <2>3. CASE Step(p)
    BY <2>3, DoJoinIInv, DoStartIInv, FnIInv, WgDoneIInv, DeleteIInv, LeaderReturnIInv,
       WaiterReturnIInv
    DEF Step
  <2> QED
    BY <2>1, <2>2, <2>3
<1> QED
  BY <1>1, <1>2

\* TypeOK and the strengthening hold in every reachable state of SingleFlight.
THEOREM Invariance == Spec => []IInv
  BY InitIInv, NextIInv, PTL DEF Spec

\* Type correctness of Do and doCall: in particular no WaitGroup goes below zero, which
\* would panic.
THEOREM TypeCorrect == Spec => []TypeOK
<1>1. IInv => TypeOK
  BY DEF IInv
<1> QED
  BY <1>1, Invariance, PTL

\* The mutex and the map of Do keep two flights of one key from running at once.
THEOREM OneFlight == Spec => []OneFlightPerKey
<1>1. IInv => OneFlightPerKey
  BY DEF IInv, TypeOK, OwnInvocation, LeaderEntry, Leading, OneFlightPerKey
<1> QED
  BY <1>1, Invariance, PTL

\* What Do returns is the outcome of a flight of its own key that was not over
\* when it was called.
THEOREM AnswersAreRight == Spec => []RightAnswer
<1>1. IInv => RightAnswer
  BY DEF IInv, RightAnswer
<1> QED
  BY <1>1, Invariance, PTL

\* The flag a leader returns, read from dups without the mutex, is exact.
THEOREM SharedFlag == Spec => []SharedFlagExact
<1>1. IInv => SharedFlagExact
  BY DEF IInv, FlagIsDups, DupsCounted, SharedFlagExact
<1> QED
  BY <1>1, Invariance, PTL
====
