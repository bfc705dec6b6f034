---- MODULE SingleFlight ----
(***************************************************************************)
(* Group.Do and Group.doCall of internal/singleflight: callers that ask    *)
(* for a key while a call for it is in flight wait for that call and share *)
(* its outcome.                                                            *)
(*                                                                         *)
(* Goroutines are the members of Procs.  The calls of Do are numbered in   *)
(* the order they are made; when an invocation starts a flight, the call   *)
(* object it allocates bears the same number, so a pointer *call is an     *)
(* element of Calls.  The value and error of fn are abstracted to the call *)
(* that computed them and the way fn ended.  A goroutine that panicked or  *)
(* called Goexit returns to "idle": its next Do stands for that of another *)
(* goroutine.                                                              *)
(***************************************************************************)
EXTENDS Integers

CONSTANTS
  Procs,    \* goroutines
  Keys,     \* keys of Group.m
  MaxDo,    \* bound: calls of Do
  NoProc    \* nobody holds the mutex

Calls == 1..MaxDo

NoCall == 0   \* absent map entry, nil *call

\* What fn can do: return a value and an error, panic, call runtime.Goexit.
Outcomes == {"return", "panic", "goexit"}

ASSUME SingleFlightAssumption ==
  /\ MaxDo \in Nat
  /\ NoProc \notin Procs

VARIABLES
  mu,      \* Group.mu: the goroutine that holds it
  m,       \* Group.m
  wg,      \* call.wg: its counter, 0 or 1
  out,     \* call.val and call.err, "zero" until fn has ended
  dups,    \* call.dups
  n,       \* the number of invocations so far
  pc, inv, \* control state and current invocation of each goroutine
  arg,     \* the key each invocation was made with
  cur,     \* the local variable c of each goroutine
  ret,     \* what each invocation ended with: call, outcome, shared
  before   \* history: the flights already over when an invocation was made

vars == <<mu, m, wg, out, dups, n, pc, inv, arg, cur, ret, before>>

NoReturn == [call |-> NoCall, out |-> "zero", shared |-> FALSE]

Over(c) == wg[c] = 0 /\ out[c] # "zero"

TypeOK ==
  /\ mu \in Procs \cup {NoProc}
  /\ m \in [Keys -> Calls \cup {NoCall}]
  /\ wg \in [Calls -> {0, 1}]
  /\ out \in [Calls -> Outcomes \cup {"zero"}]
  /\ dups \in [Calls -> Nat]
  /\ pc \in [Procs -> {"idle", "lock", "wait", "fn", "defer", "delete", "return"}]
  /\ n \in 0..MaxDo
  /\ inv \in [Procs -> 0..MaxDo]
  /\ arg \in [Calls -> Keys]
  /\ cur \in [Procs -> Calls \cup {NoCall}]
  /\ ret \in [Calls -> [call: Calls \cup {NoCall}, out: Outcomes \cup {"zero"}, shared: BOOLEAN]]
  /\ before \in [Calls -> SUBSET Calls]

Init ==
  /\ mu = NoProc
  /\ m = [k \in Keys |-> NoCall]
  /\ wg = [c \in Calls |-> 0]
  /\ out = [c \in Calls |-> "zero"]
  /\ dups = [c \in Calls |-> 0]
  /\ pc = [p \in Procs |-> "idle"]
  /\ n = 0
  /\ inv = [p \in Procs |-> 0]
  /\ \E k \in Keys : arg = [c \in Calls |-> k]
  /\ cur = [p \in Procs |-> NoCall]
  /\ ret = [c \in Calls |-> NoReturn]
  /\ before = [c \in Calls |-> {}]

Goto(p, l) == pc' = [pc EXCEPT ![p] = l]

----
\* A goroutine calls Do(k, fn) and reaches the mutex.
Do(p, k) ==
  /\ pc[p] = "idle" /\ n < MaxDo
  /\ n' = n + 1
  /\ inv' = [inv EXCEPT ![p] = n + 1]
  /\ arg' = [arg EXCEPT ![n + 1] = k]
  /\ before' = [before EXCEPT ![n + 1] = {c \in Calls : Over(c)}]
  /\ Goto(p, "lock")
  /\ UNCHANGED <<mu, m, wg, out, dups, cur, ret>>

\* Mutant of DoJoin: dups is not incremented.
DoJoinUncounted(p) ==
  LET c == m[arg[inv[p]]] IN
  /\ pc[p] = "lock" /\ mu = NoProc /\ c # NoCall
  /\ cur' = [cur EXCEPT ![p] = c]
  /\ Goto(p, "wait")
  /\ UNCHANGED <<mu, m, wg, out, dups, n, inv, arg, ret, before>>

\* The critical section when a call for the key is in flight.
DoJoin(p) ==
  LET c == m[arg[inv[p]]] IN
  /\ pc[p] = "lock" /\ mu = NoProc /\ c # NoCall
  /\ dups' = [dups EXCEPT ![c] = @ + 1]
  /\ cur' = [cur EXCEPT ![p] = c]
  /\ Goto(p, "wait")
  /\ UNCHANGED <<mu, m, wg, out, n, inv, arg, ret, before>>

\* Mutant of DoStart: the lookup in m is dropped.
DoStartAlways(p) ==
  /\ pc[p] = "lock" /\ mu = NoProc
  /\ wg' = [wg EXCEPT ![inv[p]] = @ + 1]
  /\ m' = [m EXCEPT ![arg[inv[p]]] = inv[p]]
  /\ cur' = [cur EXCEPT ![p] = inv[p]]
  /\ Goto(p, "fn")
  /\ UNCHANGED <<mu, out, dups, n, inv, arg, ret, before>>

\* The critical section when there is none: a new call is published.
DoStart(p) ==
  /\ pc[p] = "lock" /\ mu = NoProc /\ m[arg[inv[p]]] = NoCall
  /\ wg' = [wg EXCEPT ![inv[p]] = @ + 1]
  /\ m' = [m EXCEPT ![arg[inv[p]]] = inv[p]]
  /\ cur' = [cur EXCEPT ![p] = inv[p]]
  /\ Goto(p, "fn")
  /\ UNCHANGED <<mu, out, dups, n, inv, arg, ret, before>>

\* fn ends: it returned (normalReturn), panicked (recovered into a panicError),
\* or called Goexit (neither, so the deferred function stores errGoexit).
Fn(p, o) ==
  /\ pc[p] = "fn"
  /\ out' = [out EXCEPT ![cur[p]] = o]
  /\ Goto(p, "defer")
  /\ UNCHANGED <<mu, m, wg, dups, n, inv, arg, cur, ret, before>>

\* Mutant of WgDone: Goexit skips wg.Done.
WgDoneNotOnGoexit(p) ==
  /\ pc[p] = "defer" /\ mu = NoProc
  /\ mu' = p
  /\ wg' = IF out[cur[p]] = "goexit" THEN wg ELSE [wg EXCEPT ![cur[p]] = @ - 1]
  /\ Goto(p, "delete")
  /\ UNCHANGED <<m, out, dups, n, inv, arg, cur, ret, before>>

\* The deferred function takes the mutex and releases the waiters, who may run at once.
WgDone(p) ==
  /\ pc[p] = "defer" /\ mu = NoProc
  /\ mu' = p
  /\ wg' = [wg EXCEPT ![cur[p]] = @ - 1]
  /\ Goto(p, "delete")
  /\ UNCHANGED <<m, out, dups, n, inv, arg, cur, ret, before>>

\* Mutant of Delete: the entry outlives a panic or Goexit in fn.
DeleteOnReturnOnly(p) ==
  LET k == arg[inv[p]] IN
  /\ pc[p] = "delete"
  /\ m' = IF out[cur[p]] = "return" THEN [m EXCEPT ![k] = NoCall] ELSE m
  /\ mu' = NoProc
  /\ Goto(p, "return")
  /\ UNCHANGED <<wg, out, dups, n, inv, arg, cur, ret, before>>

\* It deletes the entry if it is still this call's, and the deferred Unlock runs
\* on every way out, the re-panic included.
Delete(p) ==
  LET k == arg[inv[p]] IN
  /\ pc[p] = "delete"
  /\ m' = IF m[k] = cur[p] THEN [m EXCEPT ![k] = NoCall] ELSE m
  /\ mu' = NoProc
  /\ Goto(p, "return")
  /\ UNCHANGED <<wg, out, dups, n, inv, arg, cur, ret, before>>

\* What an invocation ends with; panics and Goexit are outcomes of their own
\* (re-panic at line 139, Goexit continuing) and carry no shared flag.
Ended(p, shared) ==
  /\ ret' = [ret EXCEPT ![inv[p]] =
       [call |-> cur[p], out |-> out[cur[p]],
        shared |-> shared /\ out[cur[p]] = "return"]]
  /\ cur' = [cur EXCEPT ![p] = NoCall]
  /\ Goto(p, "idle")
  /\ UNCHANGED <<mu, m, wg, out, dups, n, inv, arg, before>>

\* The goroutine that ran fn leaves doCall and reads dups without the mutex.
LeaderReturn(p) ==
  /\ pc[p] = "return"
  /\ Ended(p, dups[cur[p]] > 0)

\* A waiter leaves wg.Wait and ends the way the flight did.
WaiterReturn(p) ==
  /\ pc[p] = "wait" /\ wg[cur[p]] = 0
  /\ Ended(p, TRUE)

Step(p) ==
  \/ DoJoin(p) \/ DoStart(p)
  \/ \E o \in Outcomes : Fn(p, o)
  \/ WgDone(p) \/ Delete(p)
  \/ LeaderReturn(p) \/ WaiterReturn(p)

Next == \E p \in Procs : Step(p) \/ \E k \in Keys : Do(p, k)

Spec == Init /\ [][Next]_vars

\* A goroutine in the middle of Do keeps running, and fn ends: every fn the
\* program passes is bounded by a timeout.  Nobody is obliged to call Do.
FairSpec == Spec /\ \A p \in Procs : WF_vars(Step(p))

----
\* Never two goroutines inside fn for the same key: the duplicate suppression
\* that Do's map lookup under the mutex is for.
OneFlightPerKey ==
  \A p, q \in Procs :
    (pc[p] = "fn" /\ pc[q] = "fn" /\ arg[inv[p]] = arg[inv[q]]) => p = q

\* Whoever returns from Do has the final outcome of a flight made for the very
\* key it asked for; a waiter never sees the zero value of an unfinished call.
OutcomeOfOwnKey ==
  \A i \in Calls : ret[i].call # NoCall =>
    LET c == ret[i].call IN
      /\ out[c] # "zero" /\ ret[i].out = out[c]
      /\ arg[c] = arg[i]

\* Do never answers with a flight that was over when it was called: waiters are
\* released (wg.Done) before the entry is deleted, and no new caller slips in between.
FreshFlight ==
  \A i \in Calls : ret[i].call # NoCall => ret[i].call \notin before[i]

\* What Do returns is right: the final outcome of a flight of its own key that was not
\* over when Do was called.
RightAnswer == OutcomeOfOwnKey /\ FreshFlight

\* Somebody else than invocation c waits for call c or has returned its outcome.
Joined(c) ==
  \/ \E p \in Procs : pc[p] = "wait" /\ cur[p] = c
  \/ \E j \in Calls \ {c} : ret[j].call = c

\* The goroutine that ran fn says shared exactly when somebody else took its
\* outcome, although it reads dups after the mutex is released.
SharedFlagExact ==
  \A i \in Calls : (ret[i].call = i /\ out[i] = "return") =>
    (ret[i].shared <=> Joined(i))

\* No goroutine stays in Do for ever: not behind the mutex, which must be free again
\* after a panic or Goexit in fn, and not in wg.Wait.
DoEnds == \A p \in Procs : (pc[p] # "idle") ~> (pc[p] = "idle")
====
