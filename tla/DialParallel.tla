---- MODULE DialParallel ----
(***************************************************************************)
(* Dialer.dialParallel of internal/dial: dial the addresses one after the  *)
(* other, each a delay after the one before or as soon as that one failed, *)
(* and return the first connection made.  Goroutines: the caller ("main"), *)
(* the launcher, one dial per address, and the closer that waits for them. *)
(*                                                                         *)
(* A channel operation that finds the caller parked in its select decides  *)
(* the select at once, as the Go runtime does; before it is parked, a      *)
(* connection sits in the buffer of connCh, where the closer finds it too. *)
(***************************************************************************)
EXTENDS Naturals, Sequences, FiniteSets

CONSTANT N   \* number of addresses; fewer than two take no goroutine

ASSUME NAssumption == N \in Nat /\ N >= 2

Addrs == 1..N

VARIABLES
  dial,       \* each address: "idle", "dialing", "got" a connection, "sent" it, "done"
  conn,       \* its connection: "none", "open" or "closed"
  connCh,     \* buffer of connCh, capacity one
  errCh,      \* the addresses whose error is in errCh
  launched,   \* number of addresses the launcher has started
  launcher,   \* "run" or "done"
  closer,     \* "wait", "drain" (both channels closed) or "done"
  canceled,   \* cancel() has been called on dialCtx
  ctxDone,    \* the caller's context has expired
  main,       \* "start", "parked" in the select, "ctxcheck", "drain" or "done"
  result      \* what main returned: kind and the address of the connection

vars == <<dial, conn, connCh, errCh, launched, launcher, closer, canceled, ctxDone, main, result>>

NoResult == [kind |-> "none", addr |-> 0]

TypeOK ==
  /\ dial \in [Addrs -> {"idle", "dialing", "got", "sent", "done"}]
  /\ conn \in [Addrs -> {"none", "open", "closed"}]
  /\ connCh \in Seq(Addrs) /\ Len(connCh) <= 1
  /\ errCh \subseteq Addrs
  /\ launched \in 0..N
  /\ launcher \in {"run", "done"} /\ closer \in {"wait", "drain", "done"}
  /\ canceled \in BOOLEAN /\ ctxDone \in BOOLEAN
  /\ main \in {"start", "parked", "ctxcheck", "drain", "done"}
  /\ result \in [kind: {"none", "conn", "ctx", "join", "nil"}, addr: 0..N]

Init ==
  /\ dial = [a \in Addrs |-> "idle"] /\ conn = [a \in Addrs |-> "none"]
  /\ connCh = <<>> /\ errCh = {}
  /\ launched = 0 /\ launcher = "run" /\ closer = "wait"
  /\ canceled = FALSE /\ ctxDone = FALSE
  /\ main = "start" /\ result = NoResult

dialCtxDone == canceled \/ ctxDone

\* main returns; its deferred cancel runs.
Return(kind, a) ==
  /\ main' = "done" /\ result' = [kind |-> kind, addr |-> a]
  /\ canceled' = TRUE

----
\* The launcher starts the next dial: the delay is over, or the previous address
\* failed, and dialCtx is still live.
Launch ==
  /\ launcher = "run" /\ launched < N /\ ~dialCtxDone
  /\ launched' = launched + 1
  /\ dial' = [dial EXCEPT ![launched + 1] = "dialing"]
  /\ UNCHANGED <<conn, connCh, errCh, launcher, closer, canceled, ctxDone, main, result>>

\* Mutant of LaunchEnd: the first failure ends the loop.
LaunchEndOnFailure ==
  /\ launcher = "run" /\ (launched = N \/ dialCtxDone \/ errCh # {})
  /\ launcher' = "done"
  /\ UNCHANGED <<dial, conn, connCh, errCh, launched, closer, canceled, ctxDone, main, result>>

\* It returns once all are started, or dialCtx is done.
LaunchEnd ==
  /\ launcher = "run" /\ (launched = N \/ dialCtxDone)
  /\ launcher' = "done"
  /\ UNCHANGED <<dial, conn, connCh, errCh, launched, closer, canceled, ctxDone, main, result>>

\* DialTCP fails: currFailed is closed and the error queued; errCh has room for all.
DialFail(a) ==
  /\ dial[a] = "dialing"
  /\ dial' = [dial EXCEPT ![a] = "done"]
  /\ errCh' = errCh \cup {a}
  /\ UNCHANGED <<conn, connCh, launched, launcher, closer, canceled, ctxDone, main, result>>

\* DialTCP succeeds, which it may even while dialCtx is being canceled.
DialOk(a) ==
  /\ dial[a] = "dialing"
  /\ dial' = [dial EXCEPT ![a] = "got"]
  /\ conn' = [conn EXCEPT ![a] = "open"]
  /\ UNCHANGED <<connCh, errCh, launched, launcher, closer, canceled, ctxDone, main, result>>

\* Mutant of DialSend: the connection nobody takes is not closed.
DialSendLeak(a) ==
  /\ dial[a] = "got"
  /\ IF main = "parked"
     THEN /\ dial' = [dial EXCEPT ![a] = "sent"]
          /\ Return("conn", a) /\ UNCHANGED connCh
     ELSE IF connCh = <<>>
     THEN /\ dial' = [dial EXCEPT ![a] = "sent"]
          /\ connCh' = <<a>> /\ UNCHANGED <<main, result, canceled>>
     ELSE /\ dial' = [dial EXCEPT ![a] = "done"]
          /\ UNCHANGED <<connCh, main, result, canceled>>
  /\ UNCHANGED <<conn, errCh, launched, launcher, closer, ctxDone>>

\* Mutant of DialSend: the select has no default case.
DialSendBlocks(a) ==
  /\ dial[a] = "got" /\ (main = "parked" \/ connCh = <<>>)
  /\ dial' = [dial EXCEPT ![a] = "sent"]
  /\ IF main = "parked" THEN Return("conn", a) /\ UNCHANGED connCh
     ELSE connCh' = <<a>> /\ UNCHANGED <<main, result, canceled>>
  /\ UNCHANGED <<conn, errCh, launched, launcher, closer, ctxDone>>

\* The dial offers its connection: to the parked caller, else to the buffer, and
\* closes it when the buffer is taken.
DialSend(a) ==
  /\ dial[a] = "got"
  /\ IF main = "parked"
     THEN /\ dial' = [dial EXCEPT ![a] = "sent"]
          /\ Return("conn", a) /\ UNCHANGED <<connCh, conn>>
     ELSE IF connCh = <<>>
     THEN /\ dial' = [dial EXCEPT ![a] = "sent"]
          /\ connCh' = <<a>> /\ UNCHANGED <<conn, main, result, canceled>>
     ELSE /\ dial' = [dial EXCEPT ![a] = "done"]
          /\ conn' = [conn EXCEPT ![a] = "closed"]
          /\ UNCHANGED <<connCh, main, result, canceled>>
  /\ UNCHANGED <<errCh, launched, launcher, closer, ctxDone>>

\* cancel() after a successful send.
DialCancel(a) ==
  /\ dial[a] = "sent"
  /\ dial' = [dial EXCEPT ![a] = "done"]
  /\ canceled' = TRUE
  /\ UNCHANGED <<conn, connCh, errCh, launched, launcher, closer, ctxDone, main, result>>

\* wg.Wait: the launcher and every dial it started are over.
wgZero == launcher = "done" /\ \A a \in Addrs : dial[a] \in {"idle", "done"}

\* The closer closes both channels, which wakes a parked caller.
CloserClose ==
  /\ closer = "wait" /\ wgZero
  /\ closer' = "drain"
  /\ main' = IF main = "parked" THEN "ctxcheck" ELSE main
  /\ UNCHANGED <<dial, conn, connCh, errCh, launched, launcher, canceled, ctxDone, result>>

\* Mutant of CloserDrain: every connection dialed is closed.
CloserDrainAll ==
  /\ closer = "drain"
  /\ closer' = "done" /\ connCh' = <<>>
  /\ conn' = [a \in Addrs |-> IF conn[a] = "open" THEN "closed" ELSE conn[a]]
  /\ UNCHANGED <<dial, errCh, launched, launcher, canceled, ctxDone, main, result>>

\* Then it closes the connection it finds in the buffer, if the caller has not taken it.
CloserDrain ==
  /\ closer = "drain"
  /\ IF connCh = <<>> THEN closer' = "done" /\ UNCHANGED <<conn, connCh>>
     ELSE /\ conn' = [conn EXCEPT ![Head(connCh)] = "closed"]
          /\ connCh' = <<>> /\ UNCHANGED closer
  /\ UNCHANGED <<dial, errCh, launched, launcher, canceled, ctxDone, main, result>>

\* The caller's context expires: its timeout, or the caller's caller.
CtxExpire ==
  /\ ~ctxDone /\ main # "done"
  /\ ctxDone' = TRUE
  /\ IF main = "parked" THEN Return("ctx", 0) ELSE UNCHANGED <<main, result, canceled>>
  /\ UNCHANGED <<dial, conn, connCh, errCh, launched, launcher, closer>>

\* The select of the caller when a connection is buffered.
MainTake ==
  /\ main = "start" /\ connCh # <<>>
  /\ connCh' = <<>>
  /\ Return("conn", Head(connCh))
  /\ UNCHANGED <<dial, conn, errCh, launched, launcher, closer, ctxDone>>

\* ... when connCh is closed and empty.
MainClosed ==
  /\ main = "start" /\ connCh = <<>> /\ closer # "wait"
  /\ main' = "ctxcheck"
  /\ UNCHANGED <<dial, conn, connCh, errCh, launched, launcher, closer, canceled, ctxDone, result>>

\* ... when ctx is done; any of the three may be chosen when several are ready.
MainCtx ==
  /\ main = "start" /\ ctxDone
  /\ Return("ctx", 0)
  /\ UNCHANGED <<dial, conn, connCh, errCh, launched, launcher, closer, ctxDone>>

\* ... and when nothing is ready.
MainPark ==
  /\ main = "start" /\ connCh = <<>> /\ closer = "wait" /\ ~ctxDone
  /\ main' = "parked"
  /\ UNCHANGED <<dial, conn, connCh, errCh, launched, launcher, closer, canceled, ctxDone, result>>

\* connCh was closed: an expired context is reported first.
MainCtxCheck ==
  /\ main = "ctxcheck"
  /\ IF ctxDone THEN Return("ctx", 0) ELSE main' = "drain" /\ UNCHANGED <<result, canceled>>
  /\ UNCHANGED <<dial, conn, connCh, errCh, launched, launcher, closer, ctxDone>>

\* The errors are read until errCh is closed; Join of none is nil.
MainDrain ==
  /\ main = "drain" /\ closer # "wait"
  /\ Return(IF errCh = {} THEN "nil" ELSE "join", 0)
  /\ UNCHANGED <<dial, conn, connCh, errCh, launched, launcher, closer, ctxDone>>

Dial(a) == DialFail(a) \/ DialOk(a) \/ DialSend(a) \/ DialCancel(a)

Launcher == Launch \/ LaunchEnd

Closer == CloserClose \/ CloserDrain

Main == MainTake \/ MainClosed \/ MainCtx \/ MainPark \/ MainCtxCheck \/ MainDrain

Terminated == main = "done" /\ closer = "done" /\ UNCHANGED vars

Next == (\E a \in Addrs : Dial(a)) \/ Launcher \/ Closer \/ Main \/ CtxExpire \/ Terminated

Spec == Init /\ [][Next]_vars

\* Every goroutine keeps running and DialTCP ends, being bound to dialCtx.
FairSpec ==
  /\ Spec
  /\ \A a \in Addrs : WF_vars(Dial(a))
  /\ WF_vars(Launcher) /\ WF_vars(Closer) /\ WF_vars(Main)

----
\* The connection handed to the caller is open and stays so: neither the dials nor
\* the closer that drains connCh closes it behind the caller's back.
ReturnedConnOpen ==
  result.kind = "conn" =>
    /\ conn[result.addr] = "open"
    /\ result.addr \notin {connCh[i] : i \in 1..Len(connCh)}
    /\ dial[result.addr] \in {"sent", "done"}

\* Besides the types: when all goroutines are gone no connection is left open but the returned one,
\* however the dials, the expiry of ctx and the caller interleaved.
NoConnLeft ==
  /\ TypeOK
  /\ (main = "done" /\ closer = "done") =>
       \A a \in Addrs : conn[a] = "open" => (result.kind = "conn" /\ result.addr = a)

\* If ctx was live to the end and no connection was made, the caller gets the
\* errors of all addresses: none was skipped, none is missing from the join.
AllAddressesTried ==
  (result.kind \in {"join", "nil"} /\ \A a \in Addrs : conn[a] = "none") =>
    result.kind = "join" /\ errCh = Addrs

\* The caller gets an answer and every goroutine ends.
AllEnd == <>(main = "done" /\ closer = "done" /\ launcher = "done")

\* The callers take a nil error for a connection (core/tunnel.go), so dialParallel
\* has to return a connection or an error.
ConnOrError == main = "done" => result.kind # "nil"
====
