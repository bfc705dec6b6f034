---- MODULE DialProofs ----
(***************************************************************************)
(* Proofs about how enimul gets to a peer: the race of DialParallel, for   *)
(* any number of addresses, and the pools of IPPool, for any number of     *)
(* IPs, of kept IPs, of tests at a time and of callers of Get, any         *)
(* measurements, any bounds of the weights and any width of the counter.   *)
(***************************************************************************)
EXTENDS DialParallel, IPPool, SequenceTheorems, FiniteSetTheorems, TLAPS

(* The race of parallel dials. *)

\* The buffer of connCh holds at most one connection.
Buffer == connCh = <<>> \/ \E a \in Addrs : connCh = <<a>>

\* How far a dial is, told from its connection and its error.
DialStage ==
  \A a \in Addrs :
    /\ dial[a] \in {"idle", "dialing"} => conn[a] = "none" /\ a \notin errCh
    /\ dial[a] = "got" => conn[a] = "open" /\ a \notin errCh
    /\ dial[a] = "sent" => conn[a] # "none" /\ a \notin errCh
    /\ dial[a] = "done" => (conn[a] = "none" <=> a \in errCh)

LaunchedInOrder == \A a \in Addrs : dial[a] = "idle" <=> a > launched

\* An open connection is with its dial, in the buffer or with the caller, and in one
\* of these places only.
OneOwner ==
  /\ \A a \in Addrs : conn[a] = "open" =>
       dial[a] = "got" \/ connCh = <<a>> \/ result = [kind |-> "conn", addr |-> a]
  /\ \A a \in Addrs : connCh = <<a>> =>
       /\ conn[a] = "open" /\ dial[a] \in {"sent", "done"}
       /\ result # [kind |-> "conn", addr |-> a]
  /\ result.kind = "conn" =>
       /\ result.addr \in Addrs
       /\ conn[result.addr] = "open" /\ dial[result.addr] \in {"sent", "done"}

\* What the closer waited for stays so.
CloserLate ==
  /\ closer # "wait" => wgZero
  /\ closer = "done" => connCh = <<>>

\* The launcher gives up early only if dialCtx is done, which is the caller's doing or
\* that of a dial that made a connection.
SomeConn == \E a \in Addrs : conn[a] # "none"
CancelReason == canceled => main = "done" \/ SomeConn
LauncherReason == launcher = "done" => launched = N \/ dialCtxDone

\* Where the caller is.
MainStage ==
  /\ main = "done" <=> result.kind # "none"
  /\ main = "parked" => connCh = <<>> /\ closer = "wait"
  /\ main \in {"ctxcheck", "drain"} => closer # "wait"
  /\ (main = "drain" \/ result.kind \in {"join", "nil"}) =>
       closer # "wait" /\ (launched = N \/ SomeConn)
  /\ result.kind = "nil" => errCh = {}

IInv ==
  /\ TypeOK /\ Buffer /\ DialStage /\ LaunchedInOrder /\ OneOwner /\ CloserLate
  /\ CancelReason /\ LauncherReason /\ MainStage

----
\* Before the first goroutine runs.
LEMMA InitIInv == Init => IInv
<1> SUFFICES ASSUME Init PROVE IInv
  OBVIOUS
<1> USE NAssumption DEF Init, NoResult, Addrs
<1>1. connCh \in Seq(Addrs) /\ Len(connCh) <= 1
  OBVIOUS
<1>2. result \in [kind: {"none", "conn", "ctx", "join", "nil"}, addr: 0..N]
  OBVIOUS
<1>3. TypeOK
  BY <1>1, <1>2 DEF TypeOK
<1>4. Buffer /\ DialStage /\ LaunchedInOrder
  BY DEF Buffer, DialStage, LaunchedInOrder
<1>5. OneOwner
  BY DEF OneOwner
<1>6. CloserLate /\ CancelReason /\ LauncherReason /\ MainStage
  BY DEF CloserLate, CancelReason, LauncherReason, MainStage
<1>7. QED
  BY <1>3, <1>4, <1>5, <1>6 DEF IInv

\* The next dial is one that was idle.
LEMMA LaunchStep ==
  ASSUME IInv, Launch
  PROVE  IInv'
<1> USE NAssumption DEF IInv, Addrs, Launch
<1>1. TypeOK'
  BY DEF TypeOK
<1>2. DialStage'
  BY DEF TypeOK, DialStage, LaunchedInOrder
<1>3. LaunchedInOrder'
  BY DEF TypeOK, LaunchedInOrder
<1>4. OneOwner'
  BY DEF TypeOK, OneOwner, LaunchedInOrder
<1>5. CloserLate'
  BY DEF CloserLate, wgZero
<1>6. LauncherReason'
  BY DEF LauncherReason
<1>7. MainStage'
  BY DEF MainStage, CloserLate, wgZero
<1>8. (Buffer /\ CancelReason)'
  BY DEF Buffer, CancelReason, SomeConn
<1>9. QED
  BY <1>1, <1>2, <1>3, <1>4, <1>5, <1>6, <1>7, <1>8

\* The launcher stops for one of its two reasons.
LEMMA LaunchEndStep ==
  ASSUME IInv, LaunchEnd
  PROVE  IInv'
<1> USE NAssumption DEF IInv, Addrs, LaunchEnd
<1>1. TypeOK'
  BY DEF TypeOK
<1>2. CloserLate'
  BY DEF CloserLate, wgZero
<1>3. LauncherReason'
  BY DEF LauncherReason, dialCtxDone
<1>4. (Buffer /\ DialStage /\ LaunchedInOrder /\ OneOwner /\ CancelReason /\ MainStage)'
  BY DEF Buffer, DialStage, LaunchedInOrder, OneOwner, CancelReason, MainStage, SomeConn
<1>5. QED
  BY <1>1, <1>2, <1>3, <1>4

\* A failed dial leaves its error.
LEMMA DialFailStep ==
  ASSUME IInv, NEW a \in Addrs, DialFail(a)
  PROVE  IInv'
<1> USE NAssumption DEF IInv, Addrs, DialFail
<1>1. TypeOK'
  BY DEF TypeOK
<1>2. DialStage'
  BY DEF TypeOK, DialStage
<1>3. LaunchedInOrder'
  BY DEF LaunchedInOrder
<1>4. OneOwner'
  BY DEF OneOwner
<1>5. CloserLate'
  BY DEF CloserLate, wgZero
<1>6. MainStage'
  BY DEF MainStage, CloserLate, wgZero
<1>7. (Buffer /\ CancelReason /\ LauncherReason)'
  BY DEF Buffer, CancelReason, LauncherReason, SomeConn, dialCtxDone
<1>8. QED
  BY <1>1, <1>2, <1>3, <1>4, <1>5, <1>6, <1>7

\* A connection is with its dial at first.
LEMMA DialOkStep ==
  ASSUME IInv, NEW a \in Addrs, DialOk(a)
  PROVE  IInv'
<1> USE NAssumption DEF IInv, Addrs, DialOk
<1>1. TypeOK'
  BY DEF TypeOK
<1>2. DialStage'
  BY DEF TypeOK, DialStage
<1>3. LaunchedInOrder'
  BY DEF LaunchedInOrder
<1>4. OneOwner'
  BY DEF TypeOK, OneOwner
<1>5. CloserLate'
  BY DEF CloserLate, wgZero
<1>6. CancelReason'
  BY DEF CancelReason, SomeConn
<1>7. MainStage'
  BY DEF MainStage, CloserLate, wgZero
<1>8. (Buffer /\ LauncherReason)'
  BY DEF Buffer, LauncherReason, dialCtxDone
<1>9. QED
  BY <1>1, <1>2, <1>3, <1>4, <1>5, <1>6, <1>7, <1>8

\* It goes to one place: the parked caller, the free buffer, or it is closed.
LEMMA DialSendStep ==
  ASSUME IInv, NEW a \in Addrs, DialSend(a)
  PROVE  IInv'
<1> USE NAssumption DEF IInv, Addrs, DialSend, Return
<1>1. TypeOK'
  <2>1. CASE main = "parked"
    BY <2>1 DEF TypeOK, Buffer
  <2>2. CASE main # "parked" /\ connCh = <<>>
    <3>1. connCh' = <<a>>
      BY <2>2
    <3>2. connCh' \in Seq(Addrs) /\ Len(connCh') = 1
      BY <3>1
    <3>3. QED
      BY <2>2, <3>2 DEF TypeOK
  <2>3. CASE main # "parked" /\ connCh # <<>>
    BY <2>3 DEF TypeOK
  <2>4. QED
    BY <2>1, <2>2, <2>3
<1>2. Buffer'
  BY DEF Buffer
<1>3. DialStage'
  BY DEF TypeOK, DialStage
<1>4. LaunchedInOrder'
  BY DEF TypeOK, LaunchedInOrder
<1>5. OneOwner'
  BY SMTT(30) DEF TypeOK, Buffer, OneOwner, DialStage, MainStage
<1>6. CloserLate'
  BY DEF CloserLate, wgZero
<1>7. CancelReason'
  BY DEF TypeOK, CancelReason, SomeConn
<1>8. LauncherReason'
  BY DEF LauncherReason, dialCtxDone
<1>9. MainStage'
  BY DEF MainStage, CloserLate, wgZero
<1>10. QED
  BY <1>1, <1>2, <1>3, <1>4, <1>5, <1>6, <1>7, <1>8, <1>9

\* A dial cancels dialCtx only when it made a connection.
LEMMA DialCancelStep ==
  ASSUME IInv, NEW a \in Addrs, DialCancel(a)
  PROVE  IInv'
<1> USE NAssumption DEF IInv, Addrs, DialCancel
<1>1. TypeOK'
  BY DEF TypeOK
<1>2. DialStage'
  BY DEF DialStage
<1>3. LaunchedInOrder'
  BY DEF LaunchedInOrder
<1>4. OneOwner'
  BY DEF OneOwner
<1>5. CloserLate'
  BY DEF CloserLate, wgZero
<1>6. CancelReason'
  BY DEF CancelReason, SomeConn, DialStage
<1>7. LauncherReason'
  BY DEF LauncherReason, dialCtxDone
<1>8. (Buffer /\ MainStage)'
  BY DEF Buffer, MainStage, SomeConn
<1>9. QED
  BY <1>1, <1>2, <1>3, <1>4, <1>5, <1>6, <1>7, <1>8

\* The channels are closed when no dial can start or send any more.
LEMMA CloserCloseStep ==
  ASSUME IInv, CloserClose
  PROVE  IInv'
<1> USE NAssumption DEF IInv, Addrs, CloserClose
<1>1. TypeOK'
  BY DEF TypeOK
<1>2. CloserLate'
  BY DEF CloserLate, wgZero
<1>3. CancelReason'
  BY DEF CancelReason, SomeConn
<1>4. MainStage'
  BY DEF MainStage
<1>5. (Buffer /\ DialStage /\ LaunchedInOrder /\ OneOwner /\ LauncherReason)'
  BY DEF Buffer, DialStage, LaunchedInOrder, OneOwner, LauncherReason, dialCtxDone
<1>6. QED
  BY <1>1, <1>2, <1>3, <1>4, <1>5

\* The closer closes what is in the buffer, which is not what the caller has.
LEMMA CloserDrainStep ==
  ASSUME IInv, CloserDrain
  PROVE  IInv'
<1> USE NAssumption DEF IInv, Addrs, CloserDrain
<1>1. TypeOK'
  <2>1. CASE connCh = <<>>
    BY <2>1 DEF TypeOK
  <2>2. CASE connCh # <<>>
    BY <2>2, SMTT(30) DEF TypeOK
  <2>3. QED
    BY <2>1, <2>2
<1>2. Buffer'
  BY DEF Buffer
<1>3. DialStage'
  BY DEF TypeOK, Buffer, DialStage, OneOwner
<1>4. OneOwner'
  BY SMTT(30) DEF TypeOK, Buffer, OneOwner
<1>5. CloserLate'
  BY DEF CloserLate, wgZero
<1>6. CancelReason'
  BY DEF TypeOK, CancelReason, SomeConn
<1>7. MainStage'
  BY DEF TypeOK, MainStage, SomeConn
<1>8. (LaunchedInOrder /\ LauncherReason)'
  BY DEF LaunchedInOrder, LauncherReason, dialCtxDone
<1>9. QED
  BY <1>1, <1>2, <1>3, <1>4, <1>5, <1>6, <1>7, <1>8

\* The expiry of ctx may decide the select of a parked caller.
LEMMA CtxExpireStep ==
  ASSUME IInv, CtxExpire
  PROVE  IInv'
<1> USE NAssumption DEF IInv, Addrs, CtxExpire, Return
<1>1. TypeOK'
  <2>1. CASE main = "parked"
    BY <2>1 DEF TypeOK
  <2>2. CASE main # "parked"
    BY <2>2 DEF TypeOK
  <2>3. QED
    BY <2>1, <2>2
<1>2. OneOwner'
  BY DEF OneOwner, MainStage
<1>3. CancelReason'
  BY DEF CancelReason, SomeConn
<1>4. LauncherReason'
  BY DEF LauncherReason, dialCtxDone
<1>5. MainStage'
  BY DEF MainStage, SomeConn
<1>6. (Buffer /\ DialStage /\ LaunchedInOrder /\ CloserLate)'
  BY DEF Buffer, DialStage, LaunchedInOrder, CloserLate, wgZero
<1>7. QED
  BY <1>1, <1>2, <1>3, <1>4, <1>5, <1>6

\* What the caller takes leaves the buffer.
LEMMA MainTakeStep ==
  ASSUME IInv, MainTake
  PROVE  IInv'
<1> USE NAssumption DEF IInv, Addrs, MainTake, Return
<1>1. TypeOK'
  BY DEF TypeOK
<1>2. Buffer'
  BY DEF Buffer
<1>3. OneOwner'
  BY DEF Buffer, OneOwner, MainStage
<1>4. CloserLate'
  BY DEF CloserLate, wgZero
<1>5. CancelReason'
  BY DEF CancelReason
<1>6. LauncherReason'
  BY DEF LauncherReason, dialCtxDone
<1>7. MainStage'
  BY DEF MainStage
<1>8. (DialStage /\ LaunchedInOrder)'
  BY DEF DialStage, LaunchedInOrder
<1>9. QED
  BY <1>1, <1>2, <1>3, <1>4, <1>5, <1>6, <1>7, <1>8

\* The caller finds connCh closed and empty.
LEMMA MainClosedStep ==
  ASSUME IInv, MainClosed
  PROVE  IInv'
<1> USE NAssumption DEF IInv, Addrs, MainClosed
<1>1. TypeOK'
  BY DEF TypeOK
<1>2. CancelReason'
  BY DEF CancelReason, SomeConn
<1>3. MainStage'
  BY DEF MainStage
<1>4. (Buffer /\ DialStage /\ LaunchedInOrder /\ OneOwner /\ CloserLate /\ LauncherReason)'
  BY DEF Buffer, DialStage, LaunchedInOrder, OneOwner, CloserLate, LauncherReason,
         dialCtxDone, wgZero
<1>5. QED
  BY <1>1, <1>2, <1>3, <1>4

\* The caller leaves because ctx is done.
LEMMA MainCtxStep ==
  ASSUME IInv, MainCtx
  PROVE  IInv'
<1> USE NAssumption DEF IInv, Addrs, MainCtx, Return
<1>1. TypeOK'
  BY DEF TypeOK
<1>2. OneOwner'
  BY DEF OneOwner, MainStage
<1>3. CancelReason'
  BY DEF CancelReason
<1>4. LauncherReason'
  BY DEF LauncherReason, dialCtxDone
<1>5. MainStage'
  BY DEF MainStage
<1>6. (Buffer /\ DialStage /\ LaunchedInOrder /\ CloserLate)'
  BY DEF Buffer, DialStage, LaunchedInOrder, CloserLate, wgZero
<1>7. QED
  BY <1>1, <1>2, <1>3, <1>4, <1>5, <1>6

\* The caller parks while the buffer is empty.
LEMMA MainParkStep ==
  ASSUME IInv, MainPark
  PROVE  IInv'
<1> USE NAssumption DEF IInv, Addrs, MainPark
<1>1. TypeOK'
  BY DEF TypeOK
<1>2. CancelReason'
  BY DEF CancelReason, SomeConn
<1>3. MainStage'
  BY DEF MainStage
<1>4. (Buffer /\ DialStage /\ LaunchedInOrder /\ OneOwner /\ CloserLate /\ LauncherReason)'
  BY DEF Buffer, DialStage, LaunchedInOrder, OneOwner, CloserLate, LauncherReason,
         dialCtxDone
<1>5. QED
  BY <1>1, <1>2, <1>3, <1>4

\* With ctx live after the close, every address was started or one connected.
LEMMA MainCtxCheckStep ==
  ASSUME IInv, MainCtxCheck
  PROVE  IInv'
<1> USE NAssumption DEF IInv, Addrs, MainCtxCheck, Return
<1>1. TypeOK'
  <2>1. CASE ctxDone
    BY <2>1 DEF TypeOK
  <2>2. CASE ~ctxDone
    BY <2>2 DEF TypeOK
  <2>3. QED
    BY <2>1, <2>2
<1>2. OneOwner'
  BY DEF OneOwner, MainStage
<1>3. CancelReason'
  BY DEF CancelReason, SomeConn
<1>4. LauncherReason'
  BY DEF LauncherReason, dialCtxDone
<1>5. MainStage'
  BY DEF MainStage, SomeConn, CloserLate, CancelReason, LauncherReason, wgZero, dialCtxDone
<1>6. (Buffer /\ DialStage /\ LaunchedInOrder /\ CloserLate)'
  BY DEF Buffer, DialStage, LaunchedInOrder, CloserLate, wgZero
<1>7. QED
  BY <1>1, <1>2, <1>3, <1>4, <1>5, <1>6

\* The errors are all there when the caller joins them.
LEMMA MainDrainStep ==
  ASSUME IInv, MainDrain
  PROVE  IInv'
<1> USE NAssumption DEF IInv, Addrs, MainDrain, Return
<1>1. TypeOK'
  BY DEF TypeOK
<1>2. OneOwner'
  BY DEF OneOwner, MainStage
<1>3. CancelReason'
  BY DEF CancelReason
<1>4. LauncherReason'
  BY DEF LauncherReason, dialCtxDone
<1>5. MainStage'
  BY DEF MainStage, SomeConn
<1>6. (Buffer /\ DialStage /\ LaunchedInOrder /\ CloserLate)'
  BY DEF Buffer, DialStage, LaunchedInOrder, CloserLate, wgZero
<1>7. QED
  BY <1>1, <1>2, <1>3, <1>4, <1>5, <1>6

\* Every step of a dial that is under way.
LEMMA NextStep == IInv /\ [Next]_vars => IInv'
<1> SUFFICES ASSUME IInv, [Next]_vars PROVE IInv'
  OBVIOUS
<1>1. ASSUME NEW a \in Addrs, Dial(a) PROVE IInv'
  BY <1>1, DialFailStep, DialOkStep, DialSendStep, DialCancelStep DEF Dial
<1>2. CASE Launcher
  BY <1>2, LaunchStep, LaunchEndStep DEF Launcher
<1>3. CASE Closer
  BY <1>3, CloserCloseStep, CloserDrainStep DEF Closer
<1>4. CASE Main
  BY <1>4, MainTakeStep, MainClosedStep, MainCtxStep, MainParkStep, MainCtxCheckStep,
     MainDrainStep
  DEF Main
<1>5. CASE CtxExpire
  BY <1>5, CtxExpireStep
<1>6. CASE UNCHANGED vars
  BY <1>6
  DEF vars, IInv, TypeOK, Buffer, DialStage, LaunchedInOrder, OneOwner, CloserLate,
      CancelReason, LauncherReason, MainStage, SomeConn, wgZero, dialCtxDone
<1>7. QED
  BY <1>1, <1>2, <1>3, <1>4, <1>5, <1>6 DEF Next, Terminated

\* The invariant behind the three properties.
THEOREM Inductive == Spec => []IInv
  BY InitIInv, NextStep, PTL DEF Spec

\* The connection handed to the caller is open, in nobody else's hands, and stays so,
\* for any number of addresses dialed at the same time.
THEOREM ReturnedStaysOpen == Spec => []ReturnedConnOpen
<1>1. IInv => ReturnedConnOpen
  <2> SUFFICES ASSUME IInv, result.kind = "conn"
               PROVE  /\ conn[result.addr] = "open" /\ dial[result.addr] \in {"sent", "done"}
                      /\ result.addr \notin {connCh[i] : i \in 1..Len(connCh)}
    BY DEF ReturnedConnOpen
  <2>1. result = [kind |-> "conn", addr |-> result.addr]
    BY DEF IInv, TypeOK
  <2>2. connCh # <<result.addr>>
    BY <2>1 DEF IInv, OneOwner
  <2>3. ASSUME NEW i \in 1..Len(connCh), connCh[i] = result.addr PROVE FALSE
    BY <2>2, <2>3 DEF IInv, Buffer
  <2>4. QED
    BY <2>3 DEF IInv, OneOwner
<1>2. QED
  BY <1>1, Inductive, PTL

\* Whatever the interleaving of the dials, the caller and the expiry of ctx, at the end no
\* connection is open but the one that was returned.
THEOREM NoConnLeftOpen == Spec => []NoConnLeft
<1>1. IInv => NoConnLeft
  <2> SUFFICES ASSUME IInv, closer = "done", NEW a \in Addrs, conn[a] = "open"
               PROVE  result.kind = "conn" /\ result.addr = a
    BY DEF NoConnLeft, IInv
  <2>1. dial[a] # "got" /\ connCh # <<a>>
    BY DEF IInv, CloserLate, wgZero
  <2>2. QED
    BY <2>1 DEF IInv, OneOwner
<1>2. QED
  BY <1>1, Inductive, PTL

\* The errors of all addresses reach a caller that gets no connection while ctx is live.
THEOREM NoAddressSkipped == Spec => []AllAddressesTried
<1>1. IInv => AllAddressesTried
  <2> SUFFICES ASSUME IInv, result.kind \in {"join", "nil"}, \A a \in Addrs : conn[a] = "none"
               PROVE  result.kind = "join" /\ errCh = Addrs
    BY DEF AllAddressesTried
  <2>1. wgZero /\ launched = N
    BY DEF IInv, MainStage, CloserLate, SomeConn
  <2>2. \A a \in Addrs : dial[a] = "done"
    BY <2>1, NAssumption DEF IInv, LaunchedInOrder, wgZero, Addrs
  <2>3. errCh = Addrs
    BY <2>2 DEF IInv, TypeOK, DialStage
  <2>4. 1 \in Addrs
    BY NAssumption DEF Addrs
  <2>5. QED
    BY <2>3, <2>4 DEF IInv, MainStage
<1>2. QED
  BY <1>1, Inductive, PTL

----
(* The pools: induction. *)

\* A set of natural numbers has a smallest element: what the inductions below look at is
\* the smallest number of which a claim does not hold.
LEMMA Smallest ==
  ASSUME NEW T, T \subseteq Nat, T # {}
  PROVE  \E d \in T : \A e \in T : d <= e
<1>1. PICK d \in T : \A e \in T : ~(<<e, d>> \in OpToRel(<, Nat))
  BY NatLessThanWellFounded, WFMin
<1>2. \A e \in T : ~(e < d)
  BY <1>1, Zenon DEF OpToRel
<1>3. d \in Nat /\ \A e \in T : e \in Nat /\ ~(e < d)
  BY <1>2
<1>4. \A e \in T : d <= e
  BY <1>3
<1>5. QED
  BY <1>4

----
(* The sums of the weights. *)

\* f sums up w: what the recursive function of Total is chosen to be.
Sums(w, n, f) == f = [i \in 0..n |-> IF i = 0 THEN 0 ELSE f[i - 1] + w[i]]

\* Such a function exists.
LEMMA SumsExist ==
  ASSUME NEW w, NEW n \in Nat
  PROVE  \E f : Sums(w, n, f)
<1> DEFINE bad == {k \in Nat : ~ \E f : Sums(w, k, f)}
<1> SUFFICES ASSUME bad # {} PROVE FALSE
  OBVIOUS
<1>1. PICK d \in bad : \A e \in bad : d <= e
  BY Smallest
<1>2. CASE d = 0
  <2>1. Sums(w, 0, [i \in 0..0 |-> 0])
    BY DEF Sums
  <2>2. QED
    BY <1>1, <1>2, <2>1
<1>3. CASE d # 0
  <2>1. d - 1 \in Nat /\ d - 1 \notin bad
    BY <1>1, <1>3
  <2>2. PICK f : Sums(w, d - 1, f)
    BY <2>1
  <2> DEFINE g == [i \in 0..d |-> IF i = d THEN f[d - 1] + w[d] ELSE f[i]]
  <2>3. \A i \in 0..(d - 1) : f[i] = IF i = 0 THEN 0 ELSE f[i - 1] + w[i]
    BY <2>2 DEF Sums
  <2>4. \A i \in 0..(d - 1) : g[i] = f[i]
    BY <2>1
  <2>5. \A i \in 0..d : g[i] = IF i = 0 THEN 0 ELSE g[i - 1] + w[i]
    BY <1>1, <1>3, <2>3, <2>4
  <2>6. g = [i \in 0..d |-> g[i]]
    OBVIOUS
  <2> HIDE DEF g
  <2>7. [i \in 0..d |-> g[i]] = [i \in 0..d |-> IF i = 0 THEN 0 ELSE g[i - 1] + w[i]]
    BY <2>5
  <2>8. Sums(w, d, g)
    BY <2>6, <2>7 DEF Sums
  <2>9. QED
    BY <1>1, <2>8
<1>4. QED
  BY <1>2, <1>3

\* Total is the last value of such a function.
LEMMA TotalOfSums ==
  ASSUME NEW w, NEW n \in Nat
  PROVE  \E f : Sums(w, n, f) /\ Total(w, n) = f[n]
<1> DEFINE acc == CHOOSE f : f = [i \in 0..n |-> IF i = 0 THEN 0 ELSE f[i - 1] + w[i]]
<1>1. \E f : f = [i \in 0..n |-> IF i = 0 THEN 0 ELSE f[i - 1] + w[i]]
  BY SumsExist DEF Sums
<1>2. acc = [i \in 0..n |-> IF i = 0 THEN 0 ELSE acc[i - 1] + w[i]]
  BY <1>1
<1>3. Total(w, n) = acc[n]
  BY DEF Total
<1> HIDE DEF acc
<1>4. QED
  BY <1>2, <1>3 DEF Sums

\* The function is the same, however far it is taken.
LEMMA SumsAgree ==
  ASSUME NEW w, NEW m \in Nat, NEW n \in Nat, NEW f, NEW g, Sums(w, m, f), Sums(w, n, g),
         NEW i \in 0..m, i <= n
  PROVE  f[i] = g[i]
<1> DEFINE bad == {k \in Nat : k <= m /\ k <= n /\ f[k] # g[k]}
<1> SUFFICES ASSUME bad # {} PROVE FALSE
  OBVIOUS
<1>1. PICK d \in bad : \A e \in bad : d <= e
  BY Smallest
<1>2. /\ \A k \in 0..m : f[k] = IF k = 0 THEN 0 ELSE f[k - 1] + w[k]
      /\ \A k \in 0..n : g[k] = IF k = 0 THEN 0 ELSE g[k - 1] + w[k]
  BY DEF Sums
<1>3. d # 0
  BY <1>1, <1>2
<1>4. d - 1 \in Nat /\ d - 1 \notin bad
  BY <1>1, <1>3
<1>5. f[d - 1] = g[d - 1]
  BY <1>1, <1>4
<1>6. QED
  BY <1>1, <1>2, <1>3, <1>5

\* Total by recursion.
LEMMA TotalUnfolds ==
  ASSUME NEW w, NEW n \in Nat
  PROVE  Total(w, n) = IF n = 0 THEN 0 ELSE Total(w, n - 1) + w[n]
<1>1. PICK f : Sums(w, n, f) /\ Total(w, n) = f[n]
  BY TotalOfSums
<1>2. \A k \in 0..n : f[k] = IF k = 0 THEN 0 ELSE f[k - 1] + w[k]
  BY <1>1 DEF Sums
<1>3. CASE n = 0
  BY <1>1, <1>2, <1>3
<1>4. CASE n # 0
  <2>1. n - 1 \in Nat
    BY <1>4
  <2>2. PICK g : Sums(w, n - 1, g) /\ Total(w, n - 1) = g[n - 1]
    BY <2>1, TotalOfSums
  <2>3. f[n - 1] = g[n - 1]
    BY <1>1, <2>1, <2>2, SumsAgree
  <2>4. QED
    BY <1>1, <1>2, <1>4, <2>2, <2>3
<1>5. QED
  BY <1>3, <1>4

\* Sums of weights are natural numbers, and grow if the weights are positive.
LEMMA TotalGrows ==
  ASSUME NEW w, NEW n \in Nat, \A i \in 1..n : w[i] \in Nat \ {0}
  PROVE  /\ \A i \in 0..n : Total(w, i) \in Nat
         /\ \A j \in 0..n : \A i \in 0..n : i < j => Total(w, i) < Total(w, j)
<1>1. Total(w, 0) = 0 /\ \A i \in 1..n : Total(w, i) = Total(w, i - 1) + w[i]
  BY TotalUnfolds
<1>2. \A i \in 0..n : Total(w, i) \in Nat
  <2> DEFINE bad == {k \in Nat : k <= n /\ Total(w, k) \notin Nat}
  <2> SUFFICES ASSUME bad # {} PROVE FALSE
    OBVIOUS
  <2>1. PICK d \in bad : \A e \in bad : d <= e
    BY Smallest
  <2>2. d \in 1..n
    BY <1>1, <2>1
  <2>3. d - 1 \in Nat /\ d - 1 \notin bad
    BY <2>1, <2>2
  <2>4. Total(w, d - 1) \in Nat
    BY <2>2, <2>3
  <2>5. QED
    BY <1>1, <2>1, <2>2, <2>4
<1>3. \A j \in 0..n : \A i \in 0..n : i < j => Total(w, i) < Total(w, j)
  <2> DEFINE bad == {k \in Nat : k <= n /\ \E i \in 0..n : i < k /\ ~(Total(w, i) < Total(w, k))}
  <2> SUFFICES ASSUME bad # {} PROVE FALSE
    OBVIOUS
  <2>1. PICK d \in bad : \A e \in bad : d <= e
    BY Smallest
  <2>2. PICK i \in 0..n : i < d /\ ~(Total(w, i) < Total(w, d))
    BY <2>1
  <2>3. d \in 1..n /\ d - 1 \in 0..n /\ d - 1 \notin bad
    BY <2>1, <2>2
  <2>4. Total(w, d - 1) < Total(w, d)
    BY <1>1, <1>2, <2>3
  <2>5. i < d - 1 => Total(w, i) < Total(w, d - 1)
    BY <2>3
  <2>6. i = d - 1 \/ i < d - 1
    BY <2>2, <2>3
  <2>7. QED
    BY <1>2, <2>2, <2>3, <2>4, <2>5, <2>6
<1>4. QED
  BY <1>2, <1>3

----
(* What Get picks. *)

\* Weights, count and total of one update: the places in use have positive weights, and
\* the total is their sum.
OfOneUpdate(b) ==
  /\ b.indexes \in [1..TopCount -> IPs] /\ b.weights \in [1..TopCount -> 0..MaxWeight]
  /\ b.valid \in 0..TopCount
  /\ \A i \in 1..b.valid : b.weights[i] > 0
  /\ b.total = Total(b.weights, b.valid)

\* The sums of the weights in use.
LEMMA SumsInUse ==
  ASSUME NEW b, OfOneUpdate(b)
  PROVE  /\ b.valid \in Nat /\ b.total \in Nat
         /\ \A i \in 1..b.valid : b.weights[i] \in Nat \ {0}
         /\ \A i \in 0..b.valid : Total(b.weights, i) \in Nat
         /\ \A j \in 0..b.valid : \A i \in 0..b.valid :
              i < j => Total(b.weights, i) < Total(b.weights, j)
         /\ Total(b.weights, 0) = 0
         /\ \A i \in 1..b.valid : Total(b.weights, i) = Total(b.weights, i - 1) + b.weights[i]
         /\ Total(b.weights, b.valid) = b.total
<1>1. TopCount \in Nat /\ MaxWeight \in Nat
  BY IPPoolAssumption
<1>2. b.valid \in Nat /\ b.valid <= TopCount
  BY <1>1 DEF OfOneUpdate
<1>3. \A i \in 1..b.valid : b.weights[i] \in Nat \ {0}
  BY <1>1, <1>2 DEF OfOneUpdate
<1>4. /\ \A i \in 0..b.valid : Total(b.weights, i) \in Nat
      /\ \A j \in 0..b.valid : \A i \in 0..b.valid :
              i < j => Total(b.weights, i) < Total(b.weights, j)
  BY <1>2, <1>3, TotalGrows
<1>5. /\ Total(b.weights, 0) = 0
      /\ \A i \in 1..b.valid : Total(b.weights, i) = Total(b.weights, i - 1) + b.weights[i]
  BY <1>2, TotalUnfolds
<1>6. Total(b.weights, b.valid) = b.total
  BY DEF OfOneUpdate
<1>7. b.total \in Nat
  BY <1>2, <1>4, <1>6
<1>8. QED
  BY <1>2, <1>3, <1>4, <1>5, <1>6, <1>7

\* The least element of a set of natural numbers.
LEMMA MinOfSet ==
  ASSUME NEW T, T \subseteq Nat, T # {}
  PROVE  Min(T) \in T /\ \A e \in T : Min(T) <= e
<1>1. \E d \in T : \A e \in T : d <= e
  BY Smallest
<1>2. QED
  BY <1>1 DEF Min

\* A target below the total finds an entry, also one below zero.
LEMMA PickFinds ==
  ASSUME NEW b, OfOneUpdate(b), NEW t \in Int, t < b.total, b.valid # 0
  PROVE  /\ Pick(b, t) \in 1..b.valid
         /\ Total(b.weights, Pick(b, t)) > t
         /\ \A i \in 1..b.valid : Total(b.weights, i) > t => Pick(b, t) <= i
<1> DEFINE past == {i \in 1..b.valid : Total(b.weights, i) > t}
<1>1. b.valid \in past
  BY SumsInUse
<1>2. past \subseteq Nat /\ past # {}
  BY <1>1, SumsInUse
<1>3. Min(past) \in past /\ \A e \in past : Min(past) <= e
  BY <1>2, MinOfSet
<1>4. Pick(b, t) = Min(past)
  BY <1>2 DEF Pick
<1>5. QED
  BY <1>3, <1>4

\* The targets of an entry are those between the sum before it and its own.
LEMMA PickInShare ==
  ASSUME NEW b, OfOneUpdate(b), NEW i \in 1..b.valid, NEW t \in 0..(b.total - 1)
  PROVE  Pick(b, t) = i <=> t \in Total(b.weights, i - 1)..(Total(b.weights, i) - 1)
<1>1. /\ b.valid \in Nat /\ b.total \in Nat /\ i \in Nat /\ i - 1 \in 0..b.valid
      /\ Total(b.weights, i) \in Nat /\ Total(b.weights, i - 1) \in Nat
  BY SumsInUse
<1>2. /\ Pick(b, t) \in 1..b.valid
      /\ Total(b.weights, Pick(b, t)) > t
      /\ \A k \in 1..b.valid : Total(b.weights, k) > t => Pick(b, t) <= k
  <2>1. t \in Int /\ t < b.total /\ b.valid # 0
    BY <1>1
  <2>2. QED
    BY <2>1, PickFinds
<1>3. ASSUME Pick(b, t) = i
      PROVE  t \in Total(b.weights, i - 1)..(Total(b.weights, i) - 1)
  <2>1. i - 1 = 0 \/ (i - 1 \in 1..b.valid /\ ~(Total(b.weights, i - 1) > t))
    BY <1>1, <1>2, <1>3
  <2>2. Total(b.weights, i - 1) <= t
    BY <1>1, <2>1, SumsInUse
  <2>3. QED
    BY <1>1, <1>2, <1>3, <2>2
<1>4. ASSUME t \in Total(b.weights, i - 1)..(Total(b.weights, i) - 1)
      PROVE  Pick(b, t) = i
  <2>1. Pick(b, t) <= i
    BY <1>1, <1>2, <1>4
  <2>2. ASSUME Pick(b, t) < i PROVE FALSE
    <3>1. Pick(b, t) \in 0..b.valid /\ (Pick(b, t) = i - 1 \/ Pick(b, t) < i - 1)
      BY <1>1, <1>2, <2>2
    <3>2. Total(b.weights, Pick(b, t)) <= Total(b.weights, i - 1)
      BY <1>1, <3>1, SumsInUse
    <3>3. Total(b.weights, Pick(b, t)) \in Nat
      BY <3>1, SumsInUse
    <3>4. QED
      BY <1>1, <1>2, <1>4, <3>2, <3>3
  <2>3. QED
    BY <1>1, <1>2, <2>1, <2>2
<1>5. QED
  BY <1>3, <1>4

\* What FairShare says of one copy.
FairIn(b) ==
  /\ \A i \in 1..b.valid :
       LET share == Cardinality({t \in 0..(b.total - 1) : Pick(b, t) = i})
       IN share = b.weights[i] /\ share >= 1
  /\ b = noBest \/ (b.total > 0 /\ \A t \in (1 - b.total)..(b.total - 1) : Pick(b, t) # 0)

\* Each entry has as many targets as its weight says.
LEMMA SharesAreFair ==
  ASSUME NEW b, OfOneUpdate(b), b = noBest \/ b.valid # 0
  PROVE  FairIn(b)
<1>1. b.valid \in Nat /\ b.total \in Nat
  BY SumsInUse
<1>2. ASSUME NEW i \in 1..b.valid
      PROVE  LET share == Cardinality({t \in 0..(b.total - 1) : Pick(b, t) = i})
             IN share = b.weights[i] /\ share >= 1
  <2> DEFINE from == Total(b.weights, i - 1)
             to == Total(b.weights, i)
  <2>1. /\ from \in Nat /\ to \in Nat /\ to = from + b.weights[i] /\ b.weights[i] \in Nat \ {0}
        /\ to <= b.total
    <3>1. i \in Nat /\ i - 1 \in 0..b.valid /\ i \in 0..b.valid /\ b.valid \in 0..b.valid
      BY <1>1
    <3>2. i = b.valid \/ i < b.valid
      BY <1>1
    <3>3. from \in Nat /\ to \in Nat /\ to = from + b.weights[i] /\ b.weights[i] \in Nat \ {0}
      BY <3>1, SumsInUse
    <3>4. to <= b.total
      BY <3>1, <3>2, <3>3, SumsInUse
    <3>5. QED
      BY <3>3, <3>4
  <2>2. {t \in 0..(b.total - 1) : Pick(b, t) = i} = from..(to - 1)
    <3> HIDE DEF from, to
    <3>1. \A t \in 0..(b.total - 1) : Pick(b, t) = i <=> t \in from..(to - 1)
      BY PickInShare DEF from, to
    <3>2. from..(to - 1) \subseteq 0..(b.total - 1)
      BY <1>1, <2>1
    <3>3. QED
      BY <3>1, <3>2
  <2> HIDE DEF from, to
  <2>3. Cardinality(from..(to - 1)) = b.weights[i]
    <3>1. from \in Int /\ to - 1 \in Int /\ ~(from > to - 1)
      BY <2>1
    <3>2. Cardinality(from..(to - 1)) = to - 1 - from + 1
      BY <3>1, FS_Interval
    <3>3. QED
      BY <2>1, <3>2, SMTT(30)
  <2>4. b.weights[i] >= 1
    BY <2>1
  <2>5. QED
    BY <2>2, <2>3, <2>4, Zenon
<1>3. ASSUME b.valid # 0
      PROVE  b.total > 0 /\ \A t \in (1 - b.total)..(b.total - 1) : Pick(b, t) # 0
  <2>1. b.total > 0
    <3>1. 0 \in 0..b.valid /\ b.valid \in 0..b.valid /\ 0 < b.valid
      BY <1>1, <1>3
    <3>2. QED
      BY <3>1, SumsInUse
  <2>2. ASSUME NEW t \in (1 - b.total)..(b.total - 1) PROVE Pick(b, t) # 0
    <3>1. t \in Int /\ t < b.total
      BY <1>1
    <3>2. Pick(b, t) \in 1..b.valid
      BY <1>3, <3>1, PickFinds
    <3>3. QED
      BY <1>1, <3>2
  <2>3. QED
    BY <2>1, <2>2
<1>4. QED
  BY <1>2, <1>3 DEF FairIn

\* The remainder of Go, whatever the sign of the counter, is a target.
LEMMA RemIsTarget ==
  ASSUME NEW a \in Int, NEW n \in Nat \ {0}
  PROVE  Rem(a, n) \in (1 - n)..(n - 1)
<1>1. CASE a >= 0
  <2>1. a % n \in 0..(n - 1)
    BY <1>1
  <2>2. QED
    BY <1>1, <2>1 DEF Rem
<1>2. CASE ~(a >= 0)
  <2>1. (-a) % n \in 0..(n - 1)
    BY <1>2
  <2>2. QED
    BY <1>2, <2>1 DEF Rem
<1>3. QED
  BY <1>1, <1>2

\* Get answers with an entry of its copy, whatever the counter.
LEMMA AnswerIsAnEntry ==
  ASSUME NEW b, OfOneUpdate(b), b.valid # 0, NEW c \in 0..(CounterSize - 1)
  PROVE  \E i \in 1..b.valid : AnswerOne(b, c) = {b.indexes[i]}
<1>1. b.total \in Nat \ {0} /\ b.valid \in Nat
  <2>1. b.valid \in Nat /\ b.total \in Nat
    BY SumsInUse
  <2>2. 0 \in 0..b.valid /\ b.valid \in 0..b.valid /\ 0 < b.valid
    BY <2>1
  <2>3. 0 < b.total
    BY <2>2, SumsInUse
  <2>4. QED
    BY <2>1, <2>3
<1>2. int(c) \in Int
  BY IPPoolAssumption DEF int
<1>3. Rem(int(c), b.total) \in (1 - b.total)..(b.total - 1)
  BY <1>1, <1>2, RemIsTarget
<1> DEFINE t == Rem(int(c), b.total)
<1>4. t \in Int /\ t < b.total
  BY <1>1, <1>3
<1> HIDE DEF t
<1>5. Pick(b, t) \in 1..b.valid
  BY <1>4, PickFinds
<1>6. Pick(b, t) # 0
  BY <1>1, <1>5
<1>7. AnswerOne(b, c) = {b.indexes[Pick(b, t)]}
  BY <1>6 DEF AnswerOne, t
<1>8. QED
  BY <1>5, <1>7

----
(* The order of the results. *)

\* A result of a test.
ATest == [ip: IPs, fails: 0..Attempts, latency: Nat]

LEMMA ResultTyped ==
  ASSUME NEW i \in IPs, NEW r \in Result(i)
  PROVE  r \in ATest /\ r.ip = i
<1>1. PICK m \in Measured(i) \cup {[fails |-> Attempts, latency |-> 0]} :
        r = [ip |-> i, fails |-> m.fails, latency |-> m.latency]
  BY DEF Result
<1>2. m.fails \in 0..Attempts /\ m.latency \in Nat
  <2>1. CASE m \in Measured(i)
    <3>1. m \in [fails: 0..(Attempts - 1), latency: Nat]
      BY <2>1, IPPoolAssumption
    <3>2. QED
      BY <3>1, IPPoolAssumption
  <2>2. CASE m = [fails |-> Attempts, latency |-> 0]
    BY <2>2, IPPoolAssumption
  <2>3. QED
    BY <2>1, <2>2
<1>3. QED
  BY <1>1, <1>2 DEF ATest

\* The order in which the stable sort puts the places of s.
Before(s, i, j) == Better(s[i], s[j]) \/ (~Better(s[j], s[i]) /\ i < j)

\* Better is a weak order.
LEMMA BetterIsWeakOrder ==
  ASSUME NEW a \in ATest, NEW b \in ATest, NEW c \in ATest
  PROVE  /\ ~(Better(a, b) /\ Better(b, a))
         /\ Better(a, b) => Better(a, c) \/ Better(c, b)
<1>1. /\ a.fails \in Nat /\ b.fails \in Nat /\ c.fails \in Nat
      /\ a.latency \in Nat /\ b.latency \in Nat /\ c.latency \in Nat
  BY IPPoolAssumption DEF ATest
<1>2. QED
  BY <1>1 DEF Better

\* Before is a strict order of the places, and any two of them are in order.
LEMMA BeforeIsStrictOrder ==
  ASSUME NEW s \in Seq(ATest), NEW i \in 1..Len(s), NEW j \in 1..Len(s), NEW k \in 1..Len(s)
  PROVE  /\ ~Before(s, i, i)
         /\ Before(s, i, j) /\ Before(s, j, k) => Before(s, i, k)
         /\ i # j => Before(s, i, j) \/ Before(s, j, i)
         /\ Before(s, i, j) => ~Better(s[j], s[i])
<1>1. s[i] \in ATest /\ s[j] \in ATest /\ s[k] \in ATest /\ i \in Int /\ j \in Int /\ k \in Int
  BY ElementOfSeq
<1> DEFINE b(x, y) == Better(s[x], s[y])
<1>2. /\ ~b(i, i) /\ ~(b(i, j) /\ b(j, i)) /\ ~(b(j, k) /\ b(k, j)) /\ ~(b(i, k) /\ b(k, i))
      /\ b(i, j) => b(i, k) \/ b(k, j)
      /\ b(j, k) => b(j, i) \/ b(i, k)
      /\ b(k, i) => b(k, j) \/ b(j, i)
  BY <1>1, BetterIsWeakOrder
<1> HIDE DEF b
<1>3. \A x, y : Before(s, x, y) <=> b(x, y) \/ (~b(y, x) /\ x < y)
  BY DEF Before, b
<1>4. i < j /\ j < k => i < k
  BY <1>1
<1>5. ~(i < i) /\ (i # j => i < j \/ j < i)
  BY <1>1
<1>6. QED
  BY <1>2, <1>3, <1>4, <1>5, Zenon DEF b

\* The places before a place, and how many they are.
Earlier(s, j) == {i \in 1..Len(s) : Before(s, i, j)}
Rank(s, j) == Cardinality(Earlier(s, j))

\* Ranks are less than the number of places, and in the order of the places.
LEMMA RanksAreInOrder ==
  ASSUME NEW s \in Seq(ATest)
  PROVE  /\ \A j \in 1..Len(s) : Rank(s, j) \in 0..(Len(s) - 1)
         /\ \A i, j \in 1..Len(s) : Before(s, i, j) => Rank(s, i) < Rank(s, j)
<1> DEFINE n == Len(s)
<1>1. n \in Nat /\ IsFiniteSet(1..n) /\ Cardinality(1..n) = n
  <2>1. n \in Nat
    OBVIOUS
  <2> HIDE DEF n
  <2>2. IsFiniteSet(1..n) /\ Cardinality(1..n) = IF 1 > n THEN 0 ELSE n - 1 + 1
    BY <2>1, FS_Interval
  <2>3. QED
    BY <2>1, <2>2
<1>2. \A j \in 1..n : /\ Earlier(s, j) \in SUBSET (1..n) /\ IsFiniteSet(Earlier(s, j))
                      /\ Rank(s, j) \in Nat /\ j \notin Earlier(s, j)
  <2> TAKE j \in 1..n
  <2>1. Earlier(s, j) \in SUBSET (1..n) /\ j \notin Earlier(s, j)
    BY BeforeIsStrictOrder DEF Earlier
  <2>2. IsFiniteSet(Earlier(s, j))
    BY <1>1, <2>1, FS_Subset
  <2>3. Rank(s, j) \in Nat
    BY <2>2, FS_CardinalityType DEF Rank
  <2>4. QED
    BY <2>1, <2>2, <2>3
<1>3. ASSUME NEW j \in 1..n PROVE Rank(s, j) \in 0..(n - 1)
  <2>1. Rank(s, j) <= n /\ (n = Rank(s, j) => 1..n = Earlier(s, j))
    BY <1>1, <1>2, FS_Subset DEF Rank
  <2>2. Rank(s, j) # n
    BY <1>2, <2>1
  <2>3. QED
    BY <1>1, <1>2, <2>1, <2>2
<1>4. ASSUME NEW i \in 1..n, NEW j \in 1..n, Before(s, i, j) PROVE Rank(s, i) < Rank(s, j)
  <2>1. Earlier(s, i) \subseteq Earlier(s, j)
    BY <1>4, BeforeIsStrictOrder DEF Earlier
  <2>2. i \in Earlier(s, j) /\ i \notin Earlier(s, i)
    BY <1>2, <1>4 DEF Earlier
  <2>3. Rank(s, i) <= Rank(s, j) /\ (Rank(s, j) = Rank(s, i) => Earlier(s, j) = Earlier(s, i))
    BY <1>2, <2>1, FS_Subset DEF Rank
  <2>4. Rank(s, i) # Rank(s, j)
    BY <2>2, <2>3
  <2>5. QED
    BY <1>2, <2>3, <2>4
<1>5. QED
  BY <1>3, <1>4

\* Each rank is taken, by one place.
LEMMA RanksAreTaken ==
  ASSUME NEW s \in Seq(ATest)
  PROVE  /\ \A i \in 1..Len(s) : \E j \in 1..Len(s) : Rank(s, j) = i - 1
         /\ \A i, j \in 1..Len(s) : Rank(s, i) = Rank(s, j) => i = j
<1> DEFINE n == Len(s)
<1>1. n \in Nat /\ IsFiniteSet(1..n)
  <2>1. n \in Nat
    OBVIOUS
  <2> HIDE DEF n
  <2>2. QED
    BY <2>1, FS_Interval
<1>2. /\ \A j \in 1..n : Rank(s, j) \in 0..(n - 1)
      /\ \A i, j \in 1..n : Before(s, i, j) => Rank(s, i) < Rank(s, j)
  BY RanksAreInOrder
<1>3. \A i, j \in 1..n : Rank(s, i) = Rank(s, j) => i = j
  <2> SUFFICES ASSUME NEW i \in 1..n, NEW j \in 1..n, Rank(s, i) = Rank(s, j), i # j
               PROVE  FALSE
    OBVIOUS
  <2>1. Before(s, i, j) \/ Before(s, j, i)
    BY BeforeIsStrictOrder
  <2>2. Rank(s, i) \in Int /\ Rank(s, j) \in Int
    BY <1>2
  <2>3. QED
    BY <1>2, <2>1, <2>2
<1> DEFINE f == [j \in 1..n |-> Rank(s, j) + 1]
<1> HIDE DEF n
<1>4. f \in [1..n -> 1..n]
  BY <1>1, <1>2
<1>5. \A i, j \in 1..n : f[i] = f[j] => i = j
  <2> SUFFICES ASSUME NEW i \in 1..n, NEW j \in 1..n, f[i] = f[j]
               PROVE  i = j
    OBVIOUS
  <2>1. Rank(s, i) = Rank(s, j)
    BY <1>2
  <2>2. QED
    BY <1>3, <2>1
<1>6. f \in Injection(1..n, 1..n)
  BY <1>4, <1>5 DEF Injection, IsInjective
<1>7. f \in Surjection(1..n, 1..n)
  BY <1>1, <1>6, FS_Injection
<1>8. \A i \in 1..n : \E j \in 1..n : f[j] = i
  BY <1>7 DEF Surjection
<1>9. \A i \in 1..n : \E j \in 1..n : Rank(s, j) = i - 1
  <2> TAKE i \in 1..n
  <2>1. PICK j \in 1..n : f[j] = i
    BY <1>8
  <2>2. Rank(s, j) + 1 = i /\ Rank(s, j) \in Int /\ i \in Int
    BY <1>2, <2>1
  <2>3. QED
    BY <2>2
<1>10. QED
  BY <1>3, <1>9 DEF n

\* Sorted puts every element of s in one place, better ones first.
LEMMA SortedSorts ==
  ASSUME NEW s \in Seq(ATest)
  PROVE  \E p \in [1..Len(s) -> 1..Len(s)] :
           /\ Sorted(s) = [i \in 1..Len(s) |-> s[p[i]]]
           /\ \A i, j \in 1..Len(s) : p[i] = p[j] => i = j
           /\ \A j \in 1..Len(s) : \E i \in 1..Len(s) : p[i] = j
           /\ \A i, j \in 1..Len(s) : i < j => ~Better(s[p[j]], s[p[i]])
<1> DEFINE n == Len(s)
           at(i) == CHOOSE j \in 1..n : Rank(s, j) = i - 1
           p == [i \in 1..n |-> at(i)]
<1>1. /\ \A i \in 1..n : \E j \in 1..n : Rank(s, j) = i - 1
      /\ \A i, j \in 1..n : Rank(s, i) = Rank(s, j) => i = j
  BY RanksAreTaken
<1>2. \A i \in 1..n : at(i) \in 1..n /\ Rank(s, at(i)) = i - 1
  BY <1>1
<1>3. Sorted(s) = [i \in 1..n |-> s[at(i)]]
  BY DEF Sorted, Rank, Earlier, Before
<1> HIDE DEF at
<1>4. p \in [1..n -> 1..n] /\ \A i \in 1..n : p[i] \in 1..n /\ Rank(s, p[i]) = i - 1
  BY <1>2
<1>5. Sorted(s) = [i \in 1..n |-> s[p[i]]]
  BY <1>3
<1> HIDE DEF p
<1>6. \A i, j \in 1..n : p[i] = p[j] => i = j
  <2> SUFFICES ASSUME NEW i \in 1..n, NEW j \in 1..n, p[i] = p[j] PROVE i = j
    OBVIOUS
  <2>1. i - 1 = j - 1
    BY <1>4
  <2>2. QED
    BY <2>1
<1>7. \A j \in 1..n : \E i \in 1..n : p[i] = j
  <2> TAKE j \in 1..n
  <2>1. Rank(s, j) \in 0..(n - 1) /\ n \in Nat
    BY RanksAreInOrder
  <2>2. PICK i \in 1..n : i - 1 = Rank(s, j)
    <3> DEFINE r == Rank(s, j)
    <3>1. r \in 0..(n - 1) /\ n \in Nat
      BY <2>1
    <3> HIDE DEF r, n
    <3>2. PICK i : i = r + 1
      OBVIOUS
    <3>3. i \in 1..n /\ i - 1 = r
      BY <3>1, <3>2
    <3>4. QED
      BY <3>3 DEF r
  <2>3. Rank(s, p[i]) = Rank(s, j) /\ p[i] \in 1..n
    BY <1>4, <2>2, Zenon
  <2>4. p[i] = j
    BY <1>1, <2>3
  <2>5. QED
    BY <2>4
<1>8. \A i, j \in 1..n : i < j => ~Better(s[p[j]], s[p[i]])
  <2> SUFFICES ASSUME NEW i \in 1..n, NEW j \in 1..n, i < j PROVE ~Better(s[p[j]], s[p[i]])
    OBVIOUS
  <2>1. Rank(s, p[i]) < Rank(s, p[j]) /\ p[i] \in 1..n /\ p[j] \in 1..n /\ p[i] # p[j]
    BY <1>4, <1>6
  <2>2. ~Before(s, p[j], p[i])
    <3>1. Rank(s, p[i]) \in Int /\ Rank(s, p[j]) \in Int
      BY <2>1, RanksAreInOrder
    <3>2. Before(s, p[j], p[i]) => Rank(s, p[j]) < Rank(s, p[i])
      BY <2>1, RanksAreInOrder
    <3>3. QED
      BY <2>1, <3>1, <3>2
  <2>3. Before(s, p[i], p[j])
    BY <2>1, <2>2, BeforeIsStrictOrder
  <2>4. QED
    BY <2>1, <2>3, BeforeIsStrictOrder
<1>9. QED
  BY <1>4, <1>5, <1>6, <1>7, <1>8

----
(* The results with a success. *)

\* f filters s: what the recursive function of Reached is chosen to be.
Filters(s, n, f) ==
  f = [i \in 0..n |-> IF i = 0 THEN <<>>
                      ELSE IF s[i].fails < Attempts THEN Append(f[i - 1], s[i]) ELSE f[i - 1]]

LEMMA FiltersExist ==
  ASSUME NEW s, NEW n \in Nat
  PROVE  \E f : Filters(s, n, f)
<1> DEFINE bad == {k \in Nat : ~ \E f : Filters(s, k, f)}
<1> SUFFICES ASSUME bad # {} PROVE FALSE
  OBVIOUS
<1>1. PICK d \in bad : \A e \in bad : d <= e
  BY Smallest
<1>2. CASE d = 0
  <2>1. Filters(s, 0, [i \in 0..0 |-> <<>>])
    BY DEF Filters
  <2>2. QED
    BY <1>1, <1>2, <2>1
<1>3. CASE d # 0
  <2>1. d - 1 \in Nat /\ d - 1 \notin bad
    BY <1>1, <1>3
  <2>2. PICK f : Filters(s, d - 1, f)
    BY <2>1
  <2> DEFINE last == IF s[d].fails < Attempts THEN Append(f[d - 1], s[d]) ELSE f[d - 1]
             g == [i \in 0..d |-> IF i = d THEN last ELSE f[i]]
             next(h, i) == IF i = 0 THEN <<>>
                           ELSE IF s[i].fails < Attempts THEN Append(h[i - 1], s[i]) ELSE h[i - 1]
  <2>3. \A i \in 0..(d - 1) : f[i] = next(f, i)
    BY <2>2 DEF Filters
  <2>4. \A i \in 0..(d - 1) : g[i] = f[i]
    BY <2>1
  <2>5. \A i \in 0..d : g[i] = next(g, i)
    <3> TAKE i \in 0..d
    <3>1. CASE i = d
      <4>1. g[i] = last /\ g[d - 1] = f[d - 1]
        BY <1>3, <2>1, <2>4, <3>1
      <4>2. QED
        BY <1>3, <3>1, <4>1
    <3>2. CASE i # d
      <4>1. i \in 0..(d - 1) /\ (i # 0 => i - 1 \in 0..(d - 1))
        BY <2>1, <3>2
      <4>2. g[i] = f[i] /\ (i # 0 => g[i - 1] = f[i - 1])
        BY <2>4, <4>1
      <4>3. QED
        BY <2>3, <4>1, <4>2
    <3>3. QED
      BY <3>1, <3>2
  <2>6. g = [i \in 0..d |-> g[i]]
    OBVIOUS
  <2> HIDE DEF g
  <2>7. [i \in 0..d |-> g[i]] = [i \in 0..d |-> next(g, i)]
    BY <2>5
  <2>8. Filters(s, d, g)
    BY <2>6, <2>7 DEF Filters
  <2>9. QED
    BY <1>1, <2>8
<1>4. QED
  BY <1>2, <1>3

\* t has the results with a success among the first k of s, each once.
Keeps(s, k, t) ==
  /\ t \in Seq(ATest)
  /\ \A i \in 1..Len(t) : \E j \in 1..k : t[i] = s[j] /\ s[j].fails < Attempts
  /\ \A j \in 1..k : s[j].fails < Attempts => \E i \in 1..Len(t) : t[i] = s[j]
  /\ \A i, j \in 1..Len(t) : t[i].ip = t[j].ip => i = j

\* One more result, without and with a success.
LEMMA KeepsNoMore ==
  ASSUME NEW s, NEW d \in Nat \ {0}, NEW t, Keeps(s, d - 1, t), ~(s[d].fails < Attempts)
  PROVE  Keeps(s, d, t)
<1>1. \A j \in 1..d : j \in 1..(d - 1) \/ j = d
  OBVIOUS
<1>2. \A j \in 1..(d - 1) : j \in 1..d
  OBVIOUS
<1>3. QED
  BY <1>1, <1>2 DEF Keeps

LEMMA KeepsOneMore ==
  ASSUME NEW s, NEW d \in Nat \ {0}, NEW t, Keeps(s, d - 1, t), s[d].fails < Attempts,
         s[d] \in ATest, \A j \in 1..(d - 1) : s[j].ip # s[d].ip
  PROVE  Keeps(s, d, Append(t, s[d]))
<1> DEFINE u == Append(t, s[d])
<1>1. t \in Seq(ATest)
  BY DEF Keeps
<1>2. /\ u \in Seq(ATest) /\ Len(u) = Len(t) + 1 /\ u[Len(u)] = s[d] /\ Len(t) \in Nat
      /\ \A i \in 1..Len(t) : u[i] = t[i]
  BY <1>1
<1> HIDE DEF u
<1>3. /\ \A i \in 1..Len(u) : i \in 1..Len(t) \/ i = Len(u)
      /\ Len(u) \in 1..Len(u) /\ \A i \in 1..Len(t) : i \in 1..Len(u)
      /\ \A j \in 1..d : j \in 1..(d - 1) \/ j = d
      /\ d \in 1..d /\ \A j \in 1..(d - 1) : j \in 1..d
  BY <1>2
<1>4. \A i \in 1..Len(u) : \E j \in 1..d : u[i] = s[j] /\ s[j].fails < Attempts
  <2> TAKE i \in 1..Len(u)
  <2>1. CASE i = Len(u)
    BY <1>2, <1>3, <2>1
  <2>2. CASE i \in 1..Len(t)
    <3>1. PICK j \in 1..(d - 1) : t[i] = s[j] /\ s[j].fails < Attempts
      BY <2>2 DEF Keeps
    <3>2. QED
      BY <1>2, <1>3, <2>2, <3>1
  <2>3. QED
    BY <1>3, <2>1, <2>2
<1>5. \A j \in 1..d : s[j].fails < Attempts => \E i \in 1..Len(u) : u[i] = s[j]
  <2> SUFFICES ASSUME NEW j \in 1..d, s[j].fails < Attempts
               PROVE  \E i \in 1..Len(u) : u[i] = s[j]
    OBVIOUS
  <2>1. CASE j = d
    BY <1>2, <1>3, <2>1
  <2>2. CASE j \in 1..(d - 1)
    <3>1. PICK i \in 1..Len(t) : t[i] = s[j]
      BY <2>2 DEF Keeps
    <3>2. QED
      BY <1>2, <1>3, <3>1
  <2>3. QED
    BY <1>3, <2>1, <2>2
<1>6. \A i \in 1..Len(t) : t[i].ip # s[d].ip
  <2> TAKE i \in 1..Len(t)
  <2>1. PICK j \in 1..(d - 1) : t[i] = s[j]
    BY DEF Keeps
  <2>2. QED
    BY <2>1
<1>7. \A i, j \in 1..Len(u) : u[i].ip = u[j].ip => i = j
  <2> SUFFICES ASSUME NEW i \in 1..Len(u), NEW j \in 1..Len(u), u[i].ip = u[j].ip, i # j
               PROVE  FALSE
    OBVIOUS
  <2>1. CASE i = Len(u)
    BY <1>2, <1>3, <1>6, <2>1
  <2>2. CASE j = Len(u)
    BY <1>2, <1>3, <1>6, <2>2
  <2>3. CASE i \in 1..Len(t) /\ j \in 1..Len(t)
    <3>1. t[i].ip = t[j].ip
      BY <1>2, <2>3
    <3>2. QED
      BY <2>3, <3>1 DEF Keeps
  <2>4. QED
    BY <1>3, <2>1, <2>2, <2>3
<1>8. QED
  BY <1>2, <1>4, <1>5, <1>7 DEF Keeps, u

\* Reached keeps the results with a success and nothing else, each once.
LEMMA ReachedKeeps ==
  ASSUME NEW s \in Seq(ATest), \A i, j \in 1..Len(s) : s[i].ip = s[j].ip => i = j
  PROVE  /\ Reached(s) \in Seq(ATest)
         /\ {Reached(s)[i] : i \in 1..Len(Reached(s))}
              = {r \in {s[i] : i \in 1..Len(s)} : r.fails < Attempts}
         /\ \A i, j \in 1..Len(Reached(s)) : Reached(s)[i].ip = Reached(s)[j].ip => i = j
<1> DEFINE n == Len(s)
           acc == CHOOSE f : f = [i \in 0..n |-> IF i = 0 THEN <<>>
                       ELSE IF s[i].fails < Attempts THEN Append(f[i - 1], s[i]) ELSE f[i - 1]]
<1>1. n \in Nat
  OBVIOUS
<1>2. Reached(s) = acc[n]
  BY DEF Reached
<1>3. \E f : f = [i \in 0..n |-> IF i = 0 THEN <<>>
                    ELSE IF s[i].fails < Attempts THEN Append(f[i - 1], s[i]) ELSE f[i - 1]]
  <2> HIDE DEF n
  <2>1. \E f : Filters(s, n, f)
    BY <1>1, FiltersExist
  <2>2. QED
    BY <2>1 DEF Filters
<1>4. acc = [i \in 0..n |-> IF i = 0 THEN <<>>
               ELSE IF s[i].fails < Attempts THEN Append(acc[i - 1], s[i]) ELSE acc[i - 1]]
  BY <1>3, Zenon
<1> HIDE DEF acc, n
<1>5. acc[0] = <<>>
  BY <1>1, <1>4
<1>6. \A i \in 1..n : acc[i] = IF s[i].fails < Attempts THEN Append(acc[i - 1], s[i])
                               ELSE acc[i - 1]
  <2> TAKE i \in 1..n
  <2>1. i \in 0..n /\ i # 0
    BY <1>1
  <2> DEFINE e(j) == IF j = 0 THEN <<>>
                     ELSE IF s[j].fails < Attempts THEN Append(acc[j - 1], s[j]) ELSE acc[j - 1]
  <2>2. acc = [j \in 0..n |-> e(j)]
    BY <1>4
  <2> HIDE DEF e
  <2>3. acc[i] = e(i)
    BY <2>1, <2>2
  <2>4. QED
    BY <2>1, <2>3 DEF e
<1>7. \A k \in 0..n : Keeps(s, k, acc[k])
  <2> DEFINE bad == {k \in Nat : k <= n /\ ~Keeps(s, k, acc[k])}
  <2> SUFFICES ASSUME bad # {} PROVE FALSE
    BY <1>1
  <2>1. PICK d \in bad : \A e \in bad : d <= e
    BY Smallest
  <2>2. Keeps(s, 0, acc[0])
    BY <1>5 DEF Keeps
  <2>3. d \in 1..n /\ d - 1 \in Nat /\ d \in Nat \ {0}
    BY <1>1, <2>1, <2>2
  <2>4. Keeps(s, d - 1, acc[d - 1])
    BY <1>1, <2>1, <2>3
  <2>5. s[d] \in ATest /\ \A j \in 1..(d - 1) : s[j].ip # s[d].ip
    <3>1. \A j \in 1..(d - 1) : j \in 1..Len(s) /\ j # d
      BY <1>1, <2>3 DEF n
    <3>2. d \in 1..Len(s)
      BY <2>3 DEF n
    <3>3. QED
      BY <3>1, <3>2
  <2>6. Keeps(s, d, acc[d])
    BY <1>6, <2>3, <2>4, <2>5, KeepsNoMore, KeepsOneMore
  <2>7. QED
    BY <2>1, <2>6
<1> DEFINE t == Reached(s)
<1>8. Keeps(s, n, t)
  BY <1>1, <1>2, <1>7
<1> HIDE DEF t
<1>9. {t[i] : i \in 1..Len(t)} = {r \in {s[i] : i \in 1..n} : r.fails < Attempts}
  <2>1. \A i \in 1..Len(t) : \E j \in 1..n : t[i] = s[j] /\ s[j].fails < Attempts
    BY <1>8 DEF Keeps
  <2>2. \A j \in 1..n : s[j].fails < Attempts => \E i \in 1..Len(t) : t[i] = s[j]
    BY <1>8 DEF Keeps
  <2>3. ASSUME NEW r \in {t[i] : i \in 1..Len(t)}
        PROVE  r \in {s[i] : i \in 1..n} /\ r.fails < Attempts
    <3>1. PICK i \in 1..Len(t) : r = t[i]
      OBVIOUS
    <3>2. PICK j \in 1..n : t[i] = s[j] /\ s[j].fails < Attempts
      BY <2>1
    <3>3. QED
      BY <3>1, <3>2
  <2>4. ASSUME NEW r \in {s[i] : i \in 1..n}, r.fails < Attempts
        PROVE  r \in {t[i] : i \in 1..Len(t)}
    <3>1. PICK j \in 1..n : r = s[j]
      OBVIOUS
    <3>2. PICK i \in 1..Len(t) : t[i] = s[j]
      BY <2>2, <2>4, <3>1
    <3>3. QED
      BY <3>1, <3>2
  <2>5. QED
    BY <2>3, <2>4
<1>10. QED
  BY <1>8, <1>9 DEF Keeps, t, n

----
(* An update. *)

LEMMA MinAndMaxOfTwo ==
  ASSUME NEW x \in Int, NEW y \in Int
  PROVE  /\ Min({x, y}) = IF x <= y THEN x ELSE y
         /\ Max({x, y}) = IF x >= y THEN x ELSE y
<1>1. ASSUME NEW m \in {x, y}, NEW k \in {x, y},
             \A e \in {x, y} : m <= e, \A e \in {x, y} : k <= e
      PROVE  m = k
  BY <1>1
<1>2. ASSUME NEW m \in {x, y}, NEW k \in {x, y},
             \A e \in {x, y} : m >= e, \A e \in {x, y} : k >= e
      PROVE  m = k
  BY <1>2
<1> DEFINE least == IF x <= y THEN x ELSE y
           most == IF x >= y THEN x ELSE y
<1>3. least \in {x, y} /\ \A e \in {x, y} : least <= e
  OBVIOUS
<1>4. most \in {x, y} /\ \A e \in {x, y} : most >= e
  OBVIOUS
<1> HIDE DEF least, most
<1>5. Min({x, y}) \in {x, y} /\ \A e \in {x, y} : Min({x, y}) <= e
  BY <1>3 DEF Min
<1>6. Max({x, y}) \in {x, y} /\ \A e \in {x, y} : Max({x, y}) >= e
  BY <1>4 DEF Max
<1>7. Min({x, y}) = least
  BY <1>1, <1>3, <1>5
<1>8. Max({x, y}) = most
  BY <1>2, <1>4, <1>6
<1>9. QED
  BY <1>7, <1>8 DEF least, most

\* A weight is clamped to 1..MaxWeight.
LEMMA WeightIsClamped ==
  ASSUME NEW r \in ATest
  PROVE  Weight(r) \in 1..MaxWeight
<1> DEFINE d == r.latency * (Attempts + r.fails)
           q == (Scale * Attempts) \div d
           m == Min({MaxWeight, q})
<1>1. /\ MaxWeight \in Nat \ {0} /\ Scale \in Nat /\ Attempts \in Nat \ {0}
      /\ r.latency \in Nat /\ r.fails \in Nat
  BY IPPoolAssumption DEF ATest
<1>2. d \in Nat /\ Scale * Attempts \in Nat
  <2>1. Attempts + r.fails \in Nat
    BY <1>1
  <2>2. QED
    BY <1>1, <2>1
<1>3. Weight(r) = IF d = 0 THEN MaxWeight ELSE Max({1, m})
  BY DEF Weight
<1> HIDE DEF d
<1>4. CASE d = 0
  BY <1>1, <1>3, <1>4
<1>5. CASE d # 0
  <2>1. q \in Int
    <3>1. d \in Nat \ {0}
      BY <1>2, <1>5
    <3>2. QED
      BY <1>2, <3>1
  <2> HIDE DEF q
  <2>2. m = IF MaxWeight <= q THEN MaxWeight ELSE q
    BY <1>1, <2>1, MinAndMaxOfTwo
  <2>3. m \in Int /\ m <= MaxWeight
    BY <1>1, <2>1, <2>2
  <2> HIDE DEF m
  <2>4. Max({1, m}) = IF 1 >= m THEN 1 ELSE m
    BY <2>3, MinAndMaxOfTwo
  <2>5. QED
    BY <1>1, <1>3, <1>5, <2>3, <2>4
<1>6. QED
  BY <1>4, <1>5

\* The places of b in use have the best of the results v, and as many as there is room for.
KeptIn(b) == {b.indexes[i] : i \in 1..b.valid}
BestOf(b, v) ==
  /\ KeptIn(b) \subseteq {r.ip : r \in v}
  /\ Cardinality(KeptIn(b)) = Min({TopCount, Cardinality(v)})
  /\ \A x, y \in v : (x.ip \in KeptIn(b) /\ y.ip \notin KeptIn(b)) => ~Better(y, x)

\* An injective function on 1..n has n values.
LEMMA ValuesCounted ==
  ASSUME NEW n \in Nat, NEW f, f = [i \in 1..n |-> f[i]], \A i, j \in 1..n : f[i] = f[j] => i = j
  PROVE  Cardinality({f[i] : i \in 1..n}) = n
<1> DEFINE S == {f[i] : i \in 1..n}
<1>1. f \in [1..n -> S]
  OBVIOUS
<1>2. \A y \in S : \E i \in 1..n : f[i] = y
  OBVIOUS
<1> HIDE DEF S
<1>3. f \in Bijection(1..n, S)
  BY <1>1, <1>2 DEF Bijection, Injection, Surjection, IsInjective
<1>4. IsFiniteSet(1..n) /\ Cardinality(1..n) = n
  <2> HIDE DEF S
  <2>0. n \in Int /\ 1 \in Int
    OBVIOUS
  <2>1. IsFiniteSet(1..n) /\ Cardinality(1..n) = IF 1 > n THEN 0 ELSE n - 1 + 1
    BY <2>0, FS_Interval
  <2>2. QED
    BY <2>1
<1>5. ExistsBijection(1..n, S)
  BY <1>3 DEF ExistsBijection
<1>6. Cardinality(S) = n
  BY <1>4, <1>5, FS_Bijection
<1>7. QED
  BY <1>6 DEF S

\* updateBest leaves behind places that are of one update and the best of the results.
LEMMA UpdateIsBest ==
  ASSUME NEW ok \in Seq(ATest), ok # <<>>, best.indexes \in [1..TopCount -> IPs],
         \A i, j \in 1..Len(ok) : ok[i].ip = ok[j].ip => i = j
  PROVE  /\ OfOneUpdate(updateBest(ok)) /\ updateBest(ok).valid # 0
         /\ BestOf(updateBest(ok), {ok[i] : i \in 1..Len(ok)})
<1> DEFINE sorted == Sorted(ok)
           n == Min({TopCount, Len(sorted)})
           weights == [i \in 1..TopCount |-> IF i <= n THEN Weight(sorted[i]) ELSE 0]
           indexes == [i \in 1..TopCount |-> IF i <= n THEN sorted[i].ip ELSE best.indexes[i]]
           b == updateBest(ok)
           v == {ok[i] : i \in 1..Len(ok)}
<1>1. b = [indexes |-> indexes, weights |-> weights, total |-> Total(weights, n), valid |-> n]
  BY DEF updateBest
<1> HIDE DEF b
<1>2. PICK p \in [1..Len(ok) -> 1..Len(ok)] :
        /\ sorted = [i \in 1..Len(ok) |-> ok[p[i]]]
        /\ \A i, j \in 1..Len(ok) : p[i] = p[j] => i = j
        /\ \A j \in 1..Len(ok) : \E i \in 1..Len(ok) : p[i] = j
        /\ \A i, j \in 1..Len(ok) : i < j => ~Better(ok[p[j]], ok[p[i]])
  BY SortedSorts
<1> HIDE DEF sorted
<1>3. Len(ok) \in Nat \ {0}
  OBVIOUS
<1>4. Len(sorted) = Len(ok) /\ \A i \in 1..Len(ok) : sorted[i] = ok[p[i]] /\ sorted[i] \in ATest
  BY <1>2, <1>3
<1>5. TopCount \in Nat \ {0}
  BY IPPoolAssumption
<1>6. n = IF TopCount <= Len(ok) THEN TopCount ELSE Len(ok)
  BY <1>3, <1>4, <1>5, MinAndMaxOfTwo
<1>7. n \in 1..Len(ok) /\ n \in 1..TopCount /\ (n = TopCount \/ n = Len(ok))
  BY <1>3, <1>5, <1>6
<1> HIDE DEF n
<1>8. OfOneUpdate(b) /\ b.valid # 0
  <2>1. \A i \in 1..TopCount : i <= n => i \in 1..Len(ok)
    BY <1>3, <1>5, <1>7
  <2>2. \A i \in 1..TopCount : i <= n => Weight(sorted[i]) \in 1..MaxWeight
    BY <1>4, <2>1, WeightIsClamped
  <2>3. MaxWeight \in Nat \ {0}
    BY IPPoolAssumption
  <2>4. weights \in [1..TopCount -> 0..MaxWeight]
    BY <2>2, <2>3
  <2>5. \A i \in 1..n : i \in 1..TopCount /\ i <= n
    BY <1>5, <1>7
  <2>6. \A i \in 1..n : weights[i] > 0
    BY <2>2, <2>3, <2>5
  <2>7. \A i \in 1..Len(ok) : sorted[i].ip \in IPs
    BY <1>4 DEF ATest
  <2>8. indexes \in [1..TopCount -> IPs]
    BY <2>1, <2>7
  <2>9. n \in 0..TopCount /\ n # 0
    BY <1>5, <1>7
  <2> HIDE DEF weights, indexes
  <2>10. QED
    BY <1>1, <2>4, <2>6, <2>8, <2>9 DEF OfOneUpdate
<1>9. \A i \in 1..n : b.indexes[i] = sorted[i].ip /\ i \in 1..Len(ok)
  <2>1. \A i \in 1..n : i \in 1..Len(ok) /\ i \in 1..TopCount /\ i <= n
    BY <1>3, <1>5, <1>7
  <2>2. QED
    BY <1>1, <2>1
<1>10. b.valid = n /\ n \in Nat
  BY <1>1, <1>7
<1>11. \A i, j \in 1..Len(ok) : sorted[i].ip = sorted[j].ip => i = j
  <2> SUFFICES ASSUME NEW i \in 1..Len(ok), NEW j \in 1..Len(ok), sorted[i].ip = sorted[j].ip
               PROVE  i = j
    OBVIOUS
  <2>1. p[i] \in 1..Len(ok) /\ p[j] \in 1..Len(ok) /\ ok[p[i]].ip = ok[p[j]].ip
    BY <1>2, <1>4
  <2>2. p[i] = p[j]
    BY <2>1
  <2>3. QED
    BY <1>2, <2>2
<1>12. KeptIn(b) = {sorted[i].ip : i \in 1..n}
  BY <1>9, <1>10 DEF KeptIn
<1>13. KeptIn(b) \subseteq {r.ip : r \in v}
  <2> SUFFICES ASSUME NEW i \in 1..n PROVE sorted[i].ip \in {r.ip : r \in v}
    BY <1>12
  <2>1. sorted[i] \in v
    BY <1>2, <1>4, <1>9
  <2>2. QED
    BY <2>1
<1>14. Cardinality(KeptIn(b)) = Min({TopCount, Cardinality(v)})
  <2> DEFINE f == [i \in 1..n |-> sorted[i].ip]
             g == [i \in 1..Len(ok) |-> ok[i]]
  <2>1. Cardinality({f[i] : i \in 1..n}) = n
    <3>1. \A i, j \in 1..n : f[i] = f[j] => i = j
      BY <1>9, <1>11
    <3>2. f = [i \in 1..n |-> f[i]]
      OBVIOUS
    <3> HIDE DEF f
    <3>3. QED
      BY <1>10, <3>1, <3>2, ValuesCounted
  <2>2. {f[i] : i \in 1..n} = KeptIn(b)
    BY <1>12
  <2>3. Cardinality({g[i] : i \in 1..Len(ok)}) = Len(ok)
    <3>1. \A i, j \in 1..Len(ok) : g[i] = g[j] => i = j
      OBVIOUS
    <3>2. g = [i \in 1..Len(ok) |-> g[i]]
      OBVIOUS
    <3> HIDE DEF g
    <3>3. QED
      BY <1>3, <3>1, <3>2, ValuesCounted, SMTT(30)
  <2>4. {g[i] : i \in 1..Len(ok)} = v
    OBVIOUS
  <2>5. QED
    BY <1>4, <2>1, <2>2, <2>3, <2>4 DEF n
<1>15. ASSUME NEW x \in v, NEW y \in v, x.ip \in KeptIn(b), y.ip \notin KeptIn(b)
       PROVE  ~Better(y, x)
  <2>1. \A z \in v : \E i \in 1..Len(ok) : z = sorted[i]
    <3> TAKE z \in v
    <3>1. PICK j \in 1..Len(ok) : z = ok[j]
      OBVIOUS
    <3>2. PICK i \in 1..Len(ok) : p[i] = j
      BY <1>2
    <3>3. QED
      BY <1>4, <3>1, <3>2
  <2>2. PICK i \in 1..Len(ok) : x = sorted[i]
    BY <2>1
  <2>3. PICK j \in 1..Len(ok) : y = sorted[j]
    BY <2>1
  <2>4. i \in 1..n
    <3>1. PICK k \in 1..n : x.ip = sorted[k].ip
      BY <1>12, <1>15
    <3>2. QED
      BY <1>9, <1>11, <2>2, <3>1
  <2>5. j \notin 1..n
    BY <1>12, <1>15, <2>3
  <2>6. i < j
    BY <1>3, <1>10, <2>4, <2>5
  <2>7. QED
    BY <1>2, <1>4, <2>2, <2>3, <2>6
<1>16. QED
  BY <1>8, <1>13, <1>14, <1>15 DEF BestOf, b

----
(* The invariant. *)

\* An IP has a result only once its test is over, and one only.
OneResult ==
  /\ results \in Seq(ATest)
  /\ \A i \in 1..Len(results) : test[results[i].ip] = "done"
  /\ \A i, j \in 1..Len(results) : results[i].ip = results[j].ip => i = j

\* The pool is as one update left it, and has the best of the results of that scan.
Pool ==
  /\ OfOneUpdate(best) /\ BestOf(best, valid)
  /\ best.valid = 0 => best = noBest /\ valid = {}

\* A copy is what the pool was.
Copies ==
  /\ snap = [g \in Getters |-> snap[g]]
  /\ \A g \in Getters : snap[g].taken =>
       /\ OfOneUpdate(snap[g].best) /\ snap[g].best.valid # 0
       /\ KeptIn(snap[g].best) \subseteq snap[g].usable

\* The inductive invariant of a pool.
PoolIInv == PoolTypeOK /\ OneResult /\ Pool /\ Copies

\* The pool is empty before the first scan.
LEMMA EmptyPool == OfOneUpdate(noBest) /\ BestOf(noBest, {})
<1>1. TopCount \in Nat \ {0} /\ MaxWeight \in Nat \ {0} /\ 1 \in IPs
  <2>1. IPs # {} /\ IPs = 1..Cardinality(IPs) /\ Cardinality(IPs) \in Nat
    BY IPPoolAssumption, FS_CardinalityType
  <2>2. QED
    BY <2>1, IPPoolAssumption
<1>2. /\ noBest.indexes = [i \in 1..TopCount |-> 1] /\ noBest.weights = [i \in 1..TopCount |-> 0]
      /\ noBest.total = 0 /\ noBest.valid = 0
  BY DEF noBest
<1>3. Total(noBest.weights, 0) = 0
  BY TotalUnfolds
<1>4. OfOneUpdate(noBest)
  BY <1>1, <1>2, <1>3 DEF OfOneUpdate
<1>5. KeptIn(noBest) = {}
  BY <1>2 DEF KeptIn
<1>6. Cardinality({}) = 0 /\ Min({TopCount, 0}) = 0
  BY <1>1, FS_EmptySet, MinAndMaxOfTwo
<1>7. BestOf(noBest, {})
  BY <1>5, <1>6 DEF BestOf
<1>8. QED
  BY <1>4, <1>7

LEMMA NoTests == Cardinality({}) <= Concurrency
<1>1. Cardinality({}) = 0 /\ Concurrency \in Nat
  BY FS_EmptySet, IPPoolAssumption
<1>2. QED
  BY <1>1

LEMMA PoolInitIInv == PoolInit => PoolIInv
<1> SUFFICES ASSUME PoolInit PROVE PoolIInv
  OBVIOUS
<1>1. OneResult
  BY DEF PoolInit, OneResult
<1>2. Pool
  BY EmptyPool DEF PoolInit, Pool
<1>3. Copies
  BY DEF PoolInit, Copies, noSnap
<1>4. PoolTypeOK
  <2>1. {i \in IPs : test[i] = "testing"} = {}
    BY DEF PoolInit
  <2>2. Cardinality({i \in IPs : test[i] = "testing"}) <= Concurrency
    BY <2>1, NoTests
  <2>3. {wait, multi, narrow, serving} \subseteq BOOLEAN
    BY IPPoolAssumption DEF PoolInit
  <2>4. /\ best.indexes \in [1..TopCount -> IPs] /\ best.weights \in [1..TopCount -> 0..MaxWeight]
        /\ best.valid \in 0..TopCount
    BY <1>2 DEF Pool, OfOneUpdate
  <2>5. best.total \in Nat /\ valid = {} /\ counter \in 0..(CounterSize - 1)
    BY IPPoolAssumption DEF PoolInit, noBest
  <2>6. \A g \in Getters : ~snap[g].taken
    BY DEF PoolInit, noSnap
  <2>7. /\ scan \in {"start", "first", "testing", "idle"}
        /\ test \in [IPs -> {"none", "queued", "testing", "done"}]
        /\ \A i \in 1..Len(results) : results[i] \in Result(results[i].ip)
    BY DEF PoolInit
  <2>8. QED
    BY <2>2, <2>3, <2>4, <2>5, <2>6, <2>7 DEF PoolTypeOK
<1>5. QED
  BY <1>1, <1>2, <1>3, <1>4 DEF PoolIInv

\* Steps that leave pool, copies and results alone.
LEMMA KeptParts ==
  ASSUME PoolIInv
  PROVE  /\ UNCHANGED <<best, valid>> => Pool'
         /\ UNCHANGED snap => Copies'
         /\ UNCHANGED <<test, results>> => OneResult'
<1>1. ASSUME UNCHANGED <<best, valid>> PROVE Pool'
  BY <1>1 DEF PoolIInv, Pool
<1>2. ASSUME UNCHANGED snap PROVE Copies'
  BY <1>2 DEF PoolIInv, Copies, OfOneUpdate, KeptIn
<1>3. ASSUME UNCHANGED <<test, results>> PROVE OneResult'
  BY <1>3 DEF PoolIInv, OneResult
<1>4. QED
  BY <1>1, <1>2, <1>3

LEMMA ServeStep == ASSUME PoolIInv, Serve PROVE PoolIInv'
<1>1. UNCHANGED <<options, scan, test, results, best, valid, getVars>> /\ serving' = TRUE
  BY DEF Serve
<1>2. Pool' /\ Copies' /\ OneResult'
  BY <1>1, KeptParts DEF getVars
<1>3. PoolTypeOK'
  BY <1>1 DEF PoolIInv, PoolTypeOK, getVars, options
<1>4. QED
  BY <1>2, <1>3 DEF PoolIInv

LEMMA ScanStartStep == ASSUME PoolIInv, ScanStart PROVE PoolIInv'
<1>1. /\ UNCHANGED <<options, serving, best, valid, getVars>>
      /\ scan' \in {"first", "testing"} /\ test' = [i \in IPs |-> "queued"] /\ results' = <<>>
  BY DEF ScanStart
<1>2. Pool' /\ Copies'
  BY <1>1, KeptParts DEF getVars
<1>3. OneResult'
  BY <1>1 DEF OneResult
<1>4. PoolTypeOK'
  <2>1. {i \in IPs : test'[i] = "testing"} = {}
    BY <1>1
  <2>2. Cardinality({i \in IPs : test'[i] = "testing"}) <= Concurrency
    BY <2>1, NoTests
  <2>3. /\ test' \in [IPs -> {"none", "queued", "testing", "done"}]
        /\ \A i \in 1..Len(results') : results'[i] \in Result(results'[i].ip)
    BY <1>1
  <2>4. QED
    BY <1>1, <2>2, <2>3 DEF PoolIInv, PoolTypeOK, getVars, options
<1>5. QED
  BY <1>2, <1>3, <1>4 DEF PoolIInv

LEMMA TestStartStep == ASSUME PoolIInv, NEW i \in IPs, TestStart(i) PROVE PoolIInv'
<1>1. /\ UNCHANGED <<options, serving, scan, results, best, valid, getVars>>
      /\ test[i] = "queued" /\ test' = [test EXCEPT ![i] = "testing"]
      /\ Cardinality({j \in IPs : test[j] = "testing"}) < Concurrency
  BY DEF TestStart
<1>2. Pool' /\ Copies'
  BY <1>1, KeptParts DEF getVars
<1>3. test \in [IPs -> {"none", "queued", "testing", "done"}]
  BY DEF PoolIInv, PoolTypeOK
<1>4. OneResult'
  <2>1. \A k \in IPs : test[k] = "done" => test'[k] = "done"
    BY <1>1, <1>3
  <2>2. \A k \in 1..Len(results) : results[k].ip \in IPs /\ test[results[k].ip] = "done"
    <3>1. \A k \in 1..Len(results) : results[k] \in ATest
      BY DEF PoolIInv, OneResult
    <3>2. QED
      BY <3>1 DEF PoolIInv, OneResult, ATest
  <2>3. QED
    BY <1>1, <2>1, <2>2 DEF PoolIInv, OneResult
<1>5. PoolTypeOK'
  <2> DEFINE S == {j \in IPs : test[j] = "testing"}
  <2>1. {j \in IPs : test'[j] = "testing"} = S \cup {i}
    BY <1>1, <1>3
  <2>2. IsFiniteSet(S) /\ Cardinality(S) \in Nat /\ i \notin S
    <3>1. S \in SUBSET IPs
      OBVIOUS
    <3>2. i \notin S
      BY <1>1
    <3> HIDE DEF S
    <3>3. QED
      BY <3>1, <3>2, IPPoolAssumption, FS_Subset, FS_CardinalityType
  <2>3. Cardinality(S) < Concurrency
    BY <1>1
  <2> HIDE DEF S
  <2>4. Cardinality(S \cup {i}) = Cardinality(S) + 1
    BY <2>2, FS_AddElement
  <2>5. Cardinality(S \cup {i}) <= Concurrency
    BY <2>2, <2>3, <2>4, IPPoolAssumption
  <2>6. test' \in [IPs -> {"none", "queued", "testing", "done"}]
    BY <1>1, <1>3
  <2>7. QED
    BY <1>1, <2>1, <2>5, <2>6 DEF PoolIInv, PoolTypeOK, getVars, options
<1>6. QED
  BY <1>2, <1>4, <1>5 DEF PoolIInv

\* One fewer test runs.
LEMMA FewerTests ==
  ASSUME PoolIInv, NEW T, T \subseteq {j \in IPs : test[j] = "testing"}
  PROVE  Cardinality(T) <= Concurrency
<1> DEFINE S == {j \in IPs : test[j] = "testing"}
<1>1. S \in SUBSET IPs /\ T \in SUBSET S /\ Cardinality(S) <= Concurrency
  BY DEF PoolIInv, PoolTypeOK
<1> HIDE DEF S
<1>2. IsFiniteSet(S)
  BY <1>1, IPPoolAssumption, FS_Subset
<1>3. IsFiniteSet(T) /\ Cardinality(T) <= Cardinality(S)
  BY <1>1, <1>2, FS_Subset
<1>4. Cardinality(T) \in Nat /\ Cardinality(S) \in Nat /\ Concurrency \in Nat
  BY <1>2, <1>3, FS_CardinalityType, IPPoolAssumption
<1>5. QED
  BY <1>1, <1>3, <1>4

LEMMA testIPStep == ASSUME PoolIInv, NEW i \in IPs, testIP(i) PROVE PoolIInv'
<1>1. PICK r \in Result(i) : results' = Append(results, r)
  BY DEF testIP
<1>2. /\ UNCHANGED <<options, serving, scan, best, valid, getVars>>
      /\ test[i] = "testing" /\ test' = [test EXCEPT ![i] = "done"]
  BY DEF testIP
<1>3. Pool' /\ Copies'
  BY <1>2, KeptParts DEF getVars
<1>4. test \in [IPs -> {"none", "queued", "testing", "done"}] /\ results \in Seq(ATest)
  BY DEF PoolIInv, PoolTypeOK, OneResult
<1>5. r \in ATest /\ r.ip = i
  BY <1>1, ResultTyped
<1>6. /\ results' \in Seq(ATest) /\ Len(results') = Len(results) + 1 /\ Len(results) \in Nat
      /\ results'[Len(results')] = r /\ \A k \in 1..Len(results) : results'[k] = results[k]
  BY <1>1, <1>4, <1>5
<1>7. \A k \in 1..Len(results') : k \in 1..Len(results) \/ k = Len(results')
  BY <1>6
<1>8. \A k \in 1..Len(results) : /\ results[k].ip \in IPs /\ test[results[k].ip] = "done"
                                 /\ results[k].ip # i
  <2>1. \A k \in 1..Len(results) : results[k] \in ATest
    BY <1>4
  <2>2. QED
    BY <1>2, <2>1 DEF PoolIInv, OneResult, ATest
<1>9. OneResult'
  <2>1. \A k \in 1..Len(results') : test'[results'[k].ip] = "done"
    <3> TAKE k \in 1..Len(results')
    <3>1. CASE k \in 1..Len(results)
      BY <1>2, <1>4, <1>6, <1>8, <3>1
    <3>2. CASE k = Len(results')
      BY <1>2, <1>4, <1>5, <1>6, <3>2
    <3>3. QED
      BY <1>7, <3>1, <3>2
  <2>2. \A j, k \in 1..Len(results') : results'[j].ip = results'[k].ip => j = k
    <3> SUFFICES ASSUME NEW j \in 1..Len(results'), NEW k \in 1..Len(results'),
                        results'[j].ip = results'[k].ip
                 PROVE  j = k
      OBVIOUS
    <3>1. CASE j \in 1..Len(results) /\ k \in 1..Len(results)
      <4>1. results[j].ip = results[k].ip
        BY <1>6, <3>1
      <4>2. QED
        BY <3>1, <4>1 DEF PoolIInv, OneResult
    <3>2. CASE j \in 1..Len(results) /\ k = Len(results')
      BY <1>5, <1>6, <1>8, <3>2
    <3>3. CASE k \in 1..Len(results) /\ j = Len(results')
      BY <1>5, <1>6, <1>8, <3>3
    <3>4. QED
      BY <1>7, <3>1, <3>2, <3>3
  <2>3. QED
    BY <1>6, <2>1, <2>2 DEF OneResult
<1>10. PoolTypeOK'
  <2>1. {j \in IPs : test'[j] = "testing"} \subseteq {j \in IPs : test[j] = "testing"}
    BY <1>2, <1>4
  <2>2. Cardinality({j \in IPs : test'[j] = "testing"}) <= Concurrency
    BY <2>1, FewerTests
  <2>3. test' \in [IPs -> {"none", "queued", "testing", "done"}]
    BY <1>2, <1>4
  <2>4. \A k \in 1..Len(results') : results'[k] \in Result(results'[k].ip)
    <3> TAKE k \in 1..Len(results')
    <3>1. CASE k \in 1..Len(results)
      BY <1>6, <3>1 DEF PoolIInv, PoolTypeOK
    <3>2. CASE k = Len(results')
      BY <1>1, <1>5, <1>6, <3>2
    <3>3. QED
      BY <1>7, <3>1, <3>2
  <2>5. QED
    BY <1>2, <2>2, <2>3, <2>4 DEF PoolIInv, PoolTypeOK, getVars, options
<1>11. QED
  BY <1>3, <1>9, <1>10 DEF PoolIInv

LEMMA ScanEndStep == ASSUME PoolIInv, ScanEnd PROVE PoolIInv'
<1> DEFINE ok == Reached(results)
           v == {r \in {results[i] : i \in 1..Len(results)} : r.fails < Attempts}
<1>1. /\ UNCHANGED <<options, serving, getVars>> /\ scan' = "idle"
      /\ test' = [i \in IPs |-> "none"] /\ results' = <<>>
      /\ IF ok = <<>> THEN UNCHANGED <<best, valid>> ELSE best' = updateBest(ok) /\ valid' = v
  BY DEF ScanEnd
<1>2. /\ ok \in Seq(ATest) /\ {ok[i] : i \in 1..Len(ok)} = v
      /\ \A i, j \in 1..Len(ok) : ok[i].ip = ok[j].ip => i = j
  <2>1. results \in Seq(ATest) /\ \A i, j \in 1..Len(results) : results[i].ip = results[j].ip => i = j
    BY DEF PoolIInv, OneResult
  <2>2. QED
    BY <2>1, ReachedKeeps
<1>3. v \subseteq UNION {Result(i) : i \in IPs}
  <2> SUFFICES ASSUME NEW k \in 1..Len(results)
               PROVE  \E i \in IPs : results[k] \in Result(i)
    OBVIOUS
  <2>1. results[k] \in ATest /\ results[k] \in Result(results[k].ip)
    BY DEF PoolIInv, OneResult, PoolTypeOK
  <2>2. QED
    BY <2>1 DEF ATest
<1> HIDE DEF ok, v
<1>4. Copies'
  BY <1>1, KeptParts DEF getVars
<1>5. OneResult'
  BY <1>1 DEF OneResult
<1>6. Pool' /\ valid' \subseteq UNION {Result(i) : i \in IPs}
  <2>1. CASE ok = <<>>
    BY <1>1, <2>1, KeptParts DEF PoolIInv, PoolTypeOK
  <2>2. CASE ok # <<>>
    <3>1. best' = updateBest(ok) /\ valid' = v
      BY <1>1, <2>2
    <3>2. best.indexes \in [1..TopCount -> IPs]
      BY DEF PoolIInv, PoolTypeOK
    <3>3. OfOneUpdate(updateBest(ok)) /\ updateBest(ok).valid # 0 /\ BestOf(updateBest(ok), v)
      BY <1>2, <2>2, <3>2, UpdateIsBest
    <3>4. QED
      BY <1>3, <3>1, <3>3 DEF Pool
  <2>3. QED
    BY <2>1, <2>2
<1>7. PoolTypeOK'
  <2>1. {i \in IPs : test'[i] = "testing"} = {}
    BY <1>1
  <2>2. Cardinality({i \in IPs : test'[i] = "testing"}) <= Concurrency
    BY <2>1, NoTests
  <2>3. /\ best'.indexes \in [1..TopCount -> IPs] /\ best'.weights \in [1..TopCount -> 0..MaxWeight]
        /\ best'.valid \in 0..TopCount
    BY <1>6 DEF Pool, OfOneUpdate
  <2>4. best'.total \in Nat
    <3>1. OfOneUpdate(best')
      BY <1>6 DEF Pool
    <3>2. QED
      BY <3>1, SumsInUse
  <2>5. test' \in [IPs -> {"none", "queued", "testing", "done"}]
    BY <1>1
  <2>6. QED
    BY <1>1, <1>6, <2>2, <2>3, <2>4, <2>5 DEF PoolIInv, PoolTypeOK, getVars, options
<1>8. QED
  BY <1>4, <1>5, <1>6, <1>7 DEF PoolIInv

LEMMA GetCopyStep == ASSUME PoolIInv, NEW g \in Getters, GetCopy(g) PROVE PoolIInv'
<1>1. /\ UNCHANGED <<options, serving, scanVars, best, valid, counter>>
      /\ IF best.valid = 0 \/ multi THEN UNCHANGED snap
         ELSE snap' = [snap EXCEPT ![g] = [best |-> best, usable |-> usable, taken |-> TRUE]]
  BY DEF GetCopy
<1>2. Pool' /\ OneResult'
  BY <1>1, KeptParts DEF scanVars
<1>3. CASE best.valid = 0 \/ multi
  <2>1. Copies'
    BY <1>1, <1>3, KeptParts
  <2>2. PoolTypeOK'
    BY <1>1, <1>3 DEF PoolIInv, PoolTypeOK, options, scanVars
  <2>3. QED
    BY <1>2, <2>1, <2>2 DEF PoolIInv
<1>4. CASE ~(best.valid = 0 \/ multi)
  <2> DEFINE copy == [best |-> best, usable |-> usable, taken |-> TRUE]
  <2>1. snap = [h \in Getters |-> snap[h]] /\ snap' = [snap EXCEPT ![g] = copy]
    BY <1>1, <1>4 DEF PoolIInv, Copies
  <2>2. copy.best = best /\ copy.usable = usable
    OBVIOUS
  <2> HIDE DEF copy
  <2>3. /\ snap' = [h \in Getters |-> snap'[h]] /\ snap'[g] = copy
        /\ \A h \in Getters : h # g => snap'[h] = snap[h]
    BY <2>1
  <2>4. OfOneUpdate(copy.best) /\ copy.best.valid # 0 /\ KeptIn(copy.best) \subseteq copy.usable
    BY <1>4, <2>2 DEF PoolIInv, Pool, BestOf, usable
  <2>5. Copies'
    BY <2>3, <2>4 DEF PoolIInv, Copies
  <2>6. \A h \in Getters : snap'[h].taken => ~multi'
    BY <1>1, <1>4 DEF options
  <2>7. PoolTypeOK'
    BY <1>1, <2>6 DEF PoolIInv, PoolTypeOK, options, scanVars
  <2>8. QED
    BY <1>2, <2>5, <2>7 DEF PoolIInv
<1>5. QED
  BY <1>3, <1>4

LEMMA GetPickStep == ASSUME PoolIInv, NEW g \in Getters, GetPick(g) PROVE PoolIInv'
<1>1. /\ UNCHANGED <<options, serving, scanVars, best, valid>>
      /\ counter' = (counter + 1) % CounterSize /\ snap' = [snap EXCEPT ![g] = noSnap]
  BY DEF GetPick
<1>2. Pool' /\ OneResult'
  BY <1>1, KeptParts DEF scanVars
<1>3. snap = [h \in Getters |-> snap[h]] /\ ~noSnap.taken
  BY DEF PoolIInv, Copies, noSnap
<1>4. /\ snap' = [h \in Getters |-> snap'[h]] /\ ~snap'[g].taken
      /\ \A h \in Getters : h # g => snap'[h] = snap[h]
  BY <1>1, <1>3
<1>5. Copies'
  BY <1>4 DEF PoolIInv, Copies
<1>6. counter' \in 0..(CounterSize - 1)
  <2>1. counter + 1 \in Nat /\ CounterSize \in Nat \ {0}
    BY IPPoolAssumption DEF PoolIInv, PoolTypeOK
  <2>2. QED
    BY <1>1, <2>1
<1>7. \A h \in Getters : snap'[h].taken => ~multi'
  BY <1>1, <1>4 DEF PoolIInv, PoolTypeOK, options
<1>8. PoolTypeOK'
  BY <1>1, <1>6, <1>7 DEF PoolIInv, PoolTypeOK, options, scanVars
<1>9. QED
  BY <1>2, <1>5, <1>8 DEF PoolIInv

----
(* The theorems. *)

\* In every reachable state the pool and the copies are each of one update, and the pool
\* has the best of its scan.
THEOREM PoolInductive == PoolSpec => []PoolIInv
<1>1. PoolIInv /\ [PoolNext]_poolVars => PoolIInv'
  <2> SUFFICES ASSUME PoolIInv, [PoolNext]_poolVars PROVE PoolIInv'
    OBVIOUS
  <2>1. CASE Serve
    BY <2>1, ServeStep
  <2>2. CASE ScanStart
    BY <2>2, ScanStartStep
  <2>3. CASE Scanner
    BY <2>3, ScanEndStep, TestStartStep, testIPStep DEF Scanner
  <2>4. CASE \E g \in Getters : GetCopy(g) \/ GetPick(g)
    BY <2>4, GetCopyStep, GetPickStep
  <2>5. CASE UNCHANGED poolVars
    <3>1. UNCHANGED <<wait, multi, narrow, serving, scan, test, results, best, valid, counter, snap>>
      BY <2>5 DEF poolVars
    <3>2. Pool' /\ Copies' /\ OneResult'
      BY <3>1, KeptParts
    <3>3. PoolTypeOK'
      BY <3>1 DEF PoolIInv, PoolTypeOK
    <3>4. QED
      BY <3>2, <3>3 DEF PoolIInv
  <2>6. QED
    BY <2>1, <2>2, <2>3, <2>4, <2>5 DEF PoolNext
<1>2. QED
  BY <1>1, PoolInitIInv, PTL DEF PoolSpec

\* Get picks every entry as often as its weight says, and its modulus is never zero,
\* although it computes with a copy that a scan may have outdated, and with a counter
\* that on a 32-bit build turns negative.
THEOREM SharesFair == PoolSpec => []FairShare
<1>1. PoolIInv => FairShare
  <2> SUFFICES ASSUME PoolIInv PROVE FairShare
    OBVIOUS
  <2>1. \A b \in {best} \cup {snap[g].best : g \in {h \in Getters : snap[h].taken}} : FairIn(b)
    <3> TAKE b \in {best} \cup {snap[g].best : g \in {h \in Getters : snap[h].taken}}
    <3>1. OfOneUpdate(b) /\ (b = noBest \/ b.valid # 0)
      BY DEF PoolIInv, Pool, Copies
    <3>2. QED
      BY <3>1, SharesAreFair
  <2>2. QED
    BY <2>1 DEF FairShare, FairIn
<1>2. QED
  BY <1>1, PoolInductive, PTL

\* After an update the kept IPs are the best of their scan, in whatever order the tests
\* ended, and no place is empty that an IP could have.
THEOREM BestAreKept == PoolSpec => []KeepsTheBest
<1>1. PoolIInv => KeepsTheBest
  BY DEF PoolIInv, Pool, BestOf, KeptIn, KeepsTheBest
<1>2. QED
  BY <1>1, PoolInductive, PTL

\* Get answers with an IP that was reached in the scan its copy is from, and falls back
\* only while no scan has reached any.
THEOREM AnswersAreUsable == PoolSpec => []AnswersUsable
<1>1. PoolIInv => AnswersUsable
  <2> SUFFICES ASSUME PoolIInv PROVE AnswersUsable
    OBVIOUS
  <2>1. AnswerAll \subseteq usable
    BY DEF PoolIInv, Pool, BestOf, KeptIn, AnswerAll, usable
  <2>2. AnswerAll = {} => usable = {}
    <3>1. ASSUME best.valid # 0 PROVE AnswerAll # {}
      <4>1. best.valid \in Nat
        BY SumsInUse DEF PoolIInv, Pool
      <4>2. 1 \in 1..best.valid
        BY <3>1, <4>1
      <4>3. QED
        BY <4>2 DEF AnswerAll
    <3>2. best.valid = 0 => usable = {}
      BY DEF PoolIInv, Pool, usable
    <3>3. QED
      BY <3>1, <3>2
  <2>3. ASSUME NEW g \in Getters, snap[g].taken
        PROVE  AnswerOne(snap[g].best, counter) # {}
               /\ AnswerOne(snap[g].best, counter) \subseteq snap[g].usable
    <3>1. /\ OfOneUpdate(snap[g].best) /\ snap[g].best.valid # 0
          /\ KeptIn(snap[g].best) \subseteq snap[g].usable /\ counter \in 0..(CounterSize - 1)
      BY <2>3 DEF PoolIInv, Copies, PoolTypeOK
    <3>2. PICK i \in 1..snap[g].best.valid :
            AnswerOne(snap[g].best, counter) = {snap[g].best.indexes[i]}
      BY <3>1, AnswerIsAnEntry
    <3>3. snap[g].best.indexes[i] \in KeptIn(snap[g].best)
      BY DEF KeptIn
    <3>4. QED
      BY <3>1, <3>2, <3>3
  <2>4. QED
    BY <2>1, <2>2, <2>3 DEF AnswersUsable
<1>2. QED
  BY <1>1, PoolInductive, PTL
====
