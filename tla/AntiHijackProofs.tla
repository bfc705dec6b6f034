---- MODULE AntiHijackProofs ----
(***************************************************************************)
(* Proofs of the safety properties of AntiHijackDNS for all timeouts and   *)
(* all numbers of replies and of records.                                  *)
(***************************************************************************)
EXTENDS AntiHijackDNS, TLAPS

\* usable[i] is the last of the fullest usable replies.
LastFullest(i) ==
  \A j \in 1..Len(usable) : \/ usable[j].records < usable[i].records
                            \/ usable[j].records = usable[i].records /\ j <= i

\* While the loop runs, best is the last of the fullest usable replies.  Without a wait
\* the first usable reply ends the loop.
BestSoFar ==
  pc # "done" =>
    /\ best.set <=> usable # <<>>
    /\ ~best.set => best.records = 0
    /\ best.set =>
         /\ wait > 0 /\ best.reply.own /\ best.rtt >= minRTT
         /\ \E i \in 1..Len(usable) : best.reply = usable[i] /\ LastFullest(i)

Stage ==
  /\ pc = "start" => usable = <<>>
  /\ result.kind = "none" <=> pc # "done"

IInv == Stage /\ BestSoFar /\ OwnAnswer /\ FullestAnswer /\ WaitsOut

----
\* A reply put behind the others leaves them where they are.
LEMMA AppendUsable ==
  ASSUME usable \in Seq(Replies), NEW x \in Replies
  PROVE  /\ Append(usable, x) \in Seq(Replies) /\ Append(usable, x) # <<>>
         /\ Len(Append(usable, x)) = Len(usable) + 1
         /\ Append(usable, x)[Len(usable) + 1] = x
         /\ \A i \in 1..Len(usable) : Append(usable, x)[i] = usable[i]
  OBVIOUS

\* A reply has a number of records.
LEMMA RecordsNat ==
  ASSUME NEW s \in Seq(Replies)
  PROVE  \A i \in 1..Len(s) : s[i].records \in Nat
<1> SUFFICES ASSUME NEW i \in 1..Len(s) PROVE s[i].records \in Nat
  OBVIOUS
<1>1. s[i] \in Replies
  OBVIOUS
<1>2. QED
  BY <1>1, AntiHijackAssumption DEF Replies

\* The query has not been sent.
LEMMA InitIInv == Init => IInv
<1> SUFFICES ASSUME Init PROVE IInv
  OBVIOUS
<1> USE AntiHijackAssumption DEF Init
<1>1. r \in Replies /\ usable \in Seq(Replies)
  BY DEF Replies, noReply
<1>2. /\ best \in [reply: Replies, records: 0..MaxRecords, rtt: 0..MaxTime, set: BOOLEAN]
      /\ ~best.set /\ best.records = 0
  BY <1>1 DEF noBest
<1>3. /\ result \in [kind: {"none", "ok", "error"}, reply: Replies, rtt: 0..MaxTime]
      /\ result.kind = "none"
  BY <1>1 DEF noResult
<1>4. broken \in BOOLEAN
  BY Zenon
<1>5. TypeOK
  BY <1>1, <1>2, <1>3, <1>4 DEF TypeOK
<1>6. QED
  BY <1>2, <1>3, <1>5 DEF IInv, Stage, BestSoFar, OwnAnswer, FullestAnswer, WaitsOut

\* The steps that leave the replies and the result alone.
LEMMA QuietStep ==
  ASSUME IInv, Tick \/ ReadMsg \/ Drop
  PROVE  IInv'
<1> USE AntiHijackAssumption DEF IInv, Tick, ReadMsg, Drop, config
<1>1. pc # "done" /\ pc' # "done" /\ UNCHANGED <<config, best, result, usable, broken>>
  OBVIOUS
<1>2. TypeOK'
  <2>1. CASE Tick
    BY <2>1 DEF TypeOK, OwnAnswer
  <2>2. CASE ReadMsg
    BY <2>2 DEF TypeOK, OwnAnswer
  <2>3. CASE Drop
    BY <2>3 DEF TypeOK, OwnAnswer
  <2>4. QED
    BY <2>1, <2>2, <2>3
<1>3. Stage'
  BY <1>1 DEF Stage
<1>4. BestSoFar'
  BY <1>1 DEF BestSoFar, LastFullest
<1>5. QED
  BY <1>1, <1>2, <1>3, <1>4 DEF Stage, OwnAnswer, FullestAnswer, WaitsOut

\* Nothing has come when the query is sent or cannot be.
LEMMA SendStep ==
  ASSUME IInv, Send
  PROVE  IInv'
<1> USE AntiHijackAssumption DEF IInv, Send, Return, config
<1>1. usable' = <<>> /\ UNCHANGED <<config, now, r, arrived, best, usable, broken>>
  BY DEF Stage
<1>2. CASE pc' = "read" /\ UNCHANGED result
  <2>1. TypeOK'
    BY <1>2 DEF TypeOK, OwnAnswer
  <2>2. QED
    BY <1>1, <1>2, <2>1 DEF Stage, BestSoFar, LastFullest, OwnAnswer, FullestAnswer, WaitsOut
<1>3. CASE Return("error", noReply, 0)
  <2>1. noReply \in Replies
    BY DEF noReply, Replies
  <2>2. TypeOK'
    BY <1>3, <2>1 DEF TypeOK, OwnAnswer
  <2>3. QED
    BY <1>1, <1>3, <2>2 DEF Stage, BestSoFar, OwnAnswer, FullestAnswer, WaitsOut
<1>4. QED
  BY <1>2, <1>3

\* The loop ends with the best reply, or with an error when there is none.
LEMMA ReadFailsStep ==
  ASSUME IInv, ReadFails
  PROVE  IInv'
<1> USE AntiHijackAssumption DEF IInv, ReadFails, config
<1>1. /\ UNCHANGED <<config, now, r, best, usable>> /\ pc = "read" /\ pc' = "done"
      /\ result' = IF best.set THEN [kind |-> "ok", reply |-> best.reply, rtt |-> best.rtt]
                   ELSE [kind |-> "error", reply |-> r, rtt |-> now]
  BY DEF EndLoop, Return
<1>2. TypeOK'
  <2>1. result' \in [kind: {"none", "ok", "error"}, reply: Replies, rtt: 0..MaxTime]
    BY <1>1 DEF TypeOK, OwnAnswer
  <2>2. arrived' \in 0..MaxReplies
    BY DEF TypeOK, OwnAnswer
  <2>3. broken' \in BOOLEAN
    BY Zenon DEF TypeOK, OwnAnswer
  <2>4. QED
    BY <1>1, <2>1, <2>2, <2>3 DEF TypeOK, OwnAnswer
<1>3. Stage' /\ BestSoFar'
  BY <1>1 DEF Stage, BestSoFar
<1>4. OwnAnswer'
  BY <1>1, <1>2 DEF OwnAnswer, BestSoFar
<1>5. FullestAnswer'
  BY <1>1 DEF FullestAnswer, BestSoFar, LastFullest
<1>6. WaitsOut'
  BY <1>1 DEF WaitsOut, readDeadline
<1>7. QED
  BY <1>3, <1>4, <1>5, <1>6

\* The reply that is taken is the last of the usable ones.
LEMMA TakeStep ==
  ASSUME IInv, Take
  PROVE  IInv'
<1> USE AntiHijackAssumption DEF IInv, Take, config
<1>1. /\ UNCHANGED <<config, now, r, arrived, best, broken>> /\ pc' = "done"
      /\ result' = [kind |-> "ok", reply |-> r, rtt |-> now] /\ usable' = Append(usable, r)
  BY DEF Return
<1>2. r \in Replies /\ usable \in Seq(Replies)
  BY DEF OwnAnswer, TypeOK
<1>3. /\ usable' \in Seq(Replies) /\ Len(usable') = Len(usable) + 1 /\ usable' # <<>>
      /\ usable'[Len(usable')] = r
  BY <1>1, <1>2, AppendUsable
<1>4. TypeOK'
  BY <1>1, <1>3 DEF TypeOK, OwnAnswer
<1>5. Stage' /\ BestSoFar'
  BY <1>1 DEF Stage, BestSoFar
<1>6. OwnAnswer'
  BY <1>1, <1>4 DEF OwnAnswer, TypeOK, TooEarly
<1>7. FullestAnswer'
  BY <1>1, <1>2, <1>3 DEF FullestAnswer
<1>8. WaitsOut'
  BY <1>1 DEF WaitsOut
<1>9. QED
  BY <1>5, <1>6, <1>7, <1>8

\* A usable reply becomes the best one exactly if it is as full; one that is not the
\* query's can only be the answer if there is no other.
LEMMA KeepStep ==
  ASSUME IInv, Keep
  PROVE  IInv'
<1> USE AntiHijackAssumption DEF IInv, config
<1> DEFINE mine == [reply |-> r, records |-> r.records, rtt |-> now, set |-> TRUE]
<1>1. /\ UNCHANGED <<config, now, r, arrived, broken>> /\ pc = "got"
      /\ usable' = IF r.own THEN Append(usable, r) ELSE usable
      /\ best' = IF Better(r) THEN mine ELSE best
      /\ now >= minRTT /\ (r.own => wait > 0)
  BY DEF Keep, TooEarly, OwnAnswer, TypeOK
<1>2. /\ r \in Replies /\ usable \in Seq(Replies) /\ now \in 0..MaxTime
      /\ best \in [reply: Replies, records: 0..MaxRecords, rtt: 0..MaxTime, set: BOOLEAN]
      /\ best.set => best.records = best.reply.records /\ best.rtt <= now
  BY DEF OwnAnswer, TypeOK
<1>3. /\ usable' \in Seq(Replies)
      /\ best' \in [reply: Replies, records: 0..MaxRecords, rtt: 0..MaxTime, set: BOOLEAN]
      /\ best'.set => best'.records = best'.reply.records /\ best'.rtt <= now
  <2>1. usable' \in Seq(Replies)
    BY <1>1, <1>2, AppendUsable
  <2>2. mine \in [reply: Replies, records: 0..MaxRecords, rtt: 0..MaxTime, set: BOOLEAN]
    BY <1>2 DEF Replies
  <2>3. QED
    BY <1>1, <1>2, <2>1, <2>2
<1>4. /\ best'.set <=> usable' # <<>>
      /\ ~best'.set => best'.records = 0 /\ ~r.own
      /\ best'.set => wait > 0 /\ best'.reply.own /\ best'.rtt >= minRTT
  BY <1>1, <1>2, AppendUsable DEF BestSoFar, Better, Replies
<1>5. best'.set => \E i \in 1..Len(usable') : best'.reply = usable'[i] /\ LastFullest(i)'
  <2>1. CASE ~r.own
    BY <1>1, <2>1 DEF Better, BestSoFar, LastFullest
  <2>2. CASE r.own /\ Better(r)
    <3>1. /\ usable' = Append(usable, r) /\ best'.reply = r /\ r.records >= best.records
          /\ Len(usable') = Len(usable) + 1 /\ usable'[Len(usable')] = r
          /\ \A i \in 1..Len(usable) : usable'[i] = usable[i]
      BY <1>1, <1>2, <2>2, AppendUsable DEF Better
    <3>2. \A j \in 1..Len(usable) : usable[j].records <= best.records
      <4>1. CASE best.set
        <5>1. PICK i \in 1..Len(usable) : best.reply = usable[i] /\ LastFullest(i)
          BY <1>1, <4>1 DEF BestSoFar
        <5>2. best.records = usable[i].records
          BY <1>2, <4>1, <5>1
        <5>3. \A j \in 1..Len(usable) : usable[j].records \in Nat
          BY <1>2, RecordsNat
        <5>4. QED
          BY <5>1, <5>2, <5>3 DEF LastFullest
      <4>2. CASE ~best.set
        BY <1>1, <1>2, <4>2 DEF BestSoFar
      <4>3. QED
        BY <4>1, <4>2
    <3>3. \A j \in 1..Len(usable') : usable'[j].records <= r.records
      <4>1. r.records \in Nat /\ best.records \in Nat /\ Len(usable) \in Nat
        BY <1>2, AntiHijackAssumption DEF Replies
      <4> TAKE j \in 1..Len(usable')
      <4>2. CASE j = Len(usable')
        BY <3>1, <4>1, <4>2
      <4>3. CASE j # Len(usable')
        <5>1. j \in 1..Len(usable) /\ usable[j].records \in Nat
          BY <1>2, <3>1, <4>1, <4>3, RecordsNat
        <5>2. QED
          BY <3>1, <3>2, <4>1, <5>1
      <4>4. QED
        BY <4>2, <4>3
    <3>4. PICK i \in Nat : i = Len(usable')
      BY <1>2, <3>1
    <3>5. LastFullest(i)'
      <4>1. \A j \in 1..Len(usable') : usable'[j].records \in Nat
        BY <1>3, RecordsNat
      <4>2. r.records \in Nat /\ i = Len(usable') /\ usable'[i] = r
        BY <1>2, <3>1, <3>4, AntiHijackAssumption DEF Replies
      <4>3. QED
        BY <3>3, <4>1, <4>2 DEF LastFullest
    <3>6. QED
      BY <1>2, <3>1, <3>4, <3>5
  <2>3. CASE r.own /\ ~Better(r)
    <3>1. best.set /\ r.records < best.records
      BY <1>1, <1>2, <2>3 DEF Better, BestSoFar, Replies
    <3>2. PICK i \in 1..Len(usable) : best.reply = usable[i] /\ LastFullest(i)
      BY <1>1, <3>1 DEF BestSoFar
    <3>3. /\ best' = best /\ Len(usable') = Len(usable) + 1 /\ usable'[Len(usable')] = r
          /\ \A j \in 1..Len(usable) : usable'[j] = usable[j]
      BY <1>1, <1>2, <2>3, AppendUsable
    <3>4. LastFullest(i)'
      <4>1. \A j \in 1..Len(usable) : usable[j].records \in Nat
        BY <1>2, RecordsNat
      <4>2. /\ Len(usable) \in Nat /\ r.records < usable[i].records
            /\ usable'[i] = usable[i] /\ i \in 1..Len(usable)
        BY <1>2, <3>1, <3>2, <3>3
      <4> SUFFICES ASSUME NEW j \in 1..Len(usable')
                   PROVE  \/ usable'[j].records < usable'[i].records
                          \/ usable'[j].records = usable'[i].records /\ j <= i
        BY DEF LastFullest
      <4>3. CASE j = Len(usable')
        BY <3>3, <4>2, <4>3
      <4>4. CASE j # Len(usable')
        <5>1. j \in 1..Len(usable)
          BY <3>3, <4>2, <4>4
        <5>2. QED
          BY <3>2, <3>3, <4>2, <5>1 DEF LastFullest
      <4>5. QED
        BY <4>3, <4>4
    <3>5. QED
      BY <1>2, <3>2, <3>3, <3>4
  <2>4. QED
    BY <2>1, <2>2, <2>3
<1>6. CASE wait > 0 /\ now >= wait
  <2>1. /\ pc' = "done"
        /\ result' = IF best'.set THEN [kind |-> "ok", reply |-> best'.reply, rtt |-> best'.rtt]
                     ELSE [kind |-> "ok", reply |-> r, rtt |-> now]
    BY <1>1, <1>6 DEF Keep, EndLoop, Return
  <2>2. result' \in [kind: {"none", "ok", "error"}, reply: Replies, rtt: 0..MaxTime]
    BY <1>2, <1>3, <2>1
  <2>3. TypeOK'
    BY <1>1, <1>3, <2>1, <2>2 DEF TypeOK, OwnAnswer
  <2>4. OwnAnswer'
    BY <1>1, <1>4, <1>6, <2>1, <2>3 DEF OwnAnswer
  <2>5. FullestAnswer'
    BY <1>4, <1>5, <2>1 DEF FullestAnswer, LastFullest
  <2>6. WaitsOut'
    BY <1>1, <1>6 DEF WaitsOut, readDeadline, OwnAnswer, TypeOK
  <2>7. QED
    BY <2>1, <2>4, <2>5, <2>6 DEF Stage, BestSoFar
<1>7. CASE ~(wait > 0 /\ now >= wait)
  <2>1. pc' = "read" /\ result' = result /\ result.kind = "none"
    BY <1>1, <1>7 DEF Keep, Stage
  <2>2. TypeOK'
    BY <1>1, <1>3, <2>1 DEF TypeOK, OwnAnswer
  <2>3. Stage' /\ BestSoFar'
    BY <1>1, <1>4, <1>5, <2>1 DEF Stage, BestSoFar
  <2>4. QED
    BY <2>1, <2>2, <2>3 DEF OwnAnswer, FullestAnswer, WaitsOut
<1>8. QED
  BY <1>6, <1>7

\* Every step of an exchange.
LEMMA NextStep == IInv /\ [Next]_vars => IInv'
<1> SUFFICES ASSUME IInv, [Next]_vars PROVE IInv'
  OBVIOUS
<1>1. CASE Next
  BY <1>1, QuietStep, SendStep, ReadFailsStep, TakeStep, KeepStep DEF Next
<1>2. CASE UNCHANGED vars
  BY <1>2
  DEF vars, IInv, Stage, BestSoFar, LastFullest, OwnAnswer, TypeOK, FullestAnswer, WaitsOut,
      readDeadline
<1>3. QED
  BY <1>1, <1>2

\* The invariant behind the three properties.
THEOREM Inductive == Spec => []IInv
  BY InitIInv, NextStep, PTL DEF Spec

\* Exchange never answers with a reply that came before min_rtt, nor with one that has not
\* the query's Id while one that has was there.
THEOREM NoForgedAnswer == Spec => []OwnAnswer
  BY Inductive, PTL DEF IInv

\* Exchange answers with the last of the fullest replies, whatever the number and the
\* order of the replies, and gives none of them up for an error.
THEOREM FullestIsAnswer == Spec => []FullestAnswer
  BY Inductive, PTL DEF IInv

\* No reply ends the wait but one with the client subnet that was asked for.
THEOREM WaitIsKept == Spec => []WaitsOut
  BY Inductive, PTL DEF IInv
====
