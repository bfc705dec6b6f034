---- MODULE AntiHijackDNS ----
(***************************************************************************)
(* antiHijackDNSClient of internal/core/dns.go: after a query goes out     *)
(* over UDP, replies that come too soon are taken for forged ones and      *)
(* dropped (min_rtt), and with wait_timeout the client keeps reading until *)
(* that time and takes the fullest reply it saw.                           *)
(*                                                                         *)
(* Time is the number of ticks since the query was made.  A reply is read  *)
(* at one moment and its round-trip time taken at another.                 *)
(***************************************************************************)
EXTENDS Integers, Sequences

CONSTANTS
  Timeout,      \* the client's read timeout, from client_timeout or the default
  Waits,        \* values of wait_timeout to consider, 0 for none
  MinRTTs,      \* values of min_rtt to consider, 0 for none
  MaxRecords,   \* bound: records in a reply
  MaxReplies,   \* bound: replies that arrive
  MaxTime       \* bound: ticks

ASSUME AntiHijackAssumption ==
  /\ Timeout \in Nat \ {0} /\ Waits \subseteq Nat /\ MinRTTs \subseteq Nat
  /\ MaxRecords \in Nat /\ MaxReplies \in Nat /\ MaxTime \in Nat

VARIABLES
  wait, minRTT,  \* c.waitTimeout, c.minRTT
  askSubnet,     \* the query carries an EDNS0 client subnet
  now,           \* time.Since(t)
  pc,            \* "start", "read" in ReadMsg, "got" a reply, "done"
  r,             \* the reply that was read last
  arrived,       \* replies so far
  best,          \* bestR, bestRecordCount and bestRTT
  result,        \* what Exchange returned
  usable,        \* history: the replies with the query's Id that were not too early
  broken         \* history: a reply that could not be unpacked was read

vars == <<wait, minRTT, askSubnet, now, pc, r, arrived, best, result, usable, broken>>
config == <<wait, minRTT, askSubnet>>

\* A reply: whether its Id is the query's, its records, its client subnet option.
Replies == [own: BOOLEAN, records: 0..MaxRecords, subnet: BOOLEAN]
noReply == [own |-> FALSE, records |-> 0, subnet |-> FALSE]
noBest == [reply |-> noReply, records |-> 0, rtt |-> 0, set |-> FALSE]
noResult == [kind |-> "none", reply |-> noReply, rtt |-> 0]

TypeOK ==
  /\ wait \in Waits /\ minRTT \in MinRTTs /\ askSubnet \in BOOLEAN
  /\ now \in 0..MaxTime /\ arrived \in 0..MaxReplies
  /\ pc \in {"start", "read", "got", "done"}
  /\ r \in Replies
  /\ best \in [reply: Replies, records: 0..MaxRecords, rtt: 0..MaxTime, set: BOOLEAN]
  /\ result \in [kind: {"none", "ok", "error"}, reply: Replies, rtt: 0..MaxTime]
  /\ usable \in Seq(Replies) /\ broken \in BOOLEAN
  /\ best.set => best.records = best.reply.records /\ best.rtt <= now

\* newDNSResolver makes this client only if one of the two options is given.
Init ==
  /\ wait \in Waits /\ minRTT \in MinRTTs /\ ~(wait = 0 /\ minRTT = 0)
  /\ askSubnet \in BOOLEAN
  /\ now = 0 /\ pc = "start" /\ r = noReply /\ arrived = 0
  /\ best = noBest /\ result = noResult /\ usable = <<>> /\ broken = FALSE

\* Mutant of readDeadline: without a wait the reads have none.
readDeadlineWaitOnly ==
  IF wait = 0 THEN MaxTime + 1 ELSE IF wait < Timeout THEN wait ELSE Timeout

\* The deadline of the reads: the timeout, or wait_timeout if that is sooner.
readDeadline == IF wait # 0 /\ wait < Timeout THEN wait ELSE Timeout

----
Tick ==
  /\ pc # "done" /\ now < MaxTime /\ now' = now + 1
  /\ UNCHANGED <<config, pc, r, arrived, best, result, usable, broken>>

Return(kind, reply, rtt) ==
  pc' = "done" /\ result' = [kind |-> kind, reply |-> reply, rtt |-> rtt]

\* Exchange: dial, then WriteMsg; either may fail.
Send ==
  /\ pc = "start"
  /\ \/ pc' = "read" /\ UNCHANGED result
     \/ Return("error", noReply, 0)
  /\ UNCHANGED <<config, now, r, arrived, best, usable, broken>>

\* ReadMsg returns a reply, before the deadline.
ReadMsg ==
  /\ pc = "read" /\ now < readDeadline /\ arrived < MaxReplies
  /\ pc' = "got" /\ r' \in Replies /\ arrived' = arrived + 1
  /\ UNCHANGED <<config, now, best, result, usable, broken>>

\* The loop is left: the best reply if there is one, else the last one and the error.
EndLoop(kind) ==
  IF best'.set THEN Return("ok", best'.reply, best'.rtt) ELSE Return(kind, r, now)

\* ReadMsg fails: the deadline has passed, or the bytes that came are no message.
ReadFails ==
  /\ pc = "read"
  /\ \/ now >= readDeadline /\ UNCHANGED <<arrived, broken>>
     \/ arrived < MaxReplies /\ arrived' = arrived + 1 /\ broken' = TRUE
  /\ UNCHANGED best
  /\ EndLoop("error")
  /\ UNCHANGED <<config, now, r, usable>>

TooEarly == minRTT # 0 /\ now < minRTT

\* The reply is dropped as forged and the loop goes on, whatever the time.
Drop ==
  /\ pc = "got" /\ TooEarly
  /\ pc' = "read"
  /\ UNCHANGED <<config, now, r, arrived, best, result, usable, broken>>

\* Mutant of Take: a subnet option that was not asked for ends the wait.
TakeUnasked ==
  /\ pc = "got" /\ ~TooEarly
  /\ r.own /\ (wait = 0 \/ askSubnet \/ r.subnet)
  /\ usable' = Append(usable, r)
  /\ Return("ok", r, now)
  /\ UNCHANGED <<config, now, r, arrived, best, broken>>

\* Nothing to wait for, or the server honoured the subnet: the answer.
Take ==
  /\ pc = "got" /\ ~TooEarly
  /\ r.own /\ (wait = 0 \/ (askSubnet /\ r.subnet))
  /\ usable' = Append(usable, r)
  /\ Return("ok", r, now)
  /\ UNCHANGED <<config, now, r, arrived, best, broken>>

\* Mutant of Better: a reply as full as the best one does not replace it.
BetterStrict(reply) == reply.own /\ (~best.set \/ reply.records > best.records)

\* The reply is as full as the best one so far.
Better(reply) == reply.own /\ reply.records >= best.records

\* Mutant of Keep: the Id is not compared.
KeepAnyId ==
  /\ pc = "got" /\ ~TooEarly
  /\ ~(r.own /\ (wait = 0 \/ (askSubnet /\ r.subnet)))
  /\ usable' = IF r.own THEN Append(usable, r) ELSE usable
  /\ best' = IF r.records >= best.records
             THEN [reply |-> r, records |-> r.records, rtt |-> now, set |-> TRUE] ELSE best
  /\ IF wait > 0 /\ now >= wait THEN EndLoop("ok") ELSE pc' = "read" /\ UNCHANGED result
  /\ UNCHANGED <<config, now, r, arrived, broken>>

\* The reply is remembered if it is good enough; at the end of the wait the loop is left.
Keep ==
  /\ pc = "got" /\ ~TooEarly
  /\ ~(r.own /\ (wait = 0 \/ (askSubnet /\ r.subnet)))
  /\ usable' = IF r.own THEN Append(usable, r) ELSE usable
  /\ best' = IF Better(r) THEN [reply |-> r, records |-> r.records, rtt |-> now, set |-> TRUE]
             ELSE best
  /\ IF wait > 0 /\ now >= wait THEN EndLoop("ok") ELSE pc' = "read" /\ UNCHANGED result
  /\ UNCHANGED <<config, now, r, arrived, broken>>

Next == Tick \/ Send \/ ReadMsg \/ ReadFails \/ Drop \/ Take \/ Keep

Spec == Init /\ [][Next]_vars

\* Time passes, the deadline ends a read, and the goroutine runs.
FairSpec ==
  /\ Spec /\ WF_vars(Tick) /\ WF_vars(Send) /\ WF_vars(Drop) /\ WF_vars(Take) /\ WF_vars(Keep)
  /\ WF_vars(now >= readDeadline /\ ReadFails)

----
\* Besides the types: no answer comes from a reply that was there before min_rtt, whichever
\* way the loop was left, and it has the query's Id.  The one exception: a reply that was
\* read just before the end of the wait, when none with the query's Id had come.
OwnAnswer ==
  /\ TypeOK
  /\ result.kind = "ok" => result.rtt >= minRTT
  /\ result.kind = "ok" =>
       result.reply.own \/ (wait > 0 /\ result.rtt >= wait /\ usable = <<>>)

\* The answer of a wait is the last of the fullest replies with the query's Id, or
\* the one whose client subnet ended the wait; no usable reply is given up for an error.
FullestAnswer ==
  /\ result.kind = "error" => usable = <<>>
  /\ (result.kind = "ok" /\ usable # <<>>) =>
       \E i \in 1..Len(usable) :
         /\ result.reply = usable[i]
         /\ \/ i = Len(usable) /\ (wait = 0 \/ (askSubnet /\ usable[i].subnet))
            \/ \A j \in 1..Len(usable) : \/ usable[j].records < usable[i].records
                                         \/ usable[j].records = usable[i].records /\ j <= i

\* A wait is only cut short by a reply with the client subnet or by one that cannot
\* be unpacked: no other reply, full as it may be, ends it.
WaitsOut ==
  (pc = "done" /\ wait > 0 /\ result.kind = "ok") =>
    \/ now >= readDeadline
    \/ broken
    \/ askSubnet /\ result.reply.subnet

\* Exchange always returns, however many replies are dropped.
ExchangeEnds == <>(pc = "done")
====
