---- MODULE DesyncSend ----
(***************************************************************************)
(* Sending a ClientHello behind a fake packet (desyncSend in               *)
(* internal/core/desync.go, sendWithNoise in desync_linux.go and           *)
(* desync_windows.go).  The part of the record up to the cut in the SNI is *)
(* handed to the kernel by reference: memory pages moved through a pipe    *)
(* (Linux) or a file (Windows).  It goes out with fake contents and a TTL  *)
(* too low for the server; then the real contents are copied over, the TTL *)
(* is restored, and TCP's own retransmission delivers the real bytes.      *)
(*                                                                         *)
(* The kernel (external) sends any unit that has been queued, at any time  *)
(* and with the contents and the TTL of that time, until it has arrived.   *)
(* The TTL comes from TTLProbe.                                            *)
(***************************************************************************)
EXTENDS TTLProbe, FiniteSets

CONSTANTS
  SemSize,      \* capacity of transmitFileSem, 2 in the code
  DefaultTTL    \* the socket's own TTL

\* os, and sem: Windows on a workstation.  units: in how many parts the kernel takes the
\* faked part of the record.
ASSUME DesyncSendAssumption ==
  /\ SemSize \in Nat \ {0} /\ DefaultTTL \in Nat
  /\ \A w \in Worlds : /\ w.os \in {"linux", "windows"} /\ w.sem \in BOOLEAN
                       /\ w.units \in Nat \ {0} /\ w.hops <= DefaultTTL

VARIABLES
  snd   \* each session's call of desyncSend and its socket

Units == 1..world.units

\* ttl: of the socket; page: contents of the shared memory or file; piped: units vmsplice
\* or TransmitFile has taken; queued: units in the socket's queue; again: EAGAIN results
\* of splice, each of which adds one to remaining; writer: the goroutine, or TransmitFile;
\* rest: the remaining data is written; got: what the server has, per unit.
noSend == [pc |-> "idle", ttl |-> DefaultTTL, page |-> [u \in Units |-> "fake"], piped |-> 0,
           queued |-> 0, again |-> 0, writer |-> "none", rest |-> FALSE,
           got |-> [u \in 1..(world.units + 1) |-> "none"]]

SendTypeOK ==
  \A c \in Sessions :
    /\ snd[c].pc \in {"idle", "set", "acquire", "begin", "sleep", "copy", "restore", "join",
                      "rest", "ok", "failed"}
    /\ snd[c].page \in [Units -> {"fake", "real"}]
    /\ snd[c].queued \in 0..snd[c].piped /\ snd[c].piped \in 0..world.units
    /\ snd[c].writer \in {"none", "running", "done", "error"}
    /\ snd[c].got \in [1..(world.units + 1) -> {"none", "fake", "real"}]

SendInit == snd = [c \in Sessions |-> noSend]

Set(c, r) == snd' = [snd EXCEPT ![c] = r]
Go(c, to) == Set(c, [snd[c] EXCEPT !.pc = to])
At(c, pc) == snd[c].pc = pc

----
\* desyncSend up to sendWithNoise, and the pipe and memory, or the file, of that.
Prepare(c) == At(c, "idle") /\ (Go(c, "set") \/ Go(c, "failed"))

\* setsockopt takes 1..255, with IPv6 also 0, and -1 for the system's own TTL.
settable(ttl) == ttl \in -1..255

\* The TTL of the fake packet is set; on Windows a few system calls follow.
SetFakeTTL(c) ==
  LET ttl == probe[c].ttl IN
  /\ At(c, "set")
  /\ \/ Go(c, "failed")
     \/ /\ settable(ttl)
        /\ Set(c, [snd[c] EXCEPT !.ttl = IF ttl = -1 THEN DefaultTTL ELSE ttl,
                                 !.pc = IF world.os = "linux" THEN "begin" ELSE "acquire"])

\* Mutant of holders: an error after TransmitFile keeps the place.
holdersLeaky == {c \in Sessions : world.os = "windows" /\ world.sem
                   /\ \/ snd[c].pc \in {"begin", "sleep", "copy", "restore", "join"}
                      \/ snd[c].pc = "failed" /\ snd[c].writer # "none"}

\* The sessions that hold a place in transmitFileSem, given back on every return.
holders == {c \in Sessions : world.os = "windows" /\ world.sem
                             /\ snd[c].pc \in {"begin", "sleep", "copy", "restore", "join"}}

Acquire(c) ==
  /\ At(c, "acquire") /\ (world.sem => Cardinality(holders) < SemSize)
  /\ Go(c, "begin")

\* vmsplice, whose count is not looked at, and the goroutine; or TransmitFile.
Begin(c) ==
  /\ At(c, "begin")
  /\ \/ Go(c, "failed")
     \/ \E k \in IF world.os = "linux" THEN Units ELSE {world.units} :
          Set(c, [snd[c] EXCEPT !.piped = k, !.writer = "running", !.pc = "sleep"])

\* time.Sleep(fakeSleep)
Wake(c) == At(c, "sleep") /\ Go(c, "copy")

\* Mutant of CopyReal: the TTL is restored while the data is still being copied.
CopyRealLate(c) ==
  LET fake == {u \in Units : snd[c].page[u] = "fake"} IN
  /\ At(c, "copy")
  /\ \/ fake = {} /\ Go(c, "restore")
     \/ \E u \in fake : /\ \A v \in fake : u <= v
                        /\ Set(c, [snd[c] EXCEPT !.page[u] = "real", !.ttl = DefaultTTL])

\* The real data is copied over the fake, one unit after the other; to a file it may fail.
CopyReal(c) ==
  LET fake == {u \in Units : snd[c].page[u] = "fake"} IN
  /\ At(c, "copy")
  /\ \/ world.os = "windows" /\ Go(c, "failed")
     \/ fake = {} /\ Go(c, "restore")
     \/ \E u \in fake : /\ \A v \in fake : u <= v
                        /\ Set(c, [snd[c] EXCEPT !.page[u] = "real"])

\* Mutant of RestoreTTL: the TTL of the fake packet stays.
RestoreTTLNot(c) == At(c, "restore") /\ (Go(c, "failed") \/ Go(c, "join"))

\* An error here returns without waiting for the goroutine.
RestoreTTL(c) ==
  /\ At(c, "restore")
  /\ Go(c, "failed") \/ Set(c, [snd[c] EXCEPT !.ttl = DefaultTTL, !.pc = "join"])

\* <-done, without a limit; or WaitForSingleObject, which gives up after 5 seconds, and a
\* look at the number of bytes sent.
Join(c) ==
  /\ At(c, "join")
  /\ \/ snd[c].writer = "error" /\ Go(c, "failed")
     \/ snd[c].writer = "done" /\ Go(c, IF snd[c].queued = world.units THEN "rest" ELSE "failed")
     \/ world.os = "windows" /\ Go(c, "failed")

\* conn.Write(record[cut:])
SendRest(c) ==
  /\ At(c, "rest")
  /\ Go(c, "failed") \/ Set(c, [snd[c] EXCEPT !.rest = TRUE, !.pc = "ok"])

SendStep(c) ==
  \/ Prepare(c) \/ SetFakeTTL(c) \/ Acquire(c) \/ Begin(c) \/ Wake(c) \/ CopyReal(c)
  \/ RestoreTTL(c) \/ Join(c) \/ SendRest(c)

----
(* The goroutine of the Linux version, and TransmitFile. *)
isRunning(c) == snd[c].writer = "running"

\* splice moves a unit into the socket.
Splice(c) ==
  isRunning(c) /\ snd[c].queued < snd[c].piped /\ Set(c, [snd[c] EXCEPT !.queued = @ + 1])

\* splice returns -1 and EAGAIN, because the socket is full or the pipe empty: remaining
\* grows by one.  One such result is enough to keep it above zero for good.
SpliceAgain(c) ==
  /\ isRunning(c) /\ world.os = "linux" /\ snd[c].queued < world.units /\ snd[c].again = 0
  /\ Set(c, [snd[c] EXCEPT !.again = 1])

remaining(c) == world.units - snd[c].queued + snd[c].again

SpliceDone(c) == isRunning(c) /\ remaining(c) = 0 /\ Set(c, [snd[c] EXCEPT !.writer = "done"])

\* Another error ends the goroutine; TransmitFile may also end having sent less.
SpliceError(c) ==
  /\ isRunning(c)
  /\ \E w \in IF world.os = "linux" THEN {"error"} ELSE {"error", "done"} :
       Set(c, [snd[c] EXCEPT !.writer = w])

----
(* The kernel: a queued unit arrives. *)
isQueued(c, u) == u <= snd[c].queued \/ (u = world.units + 1 /\ snd[c].rest)

Arrive(c, u) ==
  /\ isQueued(c, u) /\ snd[c].got[u] = "none" /\ snd[c].ttl >= world.hops
  /\ Set(c, [snd[c] EXCEPT !.got[u] = IF u \in Units THEN snd[c].page[u] ELSE "real"])
====
