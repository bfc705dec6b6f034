---- MODULE ClientHello ----
(***************************************************************************)
(* How a ClientHello is sent (the mode switch of handleTLS in              *)
(* internal/core/tunnel.go, and policyConn.Write in policy.go for          *)
(* connections to a DoH server): as it is, in fragments (Fragment), or     *)
(* behind a fake packet (DesyncSend) whose TTL is searched first           *)
(* (TTLProbe).  Sessions to one server share the cache, the flight group   *)
(* and, on Windows, the semaphore.                                         *)
(***************************************************************************)
EXTENDS DesyncSend, Fragment

\* mode of each session, "none" if there is no such session; via: what it sends for;
\* hello: the record; opts: the options of sendRecords.
ASSUME ClientHelloAssumption ==
  \A w \in Worlds :
    /\ w.hello \in [len: 0..(tlsRecordHeaderLen + 256 * 256 - 1), sniStart: Nat, sniLen: Nat, dot: Int]
    /\ w.hello.sniStart >= 58 /\ w.hello.sniStart + w.hello.sniLen <= w.hello.len
    /\ w.hello.dot \in -1..(w.hello.sniLen - 1)
    /\ \A c \in Sessions :
         /\ w.via[c] \in {"tunnel", "doh"}
         /\ w.mode[c] \in {"none", "unset", "direct", "tls-rf", "ttl-d"}
         /\ w.opts[c] \in [records: Nat, segments: Int, minor: 0..255, oob: BOOLEAN, oobex: BOOLEAN]

VARIABLES
  frag,   \* each session: where it is, pieces written, the receiver has read too early
  cut     \* what each session writes of its record, piece by piece

vars == <<world, cached, probe, snd, frag, cut>>

TypeOK ==
  /\ ProbeTypeOK /\ SendTypeOK
  /\ \A c \in Sessions :
       /\ frag[c].pc \in {"new", "direct", "tls-rf", "ttl-d", "ok", "failed", "panic"}
       /\ frag[c].n \in Nat /\ frag[c].early \in BOOLEAN

\* The record as it is.
Whole == <<Plain(Hello(world.hello))>>

Init ==
  /\ ProbeInit /\ SendInit
  /\ frag = [c \in Sessions |-> [pc |-> "new", n |-> 0, early |-> FALSE]]
  /\ cut = [c \in Sessions |-> IF world.mode[c] = "tls-rf" THEN Pieces(world.hello, world.opts[c])
                               ELSE Whole]

----
Goto(c, pc) == frag' = [frag EXCEPT ![c].pc = pc] /\ UNCHANGED <<probeVars, snd, cut>>

\* The switch on the mode; an unset mode sends nothing and is a success.
Dispatch(c) == Goto(c, IF world.mode[c] = "unset" THEN "ok" ELSE world.mode[c])

handleTLS(c) ==
  /\ frag[c].pc = "new" /\ world.via[c] = "tunnel" /\ world.mode[c] # "none"
  /\ Dispatch(c)

\* The first call of Write: what does not parse, or is not TLS 1.3 where the policy wants
\* it, is an error; without an SNI the record goes out as it is.  Later calls write
\* to the connection.
policyConnWrite(c) ==
  /\ frag[c].pc = "new" /\ world.via[c] = "doh" /\ world.mode[c] # "none"
  /\ \/ Goto(c, "failed") \/ Dispatch(c)
     \/ /\ frag' = [frag EXCEPT ![c].pc = "direct"] /\ cut' = [cut EXCEPT ![c] = Whole]
        /\ UNCHANGED <<probeVars, snd>>

writing(c) == frag[c].pc \in {"direct", "tls-rf"}

\* A write and the wait that follows it, either of which may fail.
WritePiece(c) ==
  /\ writing(c) /\ frag[c].n < Len(cut[c])
  /\ \/ Goto(c, "failed")
     \/ frag' = [frag EXCEPT ![c].n = @ + 1] /\ UNCHANGED <<probeVars, snd, cut>>

\* Without a piece left, a panic or success.
Written(c) ==
  /\ writing(c) /\ frag[c].n = Len(cut[c])
  /\ Goto(c, IF frag[c].pc = "tls-rf" /\ Panics(world.opts[c]) THEN "panic" ELSE "ok")

\* The server (external) reads up to an urgent byte that another one is to follow.
ServerReads(c) ==
  /\ frag[c].pc = "tls-rf" /\ ~frag[c].early
  /\ frag[c].n > 0 /\ cut[c][frag[c].n].urgent
  /\ \E j \in (frag[c].n + 1)..Len(cut[c]) : cut[c][j].urgent
  /\ frag' = [frag EXCEPT ![c].early = TRUE] /\ UNCHANGED <<probeVars, snd, cut>>

\* ModeTTLD: getFakeTTL, then desyncSend.
FakeTTL(c) == frag[c].pc = "ttl-d" /\ ProbeStep(c) /\ UNCHANGED <<snd, frag, cut>>
Desync(c) == probe[c].pc = "done" /\ SendStep(c) /\ UNCHANGED <<probeVars, frag, cut>>

Handler(c) ==
  \/ handleTLS(c) \/ policyConnWrite(c) \/ WritePiece(c) \/ Written(c)
  \/ FakeTTL(c) \/ Desync(c)

\* The goroutine that splices, without and with errors, and the network.
Writer(c) == (Splice(c) \/ SpliceDone(c)) /\ UNCHANGED <<probeVars, frag, cut>>
WriterFault(c) == (SpliceAgain(c) \/ SpliceError(c)) /\ UNCHANGED <<probeVars, frag, cut>>
Network(c) == \E u \in 1..(world.units + 1) : Arrive(c, u) /\ UNCHANGED <<probeVars, frag, cut>>

Next ==
  \/ Expire /\ UNCHANGED <<snd, frag, cut>>
  \/ \E c \in Sessions :
       Handler(c) \/ ServerReads(c) \/ Writer(c) \/ WriterFault(c) \/ Network(c)

\* Goroutines run, dials and waits end, and TCP sends again until a unit has arrived.
Spec ==
  /\ Init /\ [][Next]_vars
  /\ \A c \in Sessions : WF_vars(Handler(c)) /\ WF_vars(Writer(c)) /\ WF_vars(Network(c))

----
\* The record of a connection to a DoH server in which no SNI was found.
asItIs(c) == world.via[c] = "doh" /\ cut[c] = Whole

\* Whatever the options, a fragmented ClientHello comes together again at the server: a
\* sequence of records with the right lengths and version whose payloads are the
\* original's; and the host name is whole in no record, or in no segment.  Exceptions:
\* oob and oob_ex together leave a byte in the stream, num_segs below -1 sends
\* nothing, and oob_ex counts on the server not to read between two urgent bytes; an empty
\* name at the very end leaves the second half of num_records an empty record; a name of
\* at most one byte, or with no dot but one in front, is not cut; and what
\* policyConn.Write finds no SNI in goes out as it is.
FragmentsIntact ==
  \A c \in Sessions : (frag[c].pc = "ok" /\ world.mode[c] = "tls-rf") =>
    LET h == world.hello
        o == world.opts[c]
        stream == Received(cut[c], frag[c].n, frag[c].early)
    IN \/ frag[c].early \/ (o.oob /\ o.oobex) \/ o.segments < -1 \/ asItIs(c)
       \/ o.records > 1 /\ h.sniStart = h.len
       \/ /\ WellFragmented(stream, h, IF o.minor = 0 THEN 1 ELSE o.minor)
          /\ \/ CutAt(h) = h.sniStart
             \/ o.records > 1 /\ NameCutByRecords(stream, h)
             \/ o.records <= 1 /\ (orOne(o.segments) > 1 => NameCutByPieces(cut[c], h))

\* The rules, if there are any, give a TTL below the server's distance (-1 is none: it
\* stands for the system's own TTL).
lowered ==
  /\ ~noRule(world.hops)
  /\ calcTTL(world.hops) < world.hops /\ calcTTL(world.hops) # -1

\* The fake TTL can be trusted: it is the policy's and too low for the server, or the
\* rules lower the distance and no dial of the search was lost.
trusted(c) == IF conf(c).fakeTTL \notin {0, -1} THEN conf(c).fakeTTL < world.hops
              ELSE lowered /\ ~probe[c].lossy

\* From the search to the last retransmission, on every path and after every error: if
\* the fake TTL can be trusted, the server never gets the fake contents.
FakeNeverSeen ==
  TypeOK /\ \A c \in Sessions : trusted(c) => \A u \in DOMAIN snd[c].got : snd[c].got[u] # "fake"

\* A success of desyncSend means that the whole record arrives.
HelloArrives ==
  \A c \in Sessions : snd[c].pc = "ok" ~> \A u \in DOMAIN snd[c].got : snd[c].got[u] # "none"

ended(c) ==
  \/ frag[c].pc \in {"ok", "failed", "panic"}
  \/ probe[c].pc = "failed" \/ snd[c].pc \in {"ok", "failed"}

\* Every session gets through: searches end and are shared, places in the semaphore
\* come back, goroutines are joined.  Exceptions: without attempts the search does
\* not end (for those who share it, either), and after an EAGAIN, or when the pipe did
\* not take everything, the goroutine waits for bytes that are not there.
HelloEnds ==
  \A c \in Sessions : frag[c].pc # "new" ~>
    \/ ended(c)
    \/ \E d \in Sessions : conf(d).attempts = 0
    \/ snd[c].again > 0 \/ (snd[c].pc = "join" /\ snd[c].piped < world.units)
====
