---- MODULE Tunnel ----
(***************************************************************************)
(* One session of the proxy, from the inbound to forwardTCP: socks5Handler,*)
(* httpHandler, handleTunnelSNI, and the handleTunnel, handleHTTP,         *)
(* handleTLS and drainBuffered they go through (internal/core: socks5.go,  *)
(* http.go, sniproxy.go, tunnel.go, net.go).                               *)
(*                                                                         *)
(* Every read, write and dial may fail.  The client's first message is     *)
(* "hello" (a ClientHello, a request or something else) and what came with *)
(* it in the buffer is "rest"; what net/http has read behind a CONNECT     *)
(* before it gives the connection away is "ahead".  genPolicy answers      *)
(* within the contract of Policy; forwardTCP takes over both connections   *)
(* (ForwardTCP).  A dial succeeds with a connection or fails: that         *)
(* dialParallel can return neither is left to DialParallel (ConnOrError).  *)
(***************************************************************************)
EXTENDS Integers, Sequences

CONSTANTS
  OriginPolicies,   \* what genPolicy may return for the host the client asked for
  SNIPolicies       \* what it, or getDomainPolicy, may return for the SNI

Modes == {"unset", "raw", "direct", "tls-rf", "ttl-d", "block", "tls-alert"}
Policies == [mode: Modes, replyFirst: BOOLEAN, sniff: {"off", "always", "exists", "route"},
             tls13Only: BOOLEAN, httpStatus: BOOLEAN, echPass: BOOLEAN]

ASSUME TunnelAssumption ==
  OriginPolicies \subseteq Policies /\ SNIPolicies \subseteq Policies

\* What parseClientHello finds: the SNI, compared to the host the client named, the ECH
\* extension, TLS 1.3 among the supported versions.
ClientHellos == [sni: {"none", "same", "other"}, ech: BOOLEAN, tls13: BOOLEAN]
noHello == [sni |-> "none", ech |-> FALSE, tls13 |-> FALSE]

\* handleTunnelSNI's policy until the SNI is known.
SNIProxyPolicy == [mode |-> "unset", replyFirst |-> FALSE, sniff |-> "always",
                   tls13Only |-> FALSE, httpStatus |-> FALSE, echPass |-> TRUE]

VARIABLES
  inbound,   \* "socks5", "connect", "plain" (a proxied HTTP request), "sni"
  pc,
  p, of,     \* ts.p, and the host it was made for: "none", "origin", "sni"
  target,    \* the host ts.target stands for
  cli,       \* the handler holds cliConn open
  conns,     \* the connections dialed so far: where to, open, what was written to it
  dst,       \* ts.dstConn, an index of conns or 0
  told,      \* what was written to the client, in order
  buffered,  \* what is in br
  taken,     \* history: what was read of the client's stream, in order
  ch,        \* what parseClientHello found in the record
  direct,    \* handleTLS has chosen ModeDirect whatever the policy
  lost,      \* history: what took "hello" out of br without sending it
  refused    \* history: the policy refused the session

vars == <<inbound, pc, p, of, target, cli, conns, dst, told, buffered, taken, ch, direct,
          lost, refused>>
hello == <<ch, direct>>
ts == <<p, of, target>>
Replies == {"success", "failure", "refused", "unsupported", "status", "alert", "response",
            "gateway",    \* the 502 of handleHTTP, inside the tunnel
            "implicit"}   \* the 200 net/http sends for a handler that wrote nothing

TypeOK ==
  /\ inbound \in {"socks5", "connect", "plain", "sni"}
  /\ pc \in {"greet", "policy", "port", "dial", "reply", "tunnel", "http", "respond", "request",
             "tls", "sniff", "connect", "send", "drain", "forward", "end",
             "panic", "nilconn"}   \* the program has ended in a panic
  /\ p \in Policies /\ of \in {"none", "origin", "sni"} /\ target \in {"none", "origin", "sni"}
  /\ \A i \in 1..Len(conns) : conns[i] \in [to: {"origin", "sni"}, open: BOOLEAN,
                                            got: Seq({"hello", "rest"})]
  /\ dst \in 0..Len(conns) /\ told \in Seq(Replies) /\ buffered \in Seq({"hello", "rest"})
  /\ taken \in Seq({"ahead", "hello", "rest"})
  /\ cli \in BOOLEAN /\ direct \in BOOLEAN /\ ch \in ClientHellos /\ refused \in BOOLEAN
  /\ lost \in {"no", "parse", "mode"}

Init ==
  /\ inbound \in {"socks5", "connect", "plain", "sni"}
  /\ pc = IF inbound \in {"socks5", "sni"} THEN "greet" ELSE "policy"
  /\ p = SNIProxyPolicy /\ of = "none" /\ target = "none"
  /\ cli = TRUE /\ conns = <<>> /\ dst = 0 /\ told = <<>>
  /\ buffered = <<>> /\ taken = <<>> /\ ch = noHello /\ direct = FALSE /\ lost = "no" /\ refused = FALSE

----
(* What ends a handler. *)
Tell(reply) == told' = Append(told, reply)

closed(c) == [c EXCEPT !.open = FALSE]

\* The deferred calls of the inbound and of handleTunnel: both connections are closed.
CloseBoth ==
  /\ pc' = "end" /\ cli' = FALSE
  /\ conns' = IF dst = 0 THEN conns ELSE [conns EXCEPT ![dst] = closed(@)]
  /\ UNCHANGED <<inbound, ts, dst, buffered, taken, hello, lost>>

\* The deferred call of handleTunnelSNI: only the client's.
CloseClient ==
  /\ pc' = "end" /\ cli' = FALSE
  /\ UNCHANGED <<inbound, ts, conns, dst, buffered, taken, hello, lost>>

\* Mutant of Quit: handleTunnel leaves like handleTunnelSNI.
QuitClient == CloseClient

Quit == IF inbound = "sni" THEN CloseClient ELSE CloseBoth

QuitTelling(reply) == Quit /\ Tell(reply) /\ UNCHANGED refused
QuitSilently == Quit /\ UNCHANGED <<told, refused>>
QuitRefused == Quit /\ refused' = TRUE /\ UNCHANGED told
QuitAlert == Quit /\ refused' = TRUE /\ Tell("alert")

\* A panic.  net/http recovers in the goroutine of a request, after the deferred calls;
\* nobody does in the goroutines of socks5Handler, handleTunnelSNI and forwardTCP.
Crash(x) ==
  /\ pc' = x
  /\ UNCHANGED <<inbound, ts, cli, conns, dst, told, buffered, taken, hello, lost, refused>>

HandlerPanics(x) == IF inbound \in {"connect", "plain"} THEN QuitSilently ELSE Crash(x)

Go(to) == pc' = to
Keep == UNCHANGED <<inbound, cli, told, refused, taken>>

\* Bytes of the client's stream are read.
Read(bytes) == taken' = taken \o bytes /\ UNCHANGED <<inbound, cli, told, refused>>

\* DialTimeout succeeds.
Dialed(to) ==
  /\ conns' = Append(conns, [to |-> to, open |-> TRUE, got |-> <<>>])
  /\ dst' = Len(conns) + 1

Write(what) == conns' = [conns EXCEPT ![dst].got = Append(@, what)]

----
(* The inbounds. *)

\* socks5Handler up to the address; handleTunnelSNI up to its policy.
Greet ==
  /\ pc = "greet"
  /\ \/ QuitSilently
     \/ inbound = "socks5" /\ QuitTelling("unsupported")
     \/ /\ inbound = "socks5" /\ Go("policy")
        /\ Keep /\ UNCHANGED <<ts, conns, dst, buffered, hello, lost>>
     \/ /\ inbound = "sni" /\ Go("tls")
        /\ \E b \in {<<"hello">>, <<"hello", "rest">>} : buffered' = b /\ Read(b)
        /\ UNCHANGED <<ts, conns, dst, hello, lost>>

\* genPolicy for the host the client named: it may panic (Policy), and only
\* handleHTTPConnect looks at the mode.
GenPolicy ==
  /\ pc = "policy"
  /\ \/ QuitTelling("failure")
     \/ HandlerPanics("panic")
     \/ Quit /\ Tell("refused") /\ refused' = TRUE
     \/ \E q \in OriginPolicies :
          IF inbound = "connect" /\ q.mode = "block"
          THEN Quit /\ Tell("refused") /\ refused' = TRUE
          ELSE /\ p' = q /\ of' = "origin" /\ target' = "origin"
               /\ Go(IF inbound = "plain" THEN "request" ELSE "port")
               /\ Keep /\ UNCHANGED <<conns, dst, buffered, hello, lost>>

\* httpHandler on a request without a host or an absolute URI: a 4xx status.  Without a
\* port (CONNECT) or with another scheme than http the handler returns without a reply.
BadRequest ==
  /\ pc = "policy" /\ inbound # "socks5"
  /\ QuitTelling("failure") \/ QuitTelling("implicit")

\* socks5Handler reads the port; handleHTTPConnect hijacks the connection and drops the
\* reader that comes with it, and with it what net/http has read behind the request.
ReadPort ==
  /\ pc = "port"
  /\ \/ inbound = "socks5" /\ QuitSilently
     \/ inbound = "connect" /\ QuitTelling("failure")
     \/ /\ Go("dial")
        /\ Read(<<>>) \/ (inbound = "connect" /\ Read(<<"ahead">>))
        /\ UNCHANGED <<ts, conns, dst, buffered, hello, lost>>

\* The round trip of a transport made for the request: it dials and sends the request, and
\* keeps the connection when the response allows it.  Nobody closes that transport.
RoundTrip(idle) ==
  /\ conns' = Append(conns, [to |-> target, open |-> idle, got |-> <<"hello">>])
  /\ dst' = Len(conns) + 1 /\ pc' = "end" /\ cli' = FALSE
  /\ UNCHANGED <<inbound, ts, buffered, taken, hello, lost, refused>>

\* forwardHTTPRequest: a status of the policy, or a round trip, which may fail before or
\* after the dial.
ForwardRequest ==
  /\ pc = "request"
  /\ IF p.httpStatus THEN QuitTelling("status")
     ELSE \/ QuitTelling("failure")
          \/ RoundTrip(FALSE) /\ Tell("failure")
          \/ \E idle \in BOOLEAN : RoundTrip(idle) /\ Tell("response")

\* Before the reply the destination is dialed, unless the policy says reply_first.
DialOrigin ==
  /\ pc = "dial"
  /\ IF p.replyFirst THEN Go("reply") /\ Keep /\ UNCHANGED <<conns, dst, ts, buffered, hello, lost>>
     ELSE \/ QuitTelling("failure")
          \/ Dialed("origin") /\ Go("reply") /\ Keep /\ UNCHANGED <<ts, buffered, hello, lost>>

Reply ==
  /\ pc = "reply"
  /\ \/ QuitSilently
     \/ /\ Tell("success") /\ Go("tunnel")
        /\ UNCHANGED <<inbound, ts, cli, conns, dst, buffered, taken, hello, lost, refused>>

----
(* handleTunnel. *)

\* ModeRaw: nothing is read; the destination is dialed if it has not been.
Raw ==
  /\ pc = "tunnel" /\ p.mode = "raw"
  /\ \/ dst = 0 /\ QuitSilently
     \/ /\ IF dst = 0 THEN Dialed(target) ELSE UNCHANGED <<conns, dst>>
        /\ Go("forward") /\ Keep /\ UNCHANGED <<ts, buffered, hello, lost>>

\* Peek: the first bytes tell TLS and HTTP from anything else.
Peek ==
  /\ pc = "tunnel" /\ p.mode # "raw"
  /\ \/ QuitSilently
     \/ /\ pc' \in {"tls", "http", "drain"}
        /\ \E b \in {<<"hello">>, <<"hello", "rest">>} : buffered' = b /\ Read(b)
        /\ UNCHANGED <<ts, conns, dst, hello, lost>>

\* http.ReadRequest fails after it has taken bytes out of br.
HTTPUnparsed ==
  /\ pc = "http"
  /\ buffered' = Tail(buffered) /\ lost' = "parse" /\ Go("drain")
  /\ Keep /\ UNCHANGED <<ts, conns, dst, hello>>

HTTPParsed ==
  /\ pc = "http" /\ Go("respond")
  /\ Keep /\ UNCHANGED <<ts, conns, dst, buffered, hello, lost>>

\* handleHTTP: a status of the policy, or the request is sent on, after a dial if
\* there is no connection yet.
HandleHTTP ==
  /\ pc = "respond"
  /\ IF p.httpStatus THEN QuitTelling("status")
     ELSE IF dst = 0
     THEN \/ QuitTelling("gateway")
          \/ Dialed(target) /\ Go("respond") /\ Keep /\ UNCHANGED <<ts, buffered, hello, lost>>
     ELSE \/ QuitSilently
          \/ /\ Write("hello") /\ buffered' = Tail(buffered) /\ Go("drain")
             /\ Keep /\ UNCHANGED <<ts, dst, hello, lost>>

\* Mutant of Drain: what has been read ahead is left behind.
DrainNothing ==
  /\ pc = "drain" /\ Go("forward")
  /\ Keep /\ UNCHANGED <<ts, conns, dst, buffered, hello, lost>>

\* drainBuffered: what is left in br goes to the destination.
Drain ==
  /\ pc = "drain" /\ dst # 0
  /\ \/ buffered # <<>> /\ QuitSilently
     \/ /\ conns' = IF buffered = <<>> THEN conns
                    ELSE [conns EXCEPT ![dst].got = @ \o buffered]
        /\ buffered' = <<>> /\ Go("forward")
        /\ Keep /\ UNCHANGED <<ts, dst, hello, lost>>

\* Under reply_first nobody has dialed for bytes that are neither TLS nor a request:
\* drainBuffered panics writing them to a nil connection or, if there are none left, the
\* goroutines of forwardTCP do, whose panic nobody recovers whatever the inbound.
DrainNil ==
  /\ pc = "drain" /\ dst = 0
  /\ IF buffered # <<>> THEN HandlerPanics("nilconn") ELSE Crash("nilconn")

----
(* handleTLS. *)

\* The record is read and parsed; the policy may refuse it as it is.
HandleTLS ==
  /\ pc = "tls"
  /\ \/ QuitSilently
     \/ \E c \in ClientHellos :
          IF p.mode = "tls-alert" \/ (p.tls13Only /\ ~c.tls13) THEN QuitAlert
          ELSE /\ ch' = c /\ buffered' = Tail(buffered) /\ Go("sniff")
               /\ Keep /\ UNCHANGED <<ts, conns, dst, direct, lost>>

\* No SNI or ECH: the SNI proxy gives up, the others send the record as it is, unless
\* the policy wants ECH treated like the rest.
NoUsableSNI ==
  /\ pc = "sniff" /\ (ch.sni = "none" \/ ch.ech)
  /\ IF inbound = "sni" THEN QuitSilently
     ELSE /\ direct' = (ch.sni = "none" \/ p.echPass) /\ Go("connect")
          /\ Keep /\ UNCHANGED <<ts, conns, dst, buffered, ch, lost>>

usableSNI == ch.sni # "none" /\ ~ch.ech

\* The SNI is the host the client named, or it does not override it: sniff_override is
\* off, or the SNI has no policy, or that policy or the dial under it failed.
SNIKept ==
  /\ pc = "sniff" /\ usableSNI /\ inbound # "sni"
  /\ Go("connect") /\ Keep /\ UNCHANGED <<ts, conns, dst, buffered, hello, lost>>

\* The SNI is looked up.
sniffed == pc = "sniff" /\ usableSNI /\ (inbound = "sni" \/ ch.sni = "other")

\* checkTLS13Only for the policy of the SNI.
TooOld(q) == q.tls13Only /\ ~ch.tls13

\* SniffOverrideRouteOnly: the SNI's policy goes over the present one.  Of the merged
\* policy only the mode is looked at again.
RouteOnly ==
  /\ sniffed /\ p.sniff = "route"
  /\ \E q \in SNIPolicies :
       IF q.mode = "block" THEN QuitRefused
       ELSE IF q.mode = "tls-alert" \/ TooOld(q) THEN QuitAlert
       ELSE /\ p' = [p EXCEPT !.mode = IF q.mode # "unset" THEN q.mode
                                       ELSE IF @ # "unset" THEN @ ELSE "tls-rf"]
            /\ Go("connect")
            /\ Keep /\ UNCHANGED <<of, target, conns, dst, buffered, hello, lost>>

\* Mutant of Swap: the connection is kept and only the policy changes.
SwapPolicyOnly(q) ==
  UNCHANGED <<conns, dst>> /\ p' = q /\ of' = "sni" /\ target' = "sni"

\* The dial for the SNI has succeeded: the connection there takes the place of the other.
Swap(q) ==
  /\ conns' = Append(IF dst = 0 THEN conns ELSE [conns EXCEPT ![dst] = closed(@)],
                     [to |-> "sni", open |-> TRUE, got |-> <<>>])
  /\ dst' = Len(conns) + 1
  /\ p' = q /\ of' = "sni" /\ target' = "sni"

\* SniffOverrideAlways and PolicyExists: genPolicy for the SNI, and a dial.  If either
\* fails or the SNI has no policy the origin stays (SNIKept), but the SNI proxy ends.
Override ==
  /\ sniffed /\ p.sniff \in {"always", "exists"}
  /\ \/ inbound = "sni" /\ QuitSilently
     \/ HandlerPanics("panic")
     \/ QuitRefused
     \/ \E q \in SNIPolicies :
          IF q.mode = "tls-alert" \/ TooOld(q) THEN QuitAlert
          ELSE Swap(q) /\ Go("connect") /\ Keep /\ UNCHANGED <<buffered, hello, lost>>

\* Mutant of Connect: the failure is told in the protocol of the inbound.
ConnectTelling ==
  /\ pc = "connect"
  /\ \/ dst = 0 /\ QuitTelling("failure")
     \/ /\ IF dst = 0 THEN Dialed(target) ELSE UNCHANGED <<conns, dst>>
        /\ Go("send") /\ Keep /\ UNCHANGED <<ts, buffered, hello, lost>>

\* handleTLS dials if there is no connection yet.
Connect ==
  /\ pc = "connect"
  /\ \/ dst = 0 /\ QuitSilently
     \/ /\ IF dst = 0 THEN Dialed(target) ELSE UNCHANGED <<conns, dst>>
        /\ Go("send") /\ Keep /\ UNCHANGED <<ts, buffered, hello, lost>>

\* The modes handleTLS has a way to send a record for.
sendable == direct \/ p.mode \in {"raw", "direct", "tls-rf", "ttl-d"}

\* handleTLS sends the record the way of the mode; the other modes send nothing.
Send ==
  /\ pc = "send"
  /\ \/ sendable /\ QuitSilently
     \/ /\ IF sendable THEN Write("hello") /\ UNCHANGED lost
           ELSE UNCHANGED conns /\ lost' = "mode"
        /\ Go("drain") /\ Keep /\ UNCHANGED <<ts, dst, buffered, hello>>

Next ==
  \/ Greet \/ BadRequest \/ GenPolicy \/ ReadPort \/ ForwardRequest \/ DialOrigin \/ Reply
  \/ Raw \/ Peek \/ HTTPUnparsed \/ HTTPParsed \/ HandleHTTP \/ Drain \/ DrainNil
  \/ HandleTLS \/ NoUsableSNI \/ SNIKept \/ RouteOnly \/ Override \/ Connect \/ Send

Spec == Init /\ [][Next]_vars

----
Told(reply) == \E i \in 1..Len(told) : told[i] = reply

\* A session that ends without forwarding leaves no connection open, and one that
\* forwards has given up every connection but the one it forwards to.  Two exceptions:
\* handleTunnelSNI does not close the destination when it fails after the dial
\* (sniproxy.go:93), and the connection of an answered plain request stays idle in a
\* transport nobody closes (http.go:228).
NoConnLeft ==
  /\ pc = "end" =>
       /\ ~cli
       /\ \A i \in 1..Len(conns) : conns[i].open =>
            i = dst /\ (inbound = "sni" \/ (inbound = "plain" /\ told = <<"response">>))
  /\ pc = "forward" => cli /\ \A i \in 1..Len(conns) : conns[i].open <=> i = dst

\* No byte of the client goes out once its session is refused, and none goes to a host
\* its connection was dialed to before the SNI chose another one.
RefusedSendsNothing ==
  /\ refused => \A i \in 1..Len(conns) : conns[i].got = <<>>
  /\ \A i \in 1..Len(conns) : i # dst => conns[i].got = <<>>

\* What was read and not sent on: the bytes the hijack dropped, and the first message.
ahead == Len(taken) > 0 /\ taken[1] = "ahead"
Dropped == (IF ahead THEN <<"ahead">> ELSE <<>>) \o (IF lost = "no" THEN <<>> ELSE <<"hello">>)

\* The client's bytes go where they belong: besides RefusedSendsNothing, when the copying
\* starts there is a destination, and it has everything that was read from the client,
\* once and in order, but for three losses: what net/http had read behind a CONNECT
\* (http.go:113), a request that could not be parsed (tunnel.go:75) and a ClientHello under
\* a mode handleTLS has no case for (tunnel.go:283).  Without a destination the program
\* ends in a panic, and only under reply_first, when nothing has been dialed (net.go:36, 44).
StreamIntact ==
  /\ RefusedSendsNothing
  /\ pc = "forward" => dst # 0 /\ buffered = <<>> /\ taken = Dropped \o conns[dst].got
  /\ ahead => inbound = "connect"
  /\ lost = "mode" => ~sendable
  /\ pc = "nilconn" => p.replyFirst /\ conns = <<>>

\* Besides the types: connection, target and policy change together: the connection in
\* use was dialed for the target in use, under the policy made for that target.
OnePolicyOneTarget ==
  /\ TypeOK
  /\ dst # 0 => conns[dst].to = target /\ of = target

\* A client hears at most one verdict on its connection, and success only when the
\* destination is connected or the policy says reply_first.  After the success it hears
\* none in the protocol of the inbound: a TLS alert, a status of the policy or, under
\* reply_first and with nothing connected, the 502 of handleHTTP.  The exception is the
\* 200 net/http sends by itself for a CONNECT without a port (http.go:79).
ReplyHonest ==
  /\ Told("success") => told[1] = "success"
  /\ \A i \in 2..Len(told) : told[i] \in {"alert", "status", "gateway"}
  /\ Len(told) <= 2 /\ (Len(told) = 2 => Told("success"))
  /\ Told("gateway") => Len(told) = 2 /\ p.replyFirst /\ conns = <<>>
  /\ Told("implicit") => conns = <<>>
  /\ (Told("success") /\ of = "origin" /\ pc = "tunnel") => (p.replyFirst <=> dst = 0)
====
