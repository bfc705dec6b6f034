---- MODULE SessionProofs ----
(***************************************************************************)
(* Proofs of the safety properties of a session of the proxy: of Tunnel,   *)
(* for any policies, up to the step that hands both connections over, and  *)
(* of ForwardTCP, for any amount of data, from there on.                   *)
(***************************************************************************)
EXTENDS Tunnel, ForwardTCP, SequenceTheorems, TLAPS

(***************************************************************************)
(* Tunnel.                                                                 *)
(***************************************************************************)
\* The states of a session, in the order in which it goes through them.
Dialing == {"greet", "policy", "port", "request", "dial"}
Opening == Dialing \cup {"reply"}
Parsing == {"http", "respond", "tls"}
Sending == {"sniff", "connect", "send"}
Tunneled == {"tunnel", "drain", "forward"} \cup Parsing \cup Sending
Written == {"drain", "forward", "nilconn", "end"}   \* something may have been written

\* What br can hold before and after "hello" has been taken from it.
Whole == {<<"hello">>, <<"hello", "rest">>}
Remains == {<<>>, <<"rest">>}

\* What the client can hear after the success.
Later == {"alert", "status"}

Conn == [to: {"origin", "sni"}, open: BOOLEAN, got: Seq({"hello", "rest"})]

Types == TypeOK /\ conns \in Seq(Conn)

\* The one open connection is the one in use.
Owned ==
  /\ pc # "end" => cli /\ \A i \in 1..Len(conns) : conns[i].open <=> i = dst
  /\ pc = "end" =>
       /\ ~cli
       /\ \A i \in 1..Len(conns) : conns[i].open =>
            i = dst /\ (inbound = "sni" \/ (inbound = "plain" /\ told = <<"response">>))

\* Nothing is written before the session is decided, and then only to the destination.
Sent ==
  /\ \A i \in 1..Len(conns) : (i # dst \/ pc \notin Written \/ refused) => conns[i].got = <<>>
  /\ refused => pc = "end"

\* When there is a connection, and whose.
Connected ==
  /\ pc \in Dialing => dst = 0
  /\ pc \in {"reply", "tunnel"} => (p.replyFirst <=> dst = 0)
  /\ pc \in {"http", "respond", "drain", "nilconn"} => (dst = 0 => p.replyFirst)
  /\ pc = "nilconn" => dst = 0
  /\ pc \in {"send", "forward"} => dst # 0
  /\ dst = 0 => conns = <<>>
  /\ dst # 0 => conns[dst].to = target /\ of = target

\* The session's target is the host the client named until the SNI takes its place.
Aimed ==
  /\ (inbound # "sni" /\ pc \in {"port", "request", "dial", "reply", "tunnel", "sniff"} \cup Parsing) =>
       of = "origin" /\ target = "origin"
  /\ (inbound # "sni" /\ pc \in {"connect", "send", "drain", "forward"}) =>
       of = target /\ target # "none"

\* The SNI proxy takes the short way, and dials only for the SNI.
SNIProxy ==
  inbound = "sni" =>
    /\ pc \in {"greet", "tls", "drain", "forward", "panic", "end"} \cup Sending
    /\ pc \in {"greet", "tls", "sniff"} => p = SNIProxyPolicy /\ dst = 0
    /\ pc \in {"connect", "send", "drain", "forward"} => dst # 0

\* Where the client's bytes are: in br, with the destination, or lost.
got == IF dst = 0 THEN <<>> ELSE conns[dst].got
front == IF ahead THEN <<"ahead">> ELSE <<>>

Stream ==
  /\ pc \in Dialing \ {"dial"} => taken = <<>>
  /\ pc \in Opening \cup {"tunnel"} => buffered = <<>> /\ lost = "no" /\ taken = front
  /\ pc \in Parsing => buffered \in Whole /\ lost = "no" /\ taken = front \o buffered
  /\ pc \in Sending =>
       buffered \in Remains /\ lost = "no" /\ taken = front \o (<<"hello">> \o buffered)
  /\ pc = "drain" =>
       \/ buffered \in Whole /\ got = <<>> /\ lost = "no" /\ taken = front \o buffered
       \/ /\ buffered \in Remains /\ taken = front \o (<<"hello">> \o buffered)
          /\ \/ got = <<>> /\ lost \in {"parse", "mode"}
             \/ got = <<"hello">> /\ lost = "no"
  /\ pc = "forward" =>
       /\ buffered = <<>>
       /\ \/ got \in {<<>>} \cup Whole /\ lost = "no" /\ taken = front \o got
          \/ got \in Remains /\ lost # "no" /\ taken = front \o (<<"hello">> \o got)

\* Why bytes were lost.
Reasons ==
  /\ ahead => inbound = "connect"
  /\ lost = "mode" => ~sendable

\* What the client has heard.
Verdict ==
  \/ told = <<>>
  \/ \E x \in Replies \ {"gateway", "implicit"} : told = <<x>>
  \/ \E x \in Later : told = <<"success", x>>
  \/ told = <<"implicit">> /\ conns = <<>>
  \/ told = <<"success", "gateway">> /\ conns = <<>> /\ p.replyFirst

\* Only a plain request is sent by a transport.
Asked == pc = "request" => inbound = "plain"

Heard ==
  /\ Asked
  /\ pc \in Opening => told = <<>>
  /\ pc \in Tunneled => told = <<"success">> \/ (told = <<>> /\ inbound = "sni")
  /\ pc \in {"end", "panic", "nilconn"} => Verdict

IInv ==
  Types /\ Owned /\ Sent /\ Connected /\ Aimed /\ SNIProxy /\ Stream /\ Reasons /\ Heard


\* The variables a step gives a value of its own.
Scalars ==
  /\ pc \in Opening \cup Tunneled \cup {"panic", "nilconn", "end"}
  /\ p \in Policies /\ of \in {"none", "origin", "sni"} /\ target \in {"none", "origin", "sni"}
  /\ told \in Seq(Replies) /\ buffered \in Seq({"hello", "rest"})
  /\ taken \in Seq({"ahead", "hello", "rest"})
  /\ direct \in BOOLEAN /\ ch \in ClientHellos /\ lost \in {"no", "parse", "mode"}

----
(* Sequences. *)

\* The values br can take are sequences.
LEMMA Buffers == \A b \in Whole \cup Remains : b \in Seq({"hello", "rest"})
<1>1. <<>> \in Seq({"hello", "rest"})
  OBVIOUS
<1>2. <<"hello">> \in Seq({"hello", "rest"})
  OBVIOUS
<1>3. <<"rest">> \in Seq({"hello", "rest"})
  OBVIOUS
<1>4. <<"hello", "rest">> \in Seq({"hello", "rest"})
  OBVIOUS
<1> QED
  BY <1>1, <1>2, <1>3, <1>4, Zenon DEF Whole, Remains

\* What comes after "hello" completes the stream.
LEMMA Joined ==
  /\ \A b \in Whole \cup Remains : <<>> \o b = b
  /\ <<"hello">> \o <<>> = <<"hello">> /\ <<"hello">> \o <<"rest">> = <<"hello", "rest">>
<1>1. \A b \in Whole \cup Remains : <<>> \o b = b
  <2>1. <<>> \o <<>> = <<>>
    OBVIOUS
  <2> QED
    BY <2>1 DEF Whole, Remains
<1>2. <<"hello">> \o <<"rest">> = <<"hello", "rest">>
  <2> DEFINE u == <<"hello">> \o <<"rest">>
             v == <<"hello", "rest">>
  <2>1. v \in Seq({"hello", "rest"}) /\ Len(v) = 2 /\ v[1] = "hello" /\ v[2] = "rest"
    OBVIOUS
  <2>2. u \in Seq({"hello", "rest"}) /\ Len(u) = 2 /\ u[1] = "hello" /\ u[2] = "rest"
    OBVIOUS
  <2> HIDE DEF u, v
  <2>3. u = v
    BY <2>1, <2>2
  <2> QED
    BY <2>3 DEF u, v
<1>3. <<"hello">> \o <<>> = <<"hello">>
  OBVIOUS
<1> QED
  BY <1>1, <1>2, <1>3

\* Nothing has been read since the hijack.
LEMMA FrontAlone == front \o <<>> = front
<1>1. front = <<>> \/ front = <<"ahead">>
  BY DEF front
<1>2. <<>> \o <<>> = <<>>
  OBVIOUS
<1>3. <<"ahead">> \o <<>> = <<"ahead">>
  OBVIOUS
<1> QED
  BY <1>1, <1>2, <1>3

\* Taking the first message out of br.
LEMMA Taken == \A b \in Whole : b # <<>> /\ Tail(b) \in Remains /\ b = <<"hello">> \o Tail(b)
<1>1. Tail(<<"hello">>) = <<>> /\ <<"hello">> # <<>>
  OBVIOUS
<1>2. Tail(<<"hello", "rest">>) = <<"rest">>
  OBVIOUS
<1>3. <<"hello", "rest">> # <<>>
  OBVIOUS
<1> QED
  BY <1>1, <1>2, <1>3, Joined, Zenon DEF Whole, Remains

\* Reading more does not change what was read first.
LEMMA Reading ==
  ASSUME taken = front, NEW b \in Whole, taken' = taken \o b
  PROVE  /\ taken' \in Seq({"ahead", "hello", "rest"}) /\ taken' = front' \o b
         /\ ahead' <=> ahead
<1> USE DEF Whole
<1>1. b \in Seq({"ahead", "hello", "rest"}) /\ Len(b) > 0 /\ b[1] = "hello"
  OBVIOUS
<1>2. CASE ahead
  <2>1. taken = <<"ahead">>
    BY <1>2 DEF front
  <2>2. taken' \in Seq({"ahead", "hello", "rest"}) /\ Len(taken') > 0 /\ taken'[1] = "ahead"
    BY <1>1, <2>1
  <2> QED
    BY <1>2, <2>1, <2>2 DEF ahead, front
<1>3. CASE ~ahead
  <2>1. taken = <<>>
    BY <1>3 DEF front
  <2>2. taken' = b
    BY <2>1
  <2>3. ~ahead' /\ front' = <<>>
    BY <1>1, <2>2 DEF ahead, front
  <2> QED
    BY <1>1, <1>3, <2>2, <2>3
<1> QED
  BY <1>2, <1>3

\* A verdict is the first or the second thing the client hears.
LEMMA Said ==
  ASSUME NEW x \in Replies
  PROVE  /\ Append(<<>>, x) = <<x>> /\ Append(<<"success">>, x) = <<"success", x>>
         /\ <<x>> \in Seq(Replies) /\ <<"success", x>> \in Seq(Replies)
<1>1. "success" \in Replies
  BY DEF Replies
<1>2. Append(<<>>, x) = <<x>>
  OBVIOUS
<1>3. <<x>> \in Seq(Replies)
  OBVIOUS
<1>4. <<"success", x>> \in Seq(Replies) /\ Len(<<"success", x>>) = 2
      /\ <<"success", x>>[1] = "success" /\ <<"success", x>>[2] = x
  BY <1>1
<1>5. <<"success">> \in Seq(Replies) /\ Len(<<"success">>) = 1 /\ <<"success">>[1] = "success"
  BY <1>1
<1>6. Append(<<"success">>, x) = <<"success", x>>
  <2> DEFINE u == Append(<<"success">>, x)
             v == <<"success", x>>
  <2>1. u \in Seq(Replies) /\ Len(u) = 2 /\ u[1] = "success" /\ u[2] = x
    BY <1>5
  <2>2. \A i \in 1..Len(u) : u[i] = v[i]
    OBVIOUS
  <2> HIDE DEF u, v
  <2>3. u = v
    BY <2>1 DEF v
  <2> QED
    BY <2>3 DEF u, v
<1> QED
  BY <1>4, <1>6



\* Closing one connection.
LEMMA CloseOne ==
  ASSUME NEW s \in Seq(Conn), NEW d \in 1..Len(s), NEW t, t = [s EXCEPT ![d] = closed(@)]
  PROVE  /\ t \in Seq(Conn) /\ Len(t) = Len(s)
         /\ \A i \in 1..Len(s) : t[i].to = s[i].to /\ t[i].got = s[i].got
         /\ \A i \in 1..Len(s) : i # d => t[i] = s[i]
         /\ ~t[d].open
<1>1. s[d] \in Conn
  BY ElementOfSeq
<1>2. closed(s[d]) \in Conn
  BY <1>1 DEF Conn, closed
<1>3. /\ closed(s[d]).to = s[d].to /\ closed(s[d]).got = s[d].got
      /\ closed(s[d]).open = FALSE
  BY DEF closed
<1>4. t \in Seq(Conn) /\ Len(t) = Len(s) /\ t[d] = closed(s[d])
      /\ \A i \in 1..Len(s) : i # d => t[i] = s[i]
  BY <1>2
<1> QED
  BY <1>3, <1>4

\* Adding a fresh connection.
LEMMA AddOne ==
  ASSUME NEW s \in Seq(Conn), NEW h \in {"origin", "sni"}, NEW t,
         t = Append(s, [to |-> h, open |-> TRUE, got |-> <<>>])
  PROVE  /\ t \in Seq(Conn) /\ Len(t) = Len(s) + 1
         /\ \A i \in 1..Len(s) : t[i] = s[i]
         /\ t[Len(s) + 1].to = h /\ t[Len(s) + 1].open /\ t[Len(s) + 1].got = <<>>
<1>1. [to |-> h, open |-> TRUE, got |-> <<>>] \in Conn
  BY DEF Conn
<1>2. t \in Seq(Conn) /\ Len(t) = Len(s) + 1 /\ \A i \in 1..Len(s) : t[i] = s[i]
  BY <1>1
<1>3. t[Len(s) + 1] = [to |-> h, open |-> TRUE, got |-> <<>>]
  OBVIOUS
<1> QED
  BY <1>2

----
(* Steps. *)

\* What has been heard so far.
LEMMA HeardSoFar ==
  ASSUME IInv, pc \notin {"end", "panic", "nilconn"}
  PROVE  /\ told = <<>> \/ told = <<"success">>
         /\ pc \in Opening => told = <<>>
         /\ pc \in Tunneled /\ inbound # "sni" => told = <<"success">>
         /\ ~refused
<1>1. pc \in Opening \cup Tunneled
  BY DEF IInv, Types, TypeOK, Opening, Dialing, Tunneled, Parsing, Sending
<1> QED
  BY <1>1 DEF IInv, Heard, Sent

\* The handler returns: what is left to show is what the client has heard and that a
\* refused session has sent nothing.
LEMMA QuitStep ==
  ASSUME IInv, pc \notin {"end", "panic", "nilconn"}, Quit,
         refused' \in BOOLEAN, refused' => pc \notin Written,
         \/ told' = <<>>
         \/ \E x \in Replies \ {"gateway"} : told' = <<x>> /\ (x = "implicit" => dst = 0)
         \/ \E x \in Later : told' = <<"success", x>>
         \/ told' = <<"success", "gateway">> /\ pc = "respond" /\ dst = 0
  PROVE  IInv'
<1>1. /\ pc' = "end" /\ ~cli' /\ cli' \in BOOLEAN
      /\ UNCHANGED <<inbound, p, of, target, dst, buffered, taken, ch, direct, lost>>
  BY DEF Quit, CloseBoth, CloseClient, ts, hello
<1>2. /\ conns \in Seq(Conn) /\ dst \in 0..Len(conns)
      /\ \A i \in 1..Len(conns) : conns[i].open <=> i = dst
      /\ \A i \in 1..Len(conns) : (i # dst \/ pc \notin Written) => conns[i].got = <<>>
  BY DEF IInv, Types, TypeOK, Owned, Sent
<1>3. /\ conns' \in Seq(Conn) /\ Len(conns') = Len(conns)
      /\ \A i \in 1..Len(conns) : conns'[i].to = conns[i].to /\ conns'[i].got = conns[i].got
      /\ \A i \in 1..Len(conns) : conns'[i].open => i = dst /\ inbound = "sni"
      /\ dst = 0 => conns' = conns
  <2>1. CASE inbound = "sni" \/ dst = 0
    <3>1. conns' = conns
      BY <2>1 DEF Quit, CloseBoth, CloseClient
    <3> QED
      BY <1>2, <2>1, <3>1
  <2>2. CASE inbound # "sni" /\ dst # 0
    <3>1. conns' = [conns EXCEPT ![dst] = closed(@)]
      BY <2>2 DEF Quit, CloseBoth
    <3>2. dst \in 1..Len(conns)
      BY <1>2, <2>2
    <3>3. /\ conns' \in Seq(Conn) /\ Len(conns') = Len(conns)
          /\ \A i \in 1..Len(conns) : conns'[i].to = conns[i].to /\ conns'[i].got = conns[i].got
          /\ \A i \in 1..Len(conns) : i # dst => conns'[i] = conns[i]
          /\ ~conns'[dst].open
      BY <1>2, <3>1, <3>2, CloseOne
    <3> QED
      BY <1>2, <3>3
  <2> QED
    BY <2>1, <2>2
<1>4. told' \in Seq(Replies)
  <2>1. Later \cup {"gateway"} \subseteq Replies /\ <<>> \in Seq(Replies)
    BY DEF Later, Replies
  <2> QED
    BY <2>1, Said
<1>5. Types'
  BY <1>1, <1>3, <1>4, ElementOfSeq DEF IInv, Types, TypeOK, Conn
<1>6. Owned' /\ Sent'
  BY <1>1, <1>2, <1>3 DEF Owned, Sent, Written
<1>7. Connected'
  BY <1>1, <1>2, <1>3 DEF IInv, Connected, Dialing
<1>8. Aimed' /\ SNIProxy' /\ Stream'
  BY <1>1 DEF Aimed, SNIProxy, Stream, Opening, Dialing, Parsing, Sending
<1>9. Reasons'
  BY <1>1 DEF IInv, Reasons, ahead, sendable
<1>10. Heard'
  <2>1. dst = 0 => conns' = <<>>
    BY <1>3 DEF IInv, Connected
  <2>2. pc = "respond" /\ dst = 0 => p.replyFirst
    BY DEF IInv, Connected
  <2>3. Verdict'
    BY <1>1, <2>1, <2>2 DEF Verdict
  <2> QED
    BY <1>1, <2>3 DEF Heard, Asked, Opening, Dialing, Tunneled, Parsing, Sending
<1> QED
  BY <1>5, <1>6, <1>7, <1>8, <1>9, <1>10 DEF IInv

\* Returning without a word.
LEMMA SilentStep ==
  ASSUME IInv, pc \notin {"end", "panic", "nilconn"}, QuitSilently
  PROVE  IInv'
<1>1. Quit /\ told' = told /\ refused' = refused
  BY DEF QuitSilently
<1>2. told = <<>> \/ told = <<"success">>
  BY HeardSoFar
<1>3. "success" \in Replies /\ refused' \in BOOLEAN /\ ~refused'
  BY <1>1, HeardSoFar DEF Replies, IInv, Types, TypeOK
<1> QED
  BY <1>1, <1>2, <1>3, QuitStep

\* Returning with a reply: only some may follow the success.
LEMMA TellingStep ==
  ASSUME IInv, pc \notin {"end", "panic", "nilconn"}, NEW x \in Replies, Quit, Tell(x),
         pc \in Opening \/ x \in Later \cup {"gateway"},
         x = "implicit" => pc = "policy", x = "gateway" => pc = "respond" /\ dst = 0,
         refused' \in BOOLEAN, refused' => pc \notin Written
  PROVE  IInv'
<1>1. told' = Append(told, x)
  BY DEF Tell
<1>2. /\ told = <<>> \/ told = <<"success">>
      /\ pc \in Opening => told = <<>>
  BY HeardSoFar
<1>3. told = <<>> => told' = <<x>>
  BY <1>1
<1>4. told = <<"success">> => told' = <<"success", x>>
  BY <1>1, Said
<1>5. x = "implicit" => dst = 0
  BY DEF IInv, Connected, Dialing
<1>6. told = <<>> => x # "gateway"
  <2>1. pc = "respond" => pc \in Tunneled /\ inbound # "sni"
    BY DEF IInv, SNIProxy, Tunneled, Parsing, Sending
  <2>2. <<"success">> # <<>>
    OBVIOUS
  <2> QED
    BY <2>1, <2>2, HeardSoFar
<1>7. told = <<"success">> => x \in Later \cup {"gateway"}
  <2>1. <<"success">> # <<>>
    OBVIOUS
  <2> QED
    BY <1>2, <2>1
<1> QED
  BY <1>2, <1>3, <1>4, <1>5, <1>6, <1>7, QuitStep

\* Returning because the policy refuses the session.
LEMMA RefusedStep ==
  ASSUME IInv, pc \notin Written \cup {"panic"}, QuitRefused
  PROVE  IInv'
<1>1. Quit /\ told' = told /\ refused' = TRUE /\ pc \notin {"end", "nilconn"}
  BY DEF QuitRefused, Written
<1>2. told = <<>> \/ told = <<"success">>
  BY <1>1, HeardSoFar
<1>3. "success" \in Replies
  BY DEF Replies
<1> QED
  BY <1>1, <1>2, <1>3, QuitStep

\* A step that leaves the connections alone.
LEMMA MoveStep ==
  ASSUME IInv, pc \notin {"end", "panic", "nilconn"}, pc' # "end",
         pc \notin Written \/ pc' \in Written, Scalars', UNCHANGED <<inbound, cli, conns, dst, refused>>
  PROVE  Types' /\ Owned' /\ Sent'
<1>1. Types'
  BY DEF IInv, Types, TypeOK, Scalars, Opening, Dialing, Tunneled, Parsing, Sending
<1>2. Owned'
  BY DEF IInv, Owned
<1>3. Sent'
  BY DEF IInv, Sent
<1> QED
  BY <1>1, <1>2, <1>3

\* A panic that ends the program.
LEMMA CrashStep ==
  ASSUME IInv, pc \notin {"end", "panic", "nilconn"}, NEW x \in {"panic", "nilconn"}, Crash(x),
         x = "panic" => pc \notin Written, x = "nilconn" => pc = "drain" /\ dst = 0
  PROVE  IInv'
<1>1. /\ pc' = x
      /\ UNCHANGED <<inbound, p, of, target, cli, conns, dst, told, buffered, taken, ch, direct, lost, refused>>
  BY DEF Crash, ts, hello
<1>2. Scalars'
  BY <1>1 DEF Scalars, IInv, Types, TypeOK
<1>3. Types' /\ Owned' /\ Sent'
  BY <1>1, <1>2, MoveStep DEF Written
<1>4. Connected' /\ Aimed' /\ SNIProxy'
  BY <1>1 DEF IInv, Connected, Aimed, SNIProxy, Dialing, Parsing, Sending
<1>5. Stream' /\ Reasons'
  BY <1>1 DEF IInv, Stream, Reasons, ahead, sendable, Opening, Dialing, Parsing, Sending
<1>6. Heard'
  <2>1. told' = <<>> \/ told' = <<"success">>
    BY <1>1, HeardSoFar
  <2>2. "success" \in Replies \ {"gateway", "implicit"}
    BY DEF Replies
  <2>3. Verdict'
    BY <2>1, <2>2 DEF Verdict
  <2> QED
    BY <1>1, <2>3 DEF Heard, Asked, Opening, Dialing, Tunneled, Parsing, Sending
<1> QED
  BY <1>3, <1>4, <1>5, <1>6 DEF IInv

\* A panic of a handler.
LEMMA PanicStep ==
  ASSUME IInv, pc \notin {"end", "panic", "nilconn"}, NEW x \in {"panic", "nilconn"},
         HandlerPanics(x),
         x = "panic" => pc \notin Written, x = "nilconn" => pc = "drain" /\ dst = 0
  PROVE  IInv'
<1>1. QuitSilently \/ Crash(x)
  BY DEF HandlerPanics
<1> QED
  BY <1>1, SilentStep, CrashStep

\* A step that dials the first connection.
LEMMA DialStep ==
  ASSUME IInv, pc \notin Written \cup {"panic"}, pc' # "end", Scalars', dst = 0,
         NEW h \in {"origin", "sni"}, Dialed(h), UNCHANGED <<inbound, cli, refused>>
  PROVE  /\ Types' /\ Owned' /\ Sent'
         /\ dst' # 0 /\ conns'[dst'].to = h /\ conns'[dst'].got = <<>>
<1>1. /\ conns' = Append(conns, [to |-> h, open |-> TRUE, got |-> <<>>])
      /\ dst' = Len(conns) + 1 /\ conns \in Seq(Conn)
  BY DEF Dialed, IInv, Types
<1>2. /\ conns' \in Seq(Conn) /\ Len(conns') = Len(conns) + 1
      /\ \A i \in 1..Len(conns) : conns'[i] = conns[i]
      /\ conns'[dst'].to = h /\ conns'[dst'].open /\ conns'[dst'].got = <<>>
  <2> DEFINE c == [to |-> h, open |-> TRUE, got |-> <<>>]
  <2>1. c \in Conn /\ c.to = h /\ c.open /\ c.got = <<>>
    BY DEF Conn
  <2> HIDE DEF c
  <2>2. conns' = Append(conns, c)
    BY <1>1 DEF c
  <2>3. /\ conns' \in Seq(Conn) /\ Len(conns') = Len(conns) + 1
        /\ \A i \in 1..Len(conns) : conns'[i] = conns[i]
        /\ conns'[Len(conns) + 1] = c
    BY <1>1, <2>1, <2>2
  <2> QED
    BY <1>1, <2>3
<1>3. Len(conns) \in Nat /\ pc \notin {"end", "nilconn"} /\ ~refused
  BY HeardSoFar DEF Written
<1>4. \A i \in 1..Len(conns) : ~conns[i].open /\ conns[i].got = <<>>
  BY <1>3 DEF IInv, Owned, Sent
<1>5. \A i \in 1..Len(conns') : i # dst' => ~conns'[i].open /\ conns'[i].got = <<>>
  BY <1>1, <1>4
<1>6. Types'
  BY <1>1, <1>2
  DEF IInv, Types, TypeOK, Scalars, Opening, Dialing, Tunneled, Parsing, Sending
<1>7. Owned'
  BY <1>2, <1>3, <1>5 DEF IInv, Owned
<1>8. Sent'
  BY <1>2, <1>3, <1>5 DEF Sent
<1> QED
  BY <1>1, <1>6, <1>7, <1>8

\* A step that gives up the connection in use, if any, for one to the SNI.
LEMMA SwapStep ==
  ASSUME IInv, pc \notin Written \cup {"panic"}, pc' # "end", Scalars',
         NEW q, Swap(q), UNCHANGED <<inbound, cli, refused>>
  PROVE  /\ Types' /\ Owned' /\ Sent'
         /\ dst' # 0 /\ conns'[dst'].to = "sni" /\ conns'[dst'].got = <<>>
<1> DEFINE s == IF dst = 0 THEN conns ELSE [conns EXCEPT ![dst] = closed(@)]
<1>1. /\ conns' = Append(s, [to |-> "sni", open |-> TRUE, got |-> <<>>])
      /\ dst' = Len(conns) + 1 /\ conns \in Seq(Conn) /\ dst \in 0..Len(conns)
  BY DEF Swap, IInv, Types, TypeOK
<1>2. Len(conns) \in Nat /\ pc \notin {"end", "nilconn"} /\ ~refused
  BY HeardSoFar DEF Written
<1>3. \A i \in 1..Len(conns) : (i # dst => ~conns[i].open) /\ conns[i].got = <<>>
  BY <1>2 DEF IInv, Owned, Sent
<1>4. /\ s \in Seq(Conn) /\ Len(s) = Len(conns)
      /\ \A i \in 1..Len(conns) : ~s[i].open /\ s[i].got = <<>>
  <2>1. CASE dst = 0
    BY <1>1, <1>3, <2>1
  <2>2. CASE dst # 0
    <3>1. dst \in 1..Len(conns) /\ s = [conns EXCEPT ![dst] = closed(@)]
      BY <1>1, <2>2
    <3> HIDE DEF s
    <3>2. /\ s \in Seq(Conn) /\ Len(s) = Len(conns) /\ ~s[dst].open
          /\ \A i \in 1..Len(conns) : s[i].got = conns[i].got
          /\ \A i \in 1..Len(conns) : i # dst => s[i] = conns[i]
      BY <1>1, <3>1, CloseOne
    <3> QED
      BY <1>3, <3>2
  <2> QED
    BY <2>1, <2>2
<1> HIDE DEF s
<1>5. /\ conns' \in Seq(Conn) /\ Len(conns') = Len(conns) + 1
      /\ \A i \in 1..Len(conns) : conns'[i] = s[i]
      /\ conns'[dst'].to = "sni" /\ conns'[dst'].open /\ conns'[dst'].got = <<>>
  BY <1>1, <1>4, AddOne
<1>6. \A i \in 1..Len(conns') : i # dst' => ~conns'[i].open /\ conns'[i].got = <<>>
  BY <1>1, <1>4
<1>7. Types'
  <2>1. \A i \in 1..Len(conns') : conns'[i] \in Conn
    BY <1>5
  <2>2. dst' \in 0..Len(conns')
    BY <1>1, <1>5
  <2> QED
    BY <1>5, <2>1, <2>2
    DEF IInv, Types, TypeOK, Conn, Scalars, Opening, Dialing, Tunneled, Parsing, Sending
<1>8. Owned'
  BY <1>2, <1>5, <1>6 DEF IInv, Owned
<1>9. Sent'
  BY <1>2, <1>5, <1>6 DEF Sent
<1> QED
  BY <1>1, <1>5, <1>7, <1>8, <1>9

\* A connection that has got nothing gets "hello".
LEMMA WriteHello ==
  ASSUME IInv, pc \notin Written, dst # 0, Write("hello")
  PROVE  conns' = [conns EXCEPT ![dst].got = <<"hello">>]
<1>1. conns[dst].got = <<>>
  BY DEF IInv, Types, TypeOK, Sent
<1>2. Append(<<>>, "hello") = <<"hello">>
  OBVIOUS
<1> QED
  BY <1>1 DEF Write

\* A step that writes to the connection in use.
LEMMA WriteStep ==
  ASSUME IInv, pc \notin {"end", "panic", "nilconn"}, pc' \in {"drain", "forward"}, Scalars', dst # 0,
         NEW g \in Seq({"hello", "rest"}), conns' = [conns EXCEPT ![dst].got = g],
         UNCHANGED <<inbound, cli, dst, refused>>
  PROVE  /\ Types' /\ Owned' /\ Sent'
         /\ conns'[dst].to = conns[dst].to /\ conns'[dst].got = g
<1>1. conns \in Seq(Conn) /\ dst \in 1..Len(conns)
  BY DEF IInv, Types, TypeOK
<1>2. /\ conns' \in Seq(Conn) /\ Len(conns') = Len(conns)
      /\ \A i \in 1..Len(conns) : conns'[i].to = conns[i].to /\ conns'[i].open = conns[i].open
      /\ \A i \in 1..Len(conns) : i # dst => conns'[i] = conns[i]
      /\ conns'[dst].got = g
  <2> DEFINE c == [conns[dst] EXCEPT !.got = g]
  <2>1. conns[dst] \in Conn
    BY <1>1, ElementOfSeq
  <2>2. c \in Conn
    BY <2>1 DEF Conn
  <2>3. c.to = conns[dst].to /\ c.open = conns[dst].open /\ c.got = g
    OBVIOUS
  <2>4. conns' = [conns EXCEPT ![dst] = c]
    OBVIOUS
  <2> HIDE DEF c
  <2>5. conns' \in Seq(Conn) /\ Len(conns') = Len(conns) /\ conns'[dst] = c
        /\ \A i \in 1..Len(conns) : i # dst => conns'[i] = conns[i]
    BY <1>1, <2>2, <2>4, ExceptSeq, SMTT(30)
  <2> QED
    BY <2>3, <2>5
<1>3. ~refused
  BY HeardSoFar
<1>4. Types'
  BY <1>2 DEF IInv, Types, TypeOK, Conn, Scalars
<1>5. Owned'
  BY DEF IInv, Owned
<1>6. Sent'
  BY DEF IInv, Sent, Written
<1> QED
  BY <1>2, <1>4, <1>5, <1>6

----
(* The inbounds. *)

\* The greeting.
LEMMA GreetStep ==
  ASSUME IInv, Greet
  PROVE  IInv'
<1>1. CASE QuitSilently
  BY <1>1, SilentStep DEF Greet
<1>2. CASE inbound = "socks5" /\ QuitTelling("unsupported")
  BY <1>2, TellingStep
  DEF Greet, QuitTelling, Replies, Opening, Dialing, IInv, Types, TypeOK, Written
<1>3. ASSUME inbound = "socks5", Go("policy"), Keep,
             UNCHANGED <<ts, conns, dst, buffered, hello, lost>>
      PROVE  IInv'
  <2>1. /\ inbound = "socks5" /\ pc = "greet" /\ pc' = "policy"
        /\ UNCHANGED <<inbound, p, of, target, cli, conns, dst, told, buffered, taken, ch, direct, lost, refused>>
    BY <1>3 DEF Greet, Go, Keep, ts, hello
  <2>2. Scalars'
    BY <2>1 DEF Scalars, IInv, Types, TypeOK, Opening, Dialing
  <2>3. Types' /\ Owned' /\ Sent'
    BY <2>1, <2>2, MoveStep DEF Written
  <2>4. Connected' /\ Aimed' /\ SNIProxy'
    BY <2>1 DEF IInv, Connected, Aimed, SNIProxy, Dialing, Parsing
  <2>5. Stream' /\ Reasons'
    BY <2>1 DEF IInv, Stream, Reasons, front, ahead, sendable, Opening, Dialing, Parsing, Sending
  <2>6. Heard'
    BY <2>1 DEF IInv, Heard, Asked, Opening, Dialing, Tunneled, Parsing, Sending
  <2> QED
    BY <2>3, <2>4, <2>5, <2>6 DEF IInv
<1>4. ASSUME inbound = "sni", Go("tls"), NEW b \in Whole, buffered' = b, Read(b),
             UNCHANGED <<ts, conns, dst, hello, lost>>
      PROVE  IInv'
  <2>1. /\ inbound = "sni" /\ pc = "greet" /\ pc' = "tls" /\ buffered' \in Whole
        /\ UNCHANGED <<inbound, p, of, target, cli, conns, dst, told, ch, direct, lost, refused>>
    BY <1>4 DEF Greet, Go, Read, ts, hello
  <2>0. /\ taken' \in Seq({"ahead", "hello", "rest"}) /\ taken' = front' \o buffered'
        /\ ahead' <=> ahead
    BY <1>4, Reading DEF Read, Greet, IInv, Stream, Opening, Dialing
  <2>2. Scalars'
    BY <2>0, <2>1, Buffers DEF Scalars, IInv, Types, TypeOK, Tunneled, Parsing
  <2>3. Types' /\ Owned' /\ Sent'
    BY <2>1, <2>2, MoveStep DEF Written
  <2>4. Connected' /\ Aimed' /\ SNIProxy'
    BY <2>1 DEF IInv, Connected, Aimed, SNIProxy
  <2>5. Stream' /\ Reasons'
    BY <2>0, <2>1 DEF IInv, Stream, Reasons, sendable, Opening, Dialing, Sending
  <2>6. Heard'
    BY <2>1 DEF IInv, Heard, Asked, Opening, Dialing, Tunneled, Parsing
  <2> QED
    BY <2>3, <2>4, <2>5, <2>6 DEF IInv
<1> QED
  BY <1>1, <1>2, <1>3, <1>4 DEF Greet, Whole

\* A request that asks for nothing.
LEMMA BadRequestStep ==
  ASSUME IInv, BadRequest
  PROVE  IInv'
<1>1. pc = "policy" /\ (QuitTelling("failure") \/ QuitTelling("implicit"))
  BY DEF BadRequest
<1> QED
  BY <1>1, TellingStep
  DEF QuitTelling, Replies, Opening, Dialing, IInv, Types, TypeOK, Written

\* The policy for the host the client named.
LEMMA GenPolicyStep ==
  ASSUME IInv, GenPolicy
  PROVE  IInv'
<1>1. CASE QuitTelling("failure")
  BY <1>1, TellingStep
  DEF GenPolicy, QuitTelling, Replies, Opening, Dialing, IInv, Types, TypeOK, Written
<1>2. CASE Quit /\ Tell("refused") /\ refused' = TRUE
  BY <1>2, TellingStep DEF GenPolicy, Replies, Opening, Dialing, Written
<1>3. ASSUME NEW q \in OriginPolicies, p' = q, of' = "origin", target' = "origin",
             Go(IF inbound = "plain" THEN "request" ELSE "port"), Keep,
             UNCHANGED <<conns, dst, buffered, hello, lost>>
      PROVE  IInv'
  <2>1. /\ pc = "policy" /\ pc' \in {"request", "port"} /\ p' \in Policies
        /\ of' = "origin" /\ target' = "origin" /\ (pc' = "request" => inbound = "plain")
        /\ UNCHANGED <<inbound, cli, conns, dst, told, buffered, taken, ch, direct, lost, refused>>
    BY <1>3, TunnelAssumption DEF GenPolicy, Go, Keep, hello
  <2>2. Scalars'
    BY <2>1 DEF Scalars, IInv, Types, TypeOK, Opening, Dialing
  <2>3. Types' /\ Owned' /\ Sent'
    BY <2>1, <2>2, MoveStep DEF Written
  <2>4. Connected' /\ Aimed' /\ SNIProxy'
    BY <2>1 DEF IInv, Connected, Aimed, SNIProxy, Dialing, Sending
  <2>5. Stream' /\ Reasons'
    BY <2>1 DEF IInv, Stream, Reasons, front, ahead, sendable, Opening, Dialing, Parsing, Sending
  <2>6. Heard'
    BY <2>1 DEF IInv, Heard, Asked, Opening, Dialing, Tunneled, Parsing, Sending
  <2> QED
    BY <2>3, <2>4, <2>5, <2>6 DEF IInv
<1>4. CASE HandlerPanics("panic")
  BY <1>4, PanicStep DEF GenPolicy, Written
<1> QED
  BY <1>1, <1>2, <1>3, <1>4 DEF GenPolicy

\* The port.
LEMMA ReadPortStep ==
  ASSUME IInv, ReadPort
  PROVE  IInv'
<1>1. CASE QuitSilently
  BY <1>1, SilentStep DEF ReadPort
<1>2. CASE QuitTelling("failure")
  BY <1>2, TellingStep
  DEF ReadPort, QuitTelling, Replies, Opening, Dialing, IInv, Types, TypeOK, Written
<1>3. ASSUME Go("dial"), NEW b \in {<<>>, <<"ahead">>}, Read(b), b = <<>> \/ inbound = "connect",
             UNCHANGED <<ts, conns, dst, buffered, hello, lost>>
      PROVE  IInv'
  <2>1. /\ pc = "port" /\ pc' = "dial"
        /\ UNCHANGED <<inbound, p, of, target, cli, conns, dst, told, buffered, ch, direct, lost, refused>>
    BY <1>3 DEF ReadPort, Go, Read, ts, hello
  <2>0. taken' = b /\ taken' = front' /\ (ahead' => inbound = "connect")
    <3>1. taken = <<>>
      BY DEF ReadPort, IInv, Stream, Dialing
    <3>2. taken' = b
      BY <1>3, <3>1 DEF Read
    <3> QED
      BY <1>3, <3>2 DEF front, ahead
  <2>2. Scalars'
    <3>1. <<>> \in Seq({"ahead", "hello", "rest"}) /\ <<"ahead">> \in Seq({"ahead", "hello", "rest"})
      OBVIOUS
    <3>2. taken' \in Seq({"ahead", "hello", "rest"})
      BY <2>0, <3>1
    <3> QED
      BY <2>1, <3>2 DEF Scalars, IInv, Types, TypeOK, Opening, Dialing
  <2>3. Types' /\ Owned' /\ Sent'
    BY <2>1, <2>2, MoveStep DEF Written
  <2>4. Connected' /\ Aimed' /\ SNIProxy'
    BY <2>1 DEF IInv, Connected, Aimed, SNIProxy, Dialing, Sending
  <2>5. Stream' /\ Reasons'
    BY <2>0, <2>1 DEF IInv, Stream, Reasons, sendable, Opening, Dialing, Parsing, Sending
  <2>6. Heard'
    BY <2>1 DEF IInv, Heard, Asked, Opening, Dialing, Tunneled, Parsing, Sending
  <2> QED
    BY <2>3, <2>4, <2>5, <2>6 DEF IInv
<1> QED
  BY <1>1, <1>2, <1>3 DEF ReadPort

\* A proxied request is answered, and the handler returns; only an answered one leaves a
\* connection open.
LEMMA ForwardRequestStep ==
  ASSUME IInv, ForwardRequest
  PROVE  IInv'
<1>1. CASE QuitTelling("status") \/ QuitTelling("failure")
  BY <1>1, TellingStep
  DEF ForwardRequest, QuitTelling, Replies, Opening, Dialing, IInv, Types, TypeOK, Written
<1>2. ASSUME NEW idle \in BOOLEAN, RoundTrip(idle), NEW x \in {"failure", "response"}, Tell(x),
             idle => x = "response"
      PROVE  IInv'
  <2> DEFINE c == [to |-> "origin", open |-> idle, got |-> <<"hello">>]
  <2>1. pc = "request" /\ inbound = "plain"
    BY DEF ForwardRequest, IInv, Heard, Asked
  <2>2. /\ told = <<>> /\ ~refused /\ dst = 0 /\ conns = <<>>
        /\ of = "origin" /\ target = "origin"
    BY <2>1, HeardSoFar DEF IInv, Connected, Aimed, Opening, Dialing
  <2>3. /\ pc' = "end" /\ cli' = FALSE /\ dst' = 1 /\ conns' = Append(<<>>, c)
        /\ UNCHANGED <<inbound, p, of, target, buffered, taken, ch, direct, lost, refused>>
    <3>1. Len(conns) + 1 = 1
      BY <2>2
    <3> QED
      BY <1>2, <2>2, <3>1 DEF RoundTrip, ts, hello
  <2>4. told' = <<x>> /\ x \in Replies \ {"gateway", "implicit"} /\ told' \in Seq(Replies)
    <3>1. x \in Replies \ {"gateway", "implicit"}
      BY DEF Replies
    <3>2. told' = Append(<<>>, x)
      BY <1>2, <2>2 DEF Tell
    <3> QED
      BY <3>1, <3>2, Said
  <2>5. c \in Conn /\ c.to = "origin" /\ c.open = idle
    BY DEF Conn
  <2> HIDE DEF c
  <2>6. conns' \in Seq(Conn) /\ Len(conns') = 1 /\ conns'[1] = c
    BY <2>3, <2>5
  <2>7. Types'
    <3>1. \A i \in 1..Len(conns') : conns'[i] \in Conn
      BY <2>5, <2>6
    <3>2. dst' \in 0..Len(conns')
      BY <2>3, <2>6
    <3>0. cli' \in BOOLEAN /\ pc' = "end"
      BY <2>3
    <3>3. /\ inbound' \in {"socks5", "connect", "plain", "sni"} /\ p' \in Policies
          /\ of' \in {"none", "origin", "sni"} /\ target' \in {"none", "origin", "sni"}
          /\ buffered' \in Seq({"hello", "rest"}) /\ taken' \in Seq({"ahead", "hello", "rest"})
          /\ ch' \in ClientHellos /\ direct' \in BOOLEAN /\ refused' \in BOOLEAN
          /\ lost' \in {"no", "parse", "mode"}
      BY <2>3 DEF IInv, Types, TypeOK
    <3> QED
      BY <2>4, <2>6, <3>0, <3>1, <3>2, <3>3 DEF Types, TypeOK, Conn
  <2>8. Owned' /\ Sent'
    BY <1>2, <2>1, <2>2, <2>3, <2>4, <2>5, <2>6 DEF Owned, Sent, Written
  <2>9. Connected' /\ Aimed' /\ SNIProxy' /\ Stream'
    BY <2>1, <2>2, <2>3, <2>5, <2>6
    DEF Connected, Aimed, SNIProxy, Stream, Opening, Dialing, Parsing, Sending
  <2>10. Reasons'
    BY <2>3 DEF IInv, Reasons, ahead, sendable
  <2>11. Heard'
    BY <2>3, <2>4 DEF Heard, Asked, Verdict, Opening, Dialing, Tunneled, Parsing, Sending
  <2> QED
    BY <2>7, <2>8, <2>9, <2>10, <2>11 DEF IInv
<1> QED
  BY <1>1, <1>2 DEF ForwardRequest

\* The dial before the reply.
LEMMA DialOriginStep ==
  ASSUME IInv, DialOrigin
  PROVE  IInv'
<1>1. CASE QuitTelling("failure")
  BY <1>1, TellingStep
  DEF DialOrigin, QuitTelling, Replies, Opening, Dialing, IInv, Types, TypeOK, Written
<1>2. ASSUME p.replyFirst, Go("reply"), Keep,
             UNCHANGED <<conns, dst, ts, buffered, hello, lost>>
      PROVE  IInv'
  <2>1. /\ pc = "dial" /\ pc' = "reply" /\ p.replyFirst
        /\ UNCHANGED <<inbound, p, of, target, cli, conns, dst, told, buffered, taken, ch, direct, lost, refused>>
    BY <1>2 DEF DialOrigin, Go, Keep, ts, hello
  <2>2. Scalars'
    BY <2>1 DEF Scalars, IInv, Types, TypeOK, Opening
  <2>3. Types' /\ Owned' /\ Sent'
    BY <2>1, <2>2, MoveStep DEF Written
  <2>4. Connected' /\ Aimed' /\ SNIProxy'
    BY <2>1 DEF IInv, Connected, Aimed, SNIProxy, Dialing, Sending
  <2>5. Stream' /\ Reasons'
    BY <2>1 DEF IInv, Stream, Reasons, front, ahead, sendable, Opening, Dialing, Parsing, Sending
  <2>6. Heard'
    BY <2>1 DEF IInv, Heard, Asked, Opening, Dialing, Tunneled, Parsing, Sending
  <2> QED
    BY <2>3, <2>4, <2>5, <2>6 DEF IInv
<1>3. ASSUME ~p.replyFirst, Dialed("origin"), Go("reply"), Keep,
             UNCHANGED <<ts, buffered, hello, lost>>
      PROVE  IInv'
  <2>1. /\ pc = "dial" /\ pc' = "reply" /\ ~p.replyFirst /\ dst = 0 /\ Dialed("origin")
        /\ UNCHANGED <<inbound, p, of, target, cli, told, buffered, taken, ch, direct, lost, refused>>
    BY <1>3 DEF DialOrigin, IInv, Connected, Dialing, Go, Keep, ts, hello
  <2>2. Scalars'
    BY <2>1 DEF Scalars, IInv, Types, TypeOK, Opening
  <2>3. /\ Types' /\ Owned' /\ Sent'
        /\ dst' # 0 /\ conns'[dst'].to = "origin" /\ conns'[dst'].got = <<>>
    BY <2>1, <2>2, DialStep DEF Written
  <2>4. Connected' /\ Aimed' /\ SNIProxy'
    BY <2>1, <2>3 DEF IInv, Connected, Aimed, SNIProxy, Dialing, Sending
  <2>5. Stream' /\ Reasons'
    BY <2>1 DEF IInv, Stream, Reasons, front, ahead, sendable, Opening, Dialing, Parsing, Sending
  <2>6. Heard'
    BY <2>1 DEF IInv, Heard, Asked, Opening, Dialing, Tunneled, Parsing, Sending
  <2> QED
    BY <2>3, <2>4, <2>5, <2>6 DEF IInv
<1> QED
  BY <1>1, <1>2, <1>3 DEF DialOrigin

\* The reply that opens the tunnel.
LEMMA ReplyStep ==
  ASSUME IInv, Reply
  PROVE  IInv'
<1>1. CASE QuitSilently
  BY <1>1, SilentStep DEF Reply
<1>2. ASSUME Tell("success"), Go("tunnel"),
             UNCHANGED <<inbound, ts, cli, conns, dst, buffered, taken, hello, lost, refused>>
      PROVE  IInv'
  <2>1. told = <<>> /\ told' = Append(told, "success") /\ told' = <<"success">> /\ told' \in Seq(Replies)
    <3>1. pc \in Opening /\ "success" \in Replies
      BY DEF Reply, Opening, Replies
    <3>2. told = <<>> /\ told' = Append(told, "success")
      BY <1>2, <3>1 DEF IInv, Heard, Tell
    <3> QED
      BY <3>1, <3>2
  <2>2. /\ pc = "reply" /\ pc' = "tunnel" /\ told' = <<"success">>
        /\ UNCHANGED <<inbound, p, of, target, cli, conns, dst, buffered, taken, ch, direct, lost, refused>>
    BY <1>2, <2>1 DEF Reply, Go, ts, hello
  <2>3. Scalars'
    BY <2>1, <2>2 DEF Scalars, IInv, Types, TypeOK, Tunneled
  <2>4. Types' /\ Owned' /\ Sent'
    BY <2>2, <2>3, MoveStep DEF Written
  <2>5. Connected' /\ Aimed' /\ SNIProxy'
    BY <2>2 DEF IInv, Connected, Aimed, SNIProxy, Dialing, Sending
  <2>6. Stream' /\ Reasons'
    BY <2>2 DEF IInv, Stream, Reasons, front, ahead, sendable, Opening, Dialing, Parsing, Sending
  <2>7. Heard'
    BY <2>2 DEF Heard, Asked, Replies, Opening, Dialing
  <2> QED
    BY <2>4, <2>5, <2>6, <2>7 DEF IInv
<1> QED
  BY <1>1, <1>2 DEF Reply

----
(* handleTunnel. *)

\* ModeRaw.
LEMMA RawStep ==
  ASSUME IInv, Raw
  PROVE  IInv'
<1>1. CASE QuitSilently
  BY <1>1, SilentStep DEF Raw
<1>2. ASSUME dst # 0, UNCHANGED <<conns, dst>>, Go("forward"), Keep,
             UNCHANGED <<ts, buffered, hello, lost>>
      PROVE  IInv'
  <2>1. /\ pc = "tunnel" /\ p.mode = "raw" /\ pc' = "forward" /\ dst # 0
        /\ UNCHANGED <<inbound, p, of, target, cli, conns, dst, told, buffered, taken, ch, direct, lost, refused>>
    BY <1>2 DEF Raw, Go, Keep, ts, hello
  <2>2. Scalars'
    BY <2>1 DEF Scalars, IInv, Types, TypeOK, Tunneled
  <2>3. Types' /\ Owned' /\ Sent'
    BY <2>1, <2>2, MoveStep DEF Written
  <2>4. Connected' /\ Aimed' /\ SNIProxy'
    BY <2>1 DEF IInv, Connected, Aimed, SNIProxy, Dialing
  <2>5. got' = <<>>
    BY <2>1 DEF IInv, Types, TypeOK, Sent, Written, got
  <2>6. Stream' /\ Reasons'
    BY <2>1, <2>5, FrontAlone
    DEF IInv, Stream, Reasons, front, ahead, sendable, Opening, Dialing, Parsing, Sending
  <2>7. Heard'
    BY <2>1 DEF IInv, Heard, Asked, Opening, Dialing, Tunneled
  <2> QED
    BY <2>3, <2>4, <2>6, <2>7 DEF IInv
<1>3. ASSUME dst = 0, Dialed(target), Go("forward"), Keep,
             UNCHANGED <<ts, buffered, hello, lost>>
      PROVE  IInv'
  <2>1. pc = "tunnel" /\ inbound # "sni" /\ target = "origin" /\ of = "origin"
    BY DEF Raw, IInv, SNIProxy, Aimed, Sending
  <2>2. /\ pc = "tunnel" /\ p.mode = "raw" /\ pc' = "forward" /\ dst = 0 /\ Dialed("origin")
        /\ UNCHANGED <<inbound, p, of, target, cli, told, buffered, taken, ch, direct, lost, refused>>
    BY <1>3, <2>1 DEF Raw, Go, Keep, ts, hello
  <2>3. Scalars'
    BY <2>2 DEF Scalars, IInv, Types, TypeOK, Tunneled
  <2>4. /\ Types' /\ Owned' /\ Sent'
        /\ dst' # 0 /\ conns'[dst'].to = "origin" /\ conns'[dst'].got = <<>>
    BY <2>2, <2>3, DialStep DEF Written
  <2>5. Connected' /\ Aimed' /\ SNIProxy'
    BY <2>1, <2>2, <2>4 DEF Connected, Aimed, SNIProxy, Dialing
  <2>6. Stream' /\ Reasons'
    BY <2>2, <2>4, FrontAlone
    DEF IInv, Stream, Reasons, front, ahead, sendable, got, Opening, Dialing, Parsing, Sending
  <2>7. Heard'
    BY <2>2 DEF IInv, Heard, Asked, Opening, Dialing, Tunneled
  <2> QED
    BY <2>4, <2>5, <2>6, <2>7 DEF IInv
<1> QED
  BY <1>1, <1>2, <1>3 DEF Raw

\* The first bytes.
LEMMA PeekStep ==
  ASSUME IInv, Peek
  PROVE  IInv'
<1>1. CASE QuitSilently
  BY <1>1, SilentStep DEF Peek
<1>2. ASSUME pc' \in {"tls", "http", "drain"}, NEW b \in Whole, buffered' = b, Read(b),
             UNCHANGED <<ts, conns, dst, hello, lost>>
      PROVE  IInv'
  <2>1. /\ pc = "tunnel" /\ pc' \in {"tls", "http", "drain"} /\ buffered' \in Whole
        /\ UNCHANGED <<inbound, p, of, target, cli, conns, dst, told, ch, direct, lost, refused>>
    BY <1>2 DEF Peek, Read, ts, hello
  <2>0. /\ taken' \in Seq({"ahead", "hello", "rest"}) /\ taken' = front' \o buffered'
        /\ ahead' <=> ahead
    BY <1>2, Reading DEF Read, Peek, IInv, Stream
  <2>2. Scalars'
    BY <2>0, <2>1, Buffers DEF Scalars, IInv, Types, TypeOK, Tunneled, Parsing
  <2>3. Types' /\ Owned' /\ Sent'
    BY <2>1, <2>2, MoveStep DEF Written
  <2>4. Connected' /\ Aimed' /\ SNIProxy'
    BY <2>1 DEF IInv, Connected, Aimed, SNIProxy, Dialing, Sending
  <2>5. got' = <<>>
    BY <2>1 DEF IInv, Types, TypeOK, Sent, Written, got
  <2>6. Stream' /\ Reasons'
    BY <2>0, <2>1, <2>5 DEF IInv, Stream, Reasons, sendable, Opening, Dialing, Sending
  <2>7. Heard'
    BY <2>1 DEF IInv, Heard, Asked, Opening, Dialing, Tunneled, Parsing
  <2> QED
    BY <2>3, <2>4, <2>6, <2>7 DEF IInv
<1> QED
  BY <1>1, <1>2 DEF Peek, Whole

\* A request that is not one.
LEMMA HTTPUnparsedStep ==
  ASSUME IInv, HTTPUnparsed
  PROVE  IInv'
<1>1. /\ buffered \in Whole /\ Tail(buffered) \in Remains /\ lost = "no"
      /\ taken = front \o (<<"hello">> \o Tail(buffered))
  BY Taken DEF HTTPUnparsed, IInv, Stream, Parsing
<1>2. got = <<>>
  BY DEF HTTPUnparsed, IInv, Types, TypeOK, Sent, Written, got
<1>3. /\ pc = "http" /\ pc' = "drain" /\ buffered' \in Remains /\ lost' = "parse" /\ got' = <<>>
      /\ taken' = front' \o (<<"hello">> \o buffered')
      /\ UNCHANGED <<inbound, p, of, target, cli, conns, dst, told, taken, ch, direct, refused>>
  BY <1>1, <1>2 DEF HTTPUnparsed, got, front, ahead, Go, Keep, ts, hello
<1>4. Scalars'
  BY <1>3, Buffers DEF Scalars, IInv, Types, TypeOK, Tunneled
<1>5. Types' /\ Owned' /\ Sent'
  BY <1>3, <1>4, MoveStep DEF Written
<1>6. Connected' /\ Aimed' /\ SNIProxy'
  BY <1>3 DEF IInv, Connected, Aimed, SNIProxy, Dialing, Parsing, Sending
<1>7. Stream' /\ Reasons'
  BY <1>3 DEF IInv, Stream, Reasons, front, ahead, sendable, Opening, Dialing, Parsing, Sending
<1>8. Heard'
  BY <1>3 DEF IInv, Heard, Asked, Opening, Dialing, Tunneled, Parsing
<1> QED
  BY <1>5, <1>6, <1>7, <1>8 DEF IInv

\* A request.
LEMMA HTTPParsedStep ==
  ASSUME IInv, HTTPParsed
  PROVE  IInv'
<1>1. /\ pc = "http" /\ pc' = "respond"
      /\ UNCHANGED <<inbound, p, of, target, cli, conns, dst, told, buffered, taken, ch, direct, lost, refused>>
  BY DEF HTTPParsed, Go, Keep, ts, hello
<1>2. Scalars'
  BY <1>1 DEF Scalars, IInv, Types, TypeOK, Tunneled, Parsing
<1>3. Types' /\ Owned' /\ Sent'
  BY <1>1, <1>2, MoveStep DEF Written
<1>4. Connected' /\ Aimed' /\ SNIProxy'
  BY <1>1 DEF IInv, Connected, Aimed, SNIProxy, Dialing, Parsing, Sending
<1>5. Stream' /\ Reasons'
  BY <1>1 DEF IInv, Stream, Reasons, front, ahead, sendable, Opening, Dialing, Parsing, Sending
<1>6. Heard'
  BY <1>1 DEF IInv, Heard, Asked, Opening, Dialing, Tunneled, Parsing
<1> QED
  BY <1>3, <1>4, <1>5, <1>6 DEF IInv

\* The request is answered or sent on.
LEMMA HandleHTTPStep ==
  ASSUME IInv, HandleHTTP
  PROVE  IInv'
<1>1. CASE QuitTelling("status") \/ (dst = 0 /\ QuitTelling("gateway"))
  BY <1>1, TellingStep
  DEF HandleHTTP, QuitTelling, Later, Replies, IInv, Types, TypeOK, Written
<1>2. CASE QuitSilently
  BY <1>2, SilentStep DEF HandleHTTP
<1>3. ASSUME dst = 0, Dialed(target), Go("respond"), Keep,
             UNCHANGED <<ts, buffered, hello, lost>>
      PROVE  IInv'
  <2>1. pc = "respond" /\ inbound # "sni" /\ target = "origin" /\ of = "origin"
    BY DEF HandleHTTP, IInv, SNIProxy, Aimed, Sending, Parsing
  <2>2. /\ pc = "respond" /\ pc' = "respond" /\ dst = 0 /\ Dialed("origin")
        /\ UNCHANGED <<inbound, p, of, target, cli, told, buffered, taken, ch, direct, lost, refused>>
    BY <1>3, <2>1 DEF Go, Keep, ts, hello
  <2>3. Scalars'
    BY <2>2 DEF Scalars, IInv, Types, TypeOK, Tunneled, Parsing
  <2>4. /\ Types' /\ Owned' /\ Sent'
        /\ dst' # 0 /\ conns'[dst'].to = "origin" /\ conns'[dst'].got = <<>>
    BY <2>2, <2>3, DialStep DEF Written
  <2>5. Connected' /\ Aimed' /\ SNIProxy'
    BY <2>1, <2>2, <2>4 DEF Connected, Aimed, SNIProxy, Dialing
  <2>6. Stream' /\ Reasons'
    BY <2>2 DEF IInv, Stream, Reasons, front, ahead, sendable
  <2>7. Heard'
    BY <2>2 DEF IInv, Heard, Asked
  <2> QED
    BY <2>4, <2>5, <2>6, <2>7 DEF IInv
<1>4. ASSUME dst # 0, Write("hello"), buffered' = Tail(buffered), Go("drain"), Keep,
             UNCHANGED <<ts, dst, hello, lost>>
      PROVE  IInv'
  <2>1. /\ buffered' \in Remains /\ lost = "no"
        /\ taken = front \o (<<"hello">> \o buffered')
    BY <1>4, Taken DEF HandleHTTP, IInv, Stream, Parsing
  <2>2. conns' = [conns EXCEPT ![dst].got = <<"hello">>]
    BY <1>4, WriteHello DEF HandleHTTP, Written
  <2>3. /\ pc = "respond" /\ pc' = "drain" /\ dst # 0 /\ buffered' \in Remains
        /\ UNCHANGED <<inbound, p, of, target, cli, dst, told, taken, ch, direct, lost, refused>>
    BY <1>4, <2>1 DEF HandleHTTP, Go, Keep, ts, hello
  <2>4. Scalars'
    BY <2>3, Buffers DEF Scalars, IInv, Types, TypeOK, Tunneled
  <2>5. /\ Types' /\ Owned' /\ Sent'
        /\ conns'[dst].to = conns[dst].to /\ conns'[dst].got = <<"hello">>
    BY <2>2, <2>3, <2>4, WriteStep, Buffers DEF Whole
  <2>6. Connected' /\ Aimed' /\ SNIProxy'
    BY <2>3, <2>5 DEF IInv, Connected, Aimed, SNIProxy, Dialing, Parsing
  <2>7. Stream' /\ Reasons'
    BY <2>1, <2>3, <2>5
    DEF IInv, Stream, Reasons, front, ahead, sendable, got, Opening, Dialing, Parsing, Sending
  <2>8. Heard'
    BY <2>3 DEF IInv, Heard, Asked, Opening, Dialing, Tunneled, Parsing
  <2> QED
    BY <2>5, <2>6, <2>7, <2>8 DEF IInv
<1> QED
  BY <1>1, <1>2, <1>3, <1>4 DEF HandleHTTP

\* What is left in br goes out.
LEMMA DrainStep ==
  ASSUME IInv, Drain
  PROVE  IInv'
<1>1. CASE QuitSilently
  BY <1>1, SilentStep DEF Drain
<1>2. ASSUME buffered = <<>>, conns' = conns, buffered' = <<>>, Go("forward"), Keep,
             UNCHANGED <<ts, dst, hello, lost>>
      PROVE  IInv'
  <2>1. /\ pc = "drain" /\ pc' = "forward" /\ buffered = <<>> /\ dst # 0
        /\ UNCHANGED <<inbound, p, of, target, cli, conns, dst, told, buffered, taken, ch, direct, lost, refused>>
    BY <1>2 DEF Drain, Go, Keep, ts, hello
  <2>2. Scalars'
    BY <2>1 DEF Scalars, IInv, Types, TypeOK, Tunneled
  <2>3. Types' /\ Owned' /\ Sent'
    BY <2>1, <2>2, MoveStep DEF Written
  <2>4. Connected' /\ Aimed' /\ SNIProxy'
    BY <2>1 DEF IInv, Connected, Aimed, SNIProxy, Dialing, Parsing
  <2>5. buffered \notin Whole
    BY <2>1, Taken
  <2>6. Stream' /\ Reasons'
    <3>1. /\ taken = front \o (<<"hello">> \o <<>>)
          /\ (got = <<>> /\ lost \in {"parse", "mode"}) \/ (got = <<"hello">> /\ lost = "no")
      BY <2>1, <2>5 DEF IInv, Stream
    <3>2. \/ got \in Remains /\ lost # "no" /\ taken = front \o (<<"hello">> \o got)
          \/ got \in Whole /\ lost = "no" /\ taken = front \o got
      BY <3>1, Joined DEF Whole, Remains
    <3>3. got' = got /\ front' = front
      BY <2>1 DEF got, front, ahead
    <3> QED
      BY <2>1, <3>2, <3>3
      DEF IInv, Stream, Reasons, ahead, sendable, Opening, Dialing, Parsing, Sending
  <2>7. Heard'
    BY <2>1 DEF IInv, Heard, Asked, Opening, Dialing, Tunneled
  <2> QED
    BY <2>3, <2>4, <2>6, <2>7 DEF IInv
<1>3. ASSUME buffered # <<>>, dst # 0, conns' = [conns EXCEPT ![dst].got = @ \o buffered],
             buffered' = <<>>, Go("forward"), Keep, UNCHANGED <<ts, dst, hello, lost>>
      PROVE  IInv'
  <2> DEFINE g == conns[dst].got \o buffered
  <2>1. \/ g \in Whole /\ lost = "no" /\ taken = front \o g
        \/ g \in Remains /\ lost # "no" /\ taken = front \o (<<"hello">> \o g)
    <3>1. \/ /\ buffered \in Whole /\ conns[dst].got = <<>> /\ lost = "no"
             /\ taken = front \o buffered
          \/ /\ buffered = <<"rest">> /\ conns[dst].got = <<>> /\ lost # "no"
             /\ taken = front \o (<<"hello">> \o buffered)
          \/ /\ buffered = <<"rest">> /\ conns[dst].got = <<"hello">> /\ lost = "no"
             /\ taken = front \o (<<"hello">> \o buffered)
      BY <1>3 DEF Drain, IInv, Stream, got, Remains
    <3>2. buffered \in Whole \cup Remains
      BY <3>1 DEF Remains
    <3>3. <<"hello">> \o <<"rest">> \in Whole
      BY Joined DEF Whole
    <3> QED
      BY <3>1, <3>2, <3>3, Joined DEF Remains
  <2>2. g \in Seq({"hello", "rest"})
    BY <2>1, Buffers DEF Remains
  <2>3. conns' = [conns EXCEPT ![dst].got = g]
    BY <1>3
  <2>4. <<>> \in Seq({"hello", "rest"})
    OBVIOUS
  <2> HIDE DEF g
  <2>5. /\ pc = "drain" /\ pc' = "forward" /\ dst # 0 /\ buffered' = <<>>
        /\ UNCHANGED <<inbound, p, of, target, cli, dst, told, taken, ch, direct, lost, refused>>
    BY <1>3 DEF Drain, Go, Keep, ts, hello
  <2>6. Scalars'
    BY <2>5 DEF Scalars, IInv, Types, TypeOK, Tunneled
  <2>7. /\ Types' /\ Owned' /\ Sent'
        /\ conns'[dst].to = conns[dst].to /\ conns'[dst].got = g
    BY <2>2, <2>3, <2>5, <2>6, WriteStep
  <2>8. Connected' /\ Aimed' /\ SNIProxy'
    BY <2>5, <2>7 DEF IInv, Connected, Aimed, SNIProxy, Dialing, Parsing
  <2>9. Stream' /\ Reasons'
    <3>1. got' = g /\ front' = front
      BY <2>5, <2>7 DEF got, front, ahead
    <3> QED
      BY <2>1, <2>5, <3>1
      DEF IInv, Stream, Reasons, ahead, sendable, Opening, Dialing, Parsing, Sending
  <2>10. Heard'
    BY <2>5 DEF IInv, Heard, Asked, Opening, Dialing, Tunneled
  <2> QED
    BY <2>7, <2>8, <2>9, <2>10 DEF IInv
<1> QED
  BY <1>1, <1>2, <1>3 DEF Drain

\* There is no destination.
LEMMA DrainNilStep ==
  ASSUME IInv, DrainNil
  PROVE  IInv'
<1>1. pc = "drain" /\ dst = 0 /\ (HandlerPanics("nilconn") \/ Crash("nilconn"))
  BY DEF DrainNil
<1> QED
  BY <1>1, PanicStep, CrashStep

----
(* handleTLS. *)

\* The record is parsed.
LEMMA HandleTLSStep ==
  ASSUME IInv, HandleTLS
  PROVE  IInv'
<1>1. CASE QuitSilently
  BY <1>1, SilentStep DEF HandleTLS
<1>2. CASE QuitAlert
  BY <1>2, TellingStep DEF HandleTLS, QuitAlert, Later, Replies, Written
<1>3. ASSUME NEW c \in ClientHellos, ch' = c, buffered' = Tail(buffered), Go("sniff"), Keep,
             UNCHANGED <<ts, conns, dst, direct, lost>>
      PROVE  IInv'
  <2>1. /\ buffered' \in Remains /\ lost = "no"
        /\ taken = front \o (<<"hello">> \o buffered')
    BY <1>3, Taken DEF HandleTLS, IInv, Stream, Parsing
  <2>2. /\ pc = "tls" /\ pc' = "sniff" /\ ch' \in ClientHellos /\ buffered' \in Remains
        /\ UNCHANGED <<inbound, p, of, target, cli, conns, dst, told, taken, direct, lost, refused>>
    BY <1>3, <2>1 DEF HandleTLS, Go, Keep, ts
  <2>3. Scalars'
    BY <2>2, Buffers DEF Scalars, IInv, Types, TypeOK, Tunneled, Sending
  <2>4. Types' /\ Owned' /\ Sent'
    BY <2>2, <2>3, MoveStep DEF Written
  <2>5. Connected' /\ Aimed' /\ SNIProxy'
    BY <2>2 DEF IInv, Connected, Aimed, SNIProxy, Dialing, Parsing, Sending
  <2>6. Stream' /\ Reasons'
    BY <2>1, <2>2 DEF IInv, Stream, Reasons, front, ahead, sendable, Opening, Dialing, Parsing
  <2>7. Heard'
    BY <2>2 DEF IInv, Heard, Asked, Opening, Dialing, Tunneled, Parsing
  <2> QED
    BY <2>4, <2>5, <2>6, <2>7 DEF IInv
<1> QED
  BY <1>1, <1>2, <1>3 DEF HandleTLS

\* No SNI, or ECH.
LEMMA NoUsableSNIStep ==
  ASSUME IInv, NoUsableSNI
  PROVE  IInv'
<1>1. CASE QuitSilently
  BY <1>1, SilentStep DEF NoUsableSNI
<1>2. ASSUME inbound # "sni", direct' = (ch.sni = "none" \/ p.echPass), Go("connect"), Keep,
             UNCHANGED <<ts, conns, dst, buffered, ch, lost>>
      PROVE  IInv'
  <2>1. p.echPass \in BOOLEAN
    BY DEF IInv, Types, TypeOK, Policies
  <2>2. direct' \in BOOLEAN
    BY <1>2
  <2>3. /\ pc = "sniff" /\ pc' = "connect" /\ inbound # "sni"
        /\ UNCHANGED <<inbound, p, of, target, cli, conns, dst, told, buffered, taken, ch, lost, refused>>
    BY <1>2 DEF NoUsableSNI, Go, Keep, ts
  <2>4. Scalars'
    BY <2>2, <2>3 DEF Scalars, IInv, Types, TypeOK, Tunneled, Sending
  <2>5. Types' /\ Owned' /\ Sent'
    BY <2>3, <2>4, MoveStep DEF Written
  <2>6. Connected' /\ Aimed' /\ SNIProxy'
    BY <2>3 DEF IInv, Connected, Aimed, SNIProxy, Dialing
  <2>7. Stream' /\ Reasons'
    BY <2>3 DEF IInv, Stream, Reasons, front, ahead, sendable, Opening, Dialing, Parsing, Sending
  <2>8. Heard'
    BY <2>3 DEF IInv, Heard, Asked, Opening, Dialing, Tunneled, Sending
  <2> QED
    BY <2>5, <2>6, <2>7, <2>8 DEF IInv
<1> QED
  BY <1>1, <1>2 DEF NoUsableSNI

\* The SNI changes nothing.
LEMMA SNIKeptStep ==
  ASSUME IInv, SNIKept
  PROVE  IInv'
<1>1. /\ pc = "sniff" /\ pc' = "connect" /\ inbound # "sni"
      /\ UNCHANGED <<inbound, p, of, target, cli, conns, dst, told, buffered, taken, ch, direct, lost, refused>>
  BY DEF SNIKept, Go, Keep, ts, hello
<1>2. Scalars'
  BY <1>1 DEF Scalars, IInv, Types, TypeOK, Tunneled, Sending
<1>3. Types' /\ Owned' /\ Sent'
  BY <1>1, <1>2, MoveStep DEF Written
<1>4. Connected' /\ Aimed' /\ SNIProxy'
  BY <1>1 DEF IInv, Connected, Aimed, SNIProxy, Dialing
<1>5. Stream' /\ Reasons'
  BY <1>1 DEF IInv, Stream, Reasons, front, ahead, sendable, Opening, Dialing, Parsing, Sending
<1>6. Heard'
  BY <1>1 DEF IInv, Heard, Asked, Opening, Dialing, Tunneled, Sending
<1> QED
  BY <1>3, <1>4, <1>5, <1>6 DEF IInv

\* The SNI gives the mode.
LEMMA RouteOnlyStep ==
  ASSUME IInv, RouteOnly
  PROVE  IInv'
<1>1. pc = "sniff" /\ inbound # "sni"
  BY DEF RouteOnly, sniffed, IInv, SNIProxy, SNIProxyPolicy
<1>2. CASE QuitRefused
  BY <1>1, <1>2, RefusedStep DEF Written
<1>3. CASE QuitAlert
  BY <1>1, <1>3, TellingStep DEF QuitAlert, Later, Replies, Written
<1>4. ASSUME NEW m \in Modes, p' = [p EXCEPT !.mode = m], Go("connect"), Keep,
             UNCHANGED <<of, target, conns, dst, buffered, hello, lost>>
      PROVE  IInv'
  <2>1. p' \in Policies
    BY <1>4 DEF IInv, Types, TypeOK, Policies
  <2>2. /\ pc = "sniff" /\ pc' = "connect" /\ inbound # "sni"
        /\ UNCHANGED <<inbound, of, target, cli, conns, dst, told, buffered, taken, ch, direct, lost, refused>>
    BY <1>1, <1>4 DEF Go, Keep, hello
  <2>3. Scalars'
    BY <2>1, <2>2 DEF Scalars, IInv, Types, TypeOK, Tunneled, Sending
  <2>4. Types' /\ Owned' /\ Sent'
    BY <2>2, <2>3, MoveStep DEF Written
  <2>5. Connected' /\ Aimed' /\ SNIProxy'
    BY <2>2 DEF IInv, Connected, Aimed, SNIProxy, Dialing
  <2>6. Stream' /\ Reasons'
    BY <2>2 DEF IInv, Stream, Reasons, front, ahead, sendable, Opening, Dialing, Parsing, Sending
  <2>7. Heard'
    BY <2>2 DEF IInv, Heard, Asked, Opening, Dialing, Tunneled, Sending
  <2> QED
    BY <2>4, <2>5, <2>6, <2>7 DEF IInv
<1>5. \A q \in SNIPolicies : q.mode \in Modes /\ p.mode \in Modes /\ "tls-rf" \in Modes
  BY TunnelAssumption DEF IInv, Types, TypeOK, Policies, Modes
<1> QED
  BY <1>2, <1>3, <1>4, <1>5 DEF RouteOnly

\* The SNI takes the place of the host.
LEMMA OverrideStep ==
  ASSUME IInv, Override
  PROVE  IInv'
<1>1. pc = "sniff"
  BY DEF Override, sniffed
<1>2. CASE QuitSilently
  BY <1>1, <1>2, SilentStep
<1>3. CASE QuitRefused
  BY <1>1, <1>3, RefusedStep DEF Written
<1>4. CASE QuitAlert
  BY <1>1, <1>4, TellingStep DEF QuitAlert, Later, Replies, Written
<1>5. ASSUME NEW q \in SNIPolicies, Swap(q), Go("connect"), Keep, UNCHANGED <<buffered, hello, lost>>
      PROVE  IInv'
  <2>1. /\ pc = "sniff" /\ pc' = "connect" /\ p' \in Policies /\ of' = "sni" /\ target' = "sni"
        /\ UNCHANGED <<inbound, cli, told, buffered, taken, ch, direct, lost, refused>>
    BY <1>1, <1>5, TunnelAssumption DEF Swap, Go, Keep, hello
  <2>2. Scalars'
    BY <2>1 DEF Scalars, IInv, Types, TypeOK, Tunneled, Sending
  <2>3. /\ Types' /\ Owned' /\ Sent'
        /\ dst' # 0 /\ conns'[dst'].to = "sni" /\ conns'[dst'].got = <<>>
    BY <1>5, <2>1, <2>2, SwapStep DEF Written
  <2>4. Connected' /\ Aimed' /\ SNIProxy'
    BY <2>1, <2>3 DEF Connected, Aimed, SNIProxy, Dialing, Parsing, Sending
  <2>5. Stream' /\ Reasons'
    BY <2>1 DEF IInv, Stream, Reasons, front, ahead, sendable, Opening, Dialing, Parsing, Sending
  <2>6. Heard'
    BY <2>1 DEF IInv, Heard, Asked, Opening, Dialing, Tunneled, Sending
  <2> QED
    BY <2>3, <2>4, <2>5, <2>6 DEF IInv
<1>6. CASE HandlerPanics("panic")
  BY <1>1, <1>6, PanicStep DEF Written
<1> QED
  BY <1>2, <1>3, <1>4, <1>5, <1>6 DEF Override

\* The dial before the record is sent.
LEMMA ConnectStep ==
  ASSUME IInv, Connect
  PROVE  IInv'
<1>1. CASE QuitSilently
  BY <1>1, SilentStep DEF Connect
<1>2. ASSUME dst # 0, UNCHANGED <<conns, dst>>, Go("send"), Keep,
             UNCHANGED <<ts, buffered, hello, lost>>
      PROVE  IInv'
  <2>1. /\ pc = "connect" /\ pc' = "send" /\ dst # 0
        /\ UNCHANGED <<inbound, p, of, target, cli, conns, dst, told, buffered, taken, ch, direct, lost, refused>>
    BY <1>2 DEF Connect, Go, Keep, ts, hello
  <2>2. Scalars'
    BY <2>1 DEF Scalars, IInv, Types, TypeOK, Tunneled, Sending
  <2>3. Types' /\ Owned' /\ Sent'
    BY <2>1, <2>2, MoveStep DEF Written
  <2>4. Connected' /\ Aimed' /\ SNIProxy'
    BY <2>1 DEF IInv, Connected, Aimed, SNIProxy, Dialing, Parsing, Sending
  <2>5. Stream' /\ Reasons'
    BY <2>1 DEF IInv, Stream, Reasons, front, ahead, sendable, Opening, Dialing, Parsing, Sending
  <2>6. Heard'
    BY <2>1 DEF IInv, Heard, Asked, Opening, Dialing, Tunneled, Sending
  <2> QED
    BY <2>3, <2>4, <2>5, <2>6 DEF IInv
<1>3. ASSUME dst = 0, Dialed(target), Go("send"), Keep,
             UNCHANGED <<ts, buffered, hello, lost>>
      PROVE  IInv'
  <2>1. pc = "connect" /\ inbound # "sni" /\ of = target /\ target \in {"origin", "sni"}
    BY <1>3 DEF Connect, IInv, Types, TypeOK, SNIProxy, Aimed
  <2>2. /\ pc = "connect" /\ pc' = "send" /\ dst = 0 /\ Dialed(target)
        /\ UNCHANGED <<inbound, p, of, target, cli, told, buffered, taken, ch, direct, lost, refused>>
    BY <1>3, <2>1 DEF Go, Keep, ts, hello
  <2>3. Scalars'
    BY <2>2 DEF Scalars, IInv, Types, TypeOK, Tunneled, Sending
  <2>4. /\ Types' /\ Owned' /\ Sent'
        /\ dst' # 0 /\ conns'[dst'].to = target /\ conns'[dst'].got = <<>>
    BY <2>2, <2>3, DialStep, <2>1 DEF Written
  <2>5. Connected' /\ Aimed' /\ SNIProxy'
    BY <2>1, <2>2, <2>4 DEF Connected, Aimed, SNIProxy, Dialing, Parsing
  <2>6. Stream' /\ Reasons'
    BY <2>2 DEF IInv, Stream, Reasons, front, ahead, sendable, Opening, Dialing, Parsing, Sending
  <2>7. Heard'
    BY <2>2 DEF IInv, Heard, Asked, Opening, Dialing, Tunneled, Sending
  <2> QED
    BY <2>4, <2>5, <2>6, <2>7 DEF IInv
<1> QED
  BY <1>1, <1>2, <1>3 DEF Connect

\* The record is sent.
LEMMA SendStep ==
  ASSUME IInv, Send
  PROVE  IInv'
<1>1. CASE QuitSilently
  BY <1>1, SilentStep DEF Send
<1>2. ASSUME ~sendable, UNCHANGED conns, lost' = "mode", Go("drain"), Keep,
             UNCHANGED <<ts, dst, buffered, hello>>
      PROVE  IInv'
  <2>1. dst # 0 /\ got = <<>>
    BY DEF Send, IInv, Types, TypeOK, Sent, Written, Connected, got
  <2>2. /\ pc = "send" /\ pc' = "drain" /\ dst # 0 /\ lost' = "mode" /\ got' = <<>> /\ ~sendable
        /\ UNCHANGED <<inbound, p, of, target, cli, conns, dst, told, buffered, taken, ch, direct, refused>>
    BY <1>2, <2>1 DEF Send, got, Go, Keep, ts, hello
  <2>3. Scalars'
    BY <2>2 DEF Scalars, IInv, Types, TypeOK, Tunneled
  <2>4. Types' /\ Owned' /\ Sent'
    BY <2>2, <2>3, MoveStep DEF Written
  <2>5. Connected' /\ Aimed' /\ SNIProxy'
    BY <2>2 DEF IInv, Connected, Aimed, SNIProxy, Dialing, Parsing
  <2>6. Stream' /\ Reasons'
    BY <2>2 DEF IInv, Stream, Reasons, front, ahead, sendable, Opening, Dialing, Parsing, Sending
  <2>7. Heard'
    BY <2>2 DEF IInv, Heard, Asked, Opening, Dialing, Tunneled, Sending
  <2> QED
    BY <2>4, <2>5, <2>6, <2>7 DEF IInv
<1>3. ASSUME Write("hello"), UNCHANGED lost, Go("drain"), Keep,
             UNCHANGED <<ts, dst, buffered, hello>>
      PROVE  IInv'
  <2>1. dst # 0
    BY DEF Send, IInv, Connected
  <2>2. conns' = [conns EXCEPT ![dst].got = <<"hello">>]
    BY <1>3, <2>1, WriteHello DEF Send, Written
  <2>3. /\ pc = "send" /\ pc' = "drain" /\ dst # 0
        /\ UNCHANGED <<inbound, p, of, target, cli, dst, told, buffered, taken, ch, direct, lost, refused>>
    BY <1>3, <2>1 DEF Send, Go, Keep, ts, hello
  <2>4. Scalars'
    BY <2>3 DEF Scalars, IInv, Types, TypeOK, Tunneled
  <2>5. /\ Types' /\ Owned' /\ Sent'
        /\ conns'[dst].to = conns[dst].to /\ conns'[dst].got = <<"hello">>
    BY <2>2, <2>3, <2>4, WriteStep, Buffers DEF Whole
  <2>6. Connected' /\ Aimed' /\ SNIProxy'
    BY <2>3, <2>5 DEF IInv, Connected, Aimed, SNIProxy, Dialing, Parsing
  <2>7. Stream' /\ Reasons'
    BY <2>3, <2>5 DEF IInv, Stream, Reasons, front, ahead, sendable, got, Opening, Dialing, Parsing, Sending
  <2>8. Heard'
    BY <2>3 DEF IInv, Heard, Asked, Opening, Dialing, Tunneled, Sending
  <2> QED
    BY <2>5, <2>6, <2>7, <2>8 DEF IInv
<1> QED
  BY <1>1, <1>2, <1>3 DEF Send

----
(* The theorems. *)

\* The invariant holds of every session, whatever its policies are.
THEOREM Inductive == Spec => []IInv
<1>1. Init => IInv
  <2> SUFFICES ASSUME Init PROVE IInv
    OBVIOUS
  <2>1. /\ conns = <<>> /\ Len(conns) = 0 /\ dst = 0 /\ cli /\ ~refused
        /\ pc \in {"greet", "policy"} /\ (inbound = "sni" => pc = "greet")
    BY DEF Init
  <2>2. /\ conns \in Seq(Conn) /\ told \in Seq(Replies) /\ buffered \in Seq({"hello", "rest"})
        /\ taken \in Seq({"ahead", "hello", "rest"}) /\ taken = <<>> /\ ~ahead
    BY DEF Init, ahead
  <2>3. p \in Policies /\ ch \in ClientHellos
    BY DEF Init, SNIProxyPolicy, noHello, Policies, Modes, ClientHellos
  <2>4. Types
    <3>1. \A i \in 1..Len(conns) : conns[i] \in Conn
      BY <2>1
    <3>2. /\ inbound \in {"socks5", "connect", "plain", "sni"} /\ of = "none" /\ target = "none"
          /\ cli \in BOOLEAN /\ direct \in BOOLEAN /\ refused \in BOOLEAN /\ lost = "no"
      BY DEF Init
    <3> QED
      BY <2>1, <2>2, <2>3, <3>2 DEF Types, TypeOK
  <2>5. Owned /\ Sent /\ Connected /\ Aimed /\ SNIProxy /\ Stream /\ Reasons /\ Heard
    BY <2>2 DEF Init, Owned, Sent, Connected, Aimed, SNIProxy, Stream, front, Reasons, Heard,
                Asked, Opening, Dialing, Tunneled, Parsing, Sending
  <2> QED
    BY <2>4, <2>5 DEF IInv
<1>2. IInv /\ [Next]_vars => IInv'
  <2> SUFFICES ASSUME IInv, [Next]_vars PROVE IInv'
    OBVIOUS
  <2>1. CASE UNCHANGED vars
    <3>1. Types' /\ Owned' /\ Sent' /\ Connected' /\ Aimed' /\ SNIProxy'
      BY <2>1 DEF vars, IInv, Types, TypeOK, Owned, Sent, Connected, Aimed, SNIProxy
    <3>2. got' = got /\ front' = front
      BY <2>1 DEF vars, got, front, ahead
    <3>3. Stream'
      BY <2>1, <3>2 DEF vars, IInv, Stream
    <3>4. Reasons' /\ Heard'
      BY <2>1 DEF vars, IInv, Reasons, ahead, sendable, Heard, Asked, Verdict
    <3> QED
      BY <3>1, <3>3, <3>4 DEF IInv
  <2>2. CASE Next
    BY <2>2, GreetStep, BadRequestStep, GenPolicyStep, ReadPortStep, ForwardRequestStep,
       DialOriginStep, ReplyStep, RawStep, PeekStep, HTTPUnparsedStep, HTTPParsedStep,
       HandleHTTPStep, DrainStep, DrainNilStep, HandleTLSStep, NoUsableSNIStep, SNIKeptStep,
       RouteOnlyStep, OverrideStep, ConnectStep, SendStep
    DEF Next
  <2> QED
    BY <2>1, <2>2
<1> QED
  BY <1>1, <1>2, PTL DEF Spec

\* A session that ends leaves no connection open, and one that forwards holds the one it
\* forwards to, for every policy and but for the two stated exceptions (tunnel.go, the
\* deferred closes and the swap of handleTLS).
THEOREM SessionLeavesNothing == Spec => []NoConnLeft
<1>1. IInv => NoConnLeft
  BY DEF IInv, Owned, NoConnLeft
<1> QED
  BY <1>1, Inductive, PTL

\* When the copying starts there is a destination, and it has what was read from the client,
\* once and in order, but for the three stated losses; a refused session sends nothing, and a
\* connection given up for the SNI's has got nothing (handleHTTPConnect, handleTunnel,
\* handleTLS, drainBuffered).  Only under reply_first can there be no destination.
THEOREM StreamKept == Spec => []StreamIntact
<1>1. IInv => StreamIntact
  <2> SUFFICES ASSUME IInv PROVE StreamIntact
    OBVIOUS
  <2>1. RefusedSendsNothing
    BY DEF IInv, Sent, RefusedSendsNothing
  <2>2. ASSUME pc = "forward"
        PROVE  dst # 0 /\ buffered = <<>> /\ taken = Dropped \o conns[dst].got
    <3>1. dst # 0 /\ got = conns[dst].got /\ buffered = <<>>
      BY <2>2 DEF IInv, Connected, Stream, got
    <3>2. CASE lost = "no" /\ taken = front \o got
      <4>1. Dropped = front
        BY <3>2, FrontAlone DEF Dropped, front
      <4> QED
        BY <3>1, <3>2, <4>1
    <3>3. CASE lost # "no" /\ taken = front \o (<<"hello">> \o got) /\ got \in Remains
      <4> DEFINE S == {"ahead", "hello", "rest"}
      <4>1. front \in Seq(S) /\ <<"hello">> \in Seq(S) /\ got \in Seq(S)
        <5>1. <<>> \in Seq(S) /\ <<"ahead">> \in Seq(S)
          OBVIOUS
        <5>2. <<"hello">> \in Seq(S) /\ <<"rest">> \in Seq(S)
          OBVIOUS
        <5> HIDE DEF S
        <5> QED
          BY <3>3, <5>1, <5>2 DEF front, Remains
      <4>2. Dropped = front \o <<"hello">>
        BY <3>3 DEF Dropped, front
      <4>3. (front \o <<"hello">>) \o got = front \o (<<"hello">> \o got)
        BY <4>1, ConcatAssociative
      <4> QED
        BY <3>1, <3>3, <4>2, <4>3
    <3> QED
      BY <2>2, <3>1, <3>2, <3>3 DEF IInv, Stream
  <2>3. (ahead => inbound = "connect") /\ (lost = "mode" => ~sendable)
    BY DEF IInv, Reasons
  <2>4. pc = "nilconn" => p.replyFirst /\ conns = <<>>
    BY DEF IInv, Connected
  <2> QED
    BY <2>1, <2>2, <2>3, <2>4 DEF StreamIntact
<1> QED
  BY <1>1, Inductive, PTL

\* The connection in use was dialed for the target in use, under the policy made for it
\* (handleTLS replaces policy, target and connection together).
THEOREM PolicyFollowsTarget == Spec => []OnePolicyOneTarget
<1>1. IInv => OnePolicyOneTarget
  BY DEF IInv, Types, Connected, OnePolicyOneTarget
<1> QED
  BY <1>1, Inductive, PTL

\* The client hears at most one verdict after the success, none of them in the protocol of
\* the inbound, and the success only over a connection or under reply_first (socks5.go,
\* http.go, tunnel.go).
THEOREM RepliesHonest == Spec => []ReplyHonest
<1>1. IInv => ReplyHonest
  <2> SUFFICES ASSUME IInv PROVE ReplyHonest
    OBVIOUS
  <2>1. pc = "tunnel" => (p.replyFirst <=> dst = 0)
    BY DEF IInv, Connected
  <2>2. CASE told = <<>>
    <3>1. Len(told) = 0
      BY <2>2
    <3> QED
      BY <2>1, <3>1 DEF ReplyHonest, Told
  <2>3. ASSUME NEW x \in Replies \ {"gateway"}, told = <<x>>, x = "implicit" => conns = <<>>
        PROVE  ReplyHonest
    <3>1. Len(told) = 1 /\ told[1] = x
      BY <2>3
    <3> QED
      BY <2>1, <2>3, <3>1 DEF ReplyHonest, Told
  <2>4. ASSUME NEW x \in Later \cup {"gateway"}, told = <<"success", x>>,
               x = "gateway" => conns = <<>> /\ p.replyFirst
        PROVE  ReplyHonest
    <3>1. Len(told) = 2 /\ told[1] = "success" /\ told[2] = x
      BY <2>4
    <3> QED
      BY <2>1, <2>4, <3>1 DEF ReplyHonest, Told, Later
  <2>5. Verdict
    <3>1. "success" \in Replies \ {"gateway", "implicit"}
      BY DEF Replies
    <3>2. pc \in Opening \cup Tunneled \cup {"end", "panic", "nilconn"}
      BY DEF IInv, Types, TypeOK, Opening, Dialing, Tunneled, Parsing, Sending
    <3>3. Verdict \/ told = <<>> \/ told = <<"success">>
      BY <3>2 DEF IInv, Heard
    <3> QED
      BY <3>1, <3>3 DEF Verdict
  <2>6. CASE \E x \in Replies \ {"gateway", "implicit"} : told = <<x>>
    BY <2>3, <2>6
  <2>7. CASE \E x \in Later : told = <<"success", x>>
    BY <2>4, <2>7 DEF Later
  <2>8. CASE told = <<"implicit">> /\ conns = <<>>
    <3>1. "implicit" \in Replies \ {"gateway"}
      BY DEF Replies
    <3> QED
      BY <2>3, <2>8, <3>1
  <2>9. CASE told = <<"success", "gateway">> /\ conns = <<>> /\ p.replyFirst
    BY <2>4, <2>9
  <2> QED
    BY <2>2, <2>5, <2>6, <2>7, <2>8, <2>9 DEF Verdict
<1> QED
  BY <1>1, Inductive, PTL

(***************************************************************************)
(* ForwardTCP.                                                             *)
(***************************************************************************)
\* Direction d has delivered its stream to the end.
Clean(d) == From(d) \in fin /\ delivered[d] = sent[From(d)]

\* The reasons that justify closing.
MayClose == rst # {} \/ \A d \in Dirs : Clean(d)

\* What a goroutine has in hand.
Accounting ==
  \A d \in Dirs :
    /\ read[d] <= sent[From(d)] /\ delivered[d] <= read[d]
    /\ at[d] = "write" => read[d] = delivered[d] + 1
    /\ at[d] \in {"copy", "closewrite", "swap"} => read[d] = delivered[d]
    /\ at[d] \in {"closewrite", "swap"} => Clean(d)

\* The flag is set by a direction that is past its swap.
FlagHolder ==
  done => \E d \in Dirs : Clean(d) /\ at[d] \in {"close1", "close2", "done"}

Closing ==
  /\ open # Conns => MayClose
  /\ \A d \in Dirs : at[d] \in {"close1", "close2"} => MayClose

ForwardIInv == ForwardTypeOK /\ Accounting /\ FlagHolder /\ Closing /\ EndAfterData

\* Two fresh connections satisfy the inductive invariant.
LEMMA ForwardInitIInv == ForwardInit => ForwardIInv
<1> SUFFICES ASSUME ForwardInit PROVE ForwardIInv
  OBVIOUS
<1> USE MaxDataAssumption DEF ForwardInit, Conns, Dirs, From, To
<1>1. ForwardTypeOK
  <2>1. done \in BOOLEAN
    BY Zenon
  <2>2. sent \in [Conns -> 0..MaxData] /\ read \in [Dirs -> 0..MaxData]
        /\ delivered \in [Dirs -> 0..MaxData]
    OBVIOUS
  <2>3. at \in [Dirs -> {"copy", "write", "closewrite", "swap", "close1", "close2", "done"}]
    OBVIOUS
  <2> QED
    BY <2>1, <2>2, <2>3 DEF ForwardTypeOK
<1>2. Accounting
  BY DEF Accounting
<1>3. FlagHolder
  BY DEF FlagHolder
<1>4. Closing
  BY DEF Closing
<1>5. EndAfterData
  BY DEF EndAfterData
<1> QED
  BY <1>1, <1>2, <1>3, <1>4, <1>5 DEF ForwardIInv

\* A read of copyDirection keeps the invariant.
LEMMA CopyReadIInv ==
  ASSUME ForwardIInv, NEW d \in Dirs, CopyRead(d)
  PROVE  ForwardIInv'
<1> USE MaxDataAssumption DEF ForwardIInv, CopyRead, Goto, peer, Broken, Conns, Dirs, From, To, Clean
<1>1. ForwardTypeOK'
  BY DEF ForwardTypeOK, Accounting
<1>2. Accounting'
  BY DEF ForwardTypeOK, Accounting
<1>3. FlagHolder'
  BY DEF ForwardTypeOK, Accounting, FlagHolder
<1>4. Closing'
  BY DEF ForwardTypeOK, Accounting, FlagHolder, Closing, MayClose
<1>5. EndAfterData'
  BY DEF ForwardTypeOK, Accounting, EndAfterData
<1> QED
  BY <1>1, <1>2, <1>3, <1>4, <1>5

\* A write of copyDirection keeps the invariant.
LEMMA CopyWriteIInv ==
  ASSUME ForwardIInv, NEW d \in Dirs, CopyWrite(d)
  PROVE  ForwardIInv'
<1> USE MaxDataAssumption DEF ForwardIInv, CopyWrite, Goto, peer, Broken, Conns, Dirs, From, To, Clean
<1>1. ForwardTypeOK'
  BY DEF ForwardTypeOK, Accounting
<1>2. Accounting'
  BY DEF ForwardTypeOK, Accounting
<1>3. FlagHolder'
  BY DEF ForwardTypeOK, Accounting, FlagHolder
<1>4. Closing'
  BY DEF ForwardTypeOK, Accounting, FlagHolder, Closing, MayClose
<1>5. EndAfterData'
  BY DEF ForwardTypeOK, Accounting, EndAfterData
<1> QED
  BY <1>1, <1>2, <1>3, <1>4, <1>5

\* A failing copyDirection, which leads to closeBoth, keeps the invariant.
LEMMA CopyErrorIInv ==
  ASSUME ForwardIInv, NEW d \in Dirs, CopyError(d)
  PROVE  ForwardIInv'
<1> USE MaxDataAssumption DEF ForwardIInv, CopyError, Goto, peer, Broken, Conns, Dirs, From, To, Clean
<1>1. ForwardTypeOK'
  BY DEF ForwardTypeOK, Accounting
<1>2. Accounting'
  BY DEF ForwardTypeOK, Accounting
<1>3. FlagHolder'
  BY DEF ForwardTypeOK, Accounting, FlagHolder
<1>4. Closing'
  BY DEF ForwardTypeOK, Accounting, FlagHolder, Closing, MayClose
<1>5. EndAfterData'
  BY DEF ForwardTypeOK, Accounting, EndAfterData
<1> QED
  BY <1>1, <1>2, <1>3, <1>4, <1>5

\* The end of a stream keeps the invariant.
LEMMA CopyEOFIInv ==
  ASSUME ForwardIInv, NEW d \in Dirs, CopyEOF(d)
  PROVE  ForwardIInv'
<1> USE MaxDataAssumption DEF ForwardIInv, CopyEOF, Goto, peer, Broken, Conns, Dirs, From, To, Clean
<1>1. ForwardTypeOK'
  BY DEF ForwardTypeOK, Accounting
<1>2. Accounting'
  BY DEF ForwardTypeOK, Accounting
<1>3. FlagHolder'
  BY DEF ForwardTypeOK, Accounting, FlagHolder
<1>4. Closing'
  BY DEF ForwardTypeOK, Accounting, FlagHolder, Closing, MayClose
<1>5. EndAfterData'
  BY DEF ForwardTypeOK, Accounting, EndAfterData
<1> QED
  BY <1>1, <1>2, <1>3, <1>4, <1>5

\* CloseWrite after the end of a stream keeps the invariant.
LEMMA CloseWriteIInv ==
  ASSUME ForwardIInv, NEW d \in Dirs, CloseWrite(d)
  PROVE  ForwardIInv'
<1> USE MaxDataAssumption DEF ForwardIInv, CloseWrite, Goto, peer, Broken, Conns, Dirs, From, To, Clean
<1>1. ForwardTypeOK'
  <2>1. finOut' \subseteq Conns
    BY DEF ForwardTypeOK
  <2>2. at' \in [Dirs -> {"copy", "write", "closewrite", "swap", "close1", "close2", "done"}]
    BY DEF ForwardTypeOK
  <2> QED
    BY <2>1, <2>2 DEF ForwardTypeOK
<1>2. Accounting'
  BY DEF ForwardTypeOK, Accounting
<1>3. FlagHolder'
  BY DEF ForwardTypeOK, Accounting, FlagHolder
<1>4. Closing'
  BY DEF ForwardTypeOK, Accounting, FlagHolder, Closing, MayClose
<1>5. EndAfterData'
  BY DEF ForwardTypeOK, Accounting, EndAfterData
<1> QED
  BY <1>1, <1>2, <1>3, <1>4, <1>5

\* done.SwapDone(true) keeps the invariant: the second to get there may close.
LEMMA SwapIInv ==
  ASSUME ForwardIInv, NEW d \in Dirs, SwapDone(d)
  PROVE  ForwardIInv'
<1> USE MaxDataAssumption DEF ForwardIInv, SwapDone, Goto, peer, Broken, Conns, Dirs, From, To, Clean
<1>1. ForwardTypeOK'
  BY DEF ForwardTypeOK, Accounting
<1>2. Accounting'
  BY DEF ForwardTypeOK, Accounting
<1>3. FlagHolder'
  BY DEF ForwardTypeOK, Accounting, FlagHolder
<1>4. Closing'
  BY DEF ForwardTypeOK, Accounting, FlagHolder, Closing, MayClose
<1>5. EndAfterData'
  BY DEF ForwardTypeOK, Accounting, EndAfterData
<1> QED
  BY <1>1, <1>2, <1>3, <1>4, <1>5

\* The first half of closeBoth keeps the invariant.
LEMMA CloseDstIInv ==
  ASSUME ForwardIInv, NEW d \in Dirs, CloseDst(d)
  PROVE  ForwardIInv'
<1> USE MaxDataAssumption DEF ForwardIInv, CloseDst, Goto, peer, Broken, Conns, Dirs, From, To, Clean
<1>1. ForwardTypeOK'
  BY DEF ForwardTypeOK, Accounting
<1>2. Accounting'
  BY DEF ForwardTypeOK, Accounting
<1>3. FlagHolder'
  BY DEF ForwardTypeOK, Accounting, FlagHolder
<1>4. Closing'
  BY DEF ForwardTypeOK, Accounting, FlagHolder, Closing, MayClose
<1>5. EndAfterData'
  BY DEF ForwardTypeOK, Accounting, EndAfterData
<1> QED
  BY <1>1, <1>2, <1>3, <1>4, <1>5

\* The second half of closeBoth keeps the invariant.
LEMMA CloseSrcIInv ==
  ASSUME ForwardIInv, NEW d \in Dirs, CloseSrc(d)
  PROVE  ForwardIInv'
<1> USE MaxDataAssumption DEF ForwardIInv, CloseSrc, Goto, peer, Broken, Conns, Dirs, From, To, Clean
<1>1. ForwardTypeOK'
  BY DEF ForwardTypeOK, Accounting
<1>2. Accounting'
  BY DEF ForwardTypeOK, Accounting
<1>3. FlagHolder'
  BY DEF ForwardTypeOK, Accounting, FlagHolder
<1>4. Closing'
  BY DEF ForwardTypeOK, Accounting, FlagHolder, Closing, MayClose
<1>5. EndAfterData'
  BY DEF ForwardTypeOK, Accounting, EndAfterData
<1> QED
  BY <1>1, <1>2, <1>3, <1>4, <1>5

\* A peer that sends keeps the invariant.
LEMMA PeerSendIInv ==
  ASSUME ForwardIInv, NEW c \in Conns, PeerSend(c)
  PROVE  ForwardIInv'
<1> USE MaxDataAssumption DEF ForwardIInv, PeerSend, Goto, peer, Broken, Conns, Dirs, From, To, Clean
<1>1. ForwardTypeOK'
  BY DEF ForwardTypeOK, Accounting
<1>2. Accounting'
  BY DEF ForwardTypeOK, Accounting
<1>3. FlagHolder'
  BY DEF ForwardTypeOK, Accounting, FlagHolder
<1>4. Closing'
  BY DEF ForwardTypeOK, Accounting, FlagHolder, Closing, MayClose
<1>5. EndAfterData'
  BY DEF ForwardTypeOK, Accounting, EndAfterData
<1> QED
  BY <1>1, <1>2, <1>3, <1>4, <1>5

\* A peer that ends its stream keeps the invariant.
LEMMA PeerFinIInv ==
  ASSUME ForwardIInv, NEW c \in Conns, PeerFin(c)
  PROVE  ForwardIInv'
<1> USE MaxDataAssumption DEF ForwardIInv, PeerFin, Goto, peer, Broken, Conns, Dirs, From, To, Clean
<1>1. ForwardTypeOK'
  BY DEF ForwardTypeOK, Accounting
<1>2. Accounting'
  BY DEF ForwardTypeOK, Accounting
<1>3. FlagHolder'
  BY DEF ForwardTypeOK, Accounting, FlagHolder
<1>4. Closing'
  BY DEF ForwardTypeOK, Accounting, FlagHolder, Closing, MayClose
<1>5. EndAfterData'
  BY DEF ForwardTypeOK, Accounting, EndAfterData
<1> QED
  BY <1>1, <1>2, <1>3, <1>4, <1>5

\* A peer that resets the connection keeps the invariant.
LEMMA PeerResetIInv ==
  ASSUME ForwardIInv, NEW c \in Conns, PeerReset(c)
  PROVE  ForwardIInv'
<1> USE MaxDataAssumption DEF ForwardIInv, PeerReset, Goto, peer, Broken, Conns, Dirs, From, To, Clean
<1>1. ForwardTypeOK'
  BY DEF ForwardTypeOK, Accounting
<1>2. Accounting'
  BY DEF ForwardTypeOK, Accounting
<1>3. FlagHolder'
  BY DEF ForwardTypeOK, Accounting, FlagHolder
<1>4. Closing'
  BY DEF ForwardTypeOK, Accounting, FlagHolder, Closing, MayClose
<1>5. EndAfterData'
  BY DEF ForwardTypeOK, Accounting, EndAfterData
<1> QED
  BY <1>1, <1>2, <1>3, <1>4, <1>5

\* Every step of the goroutines and the peers keeps the invariant.
LEMMA ForwardNextIInv == ForwardIInv /\ [ForwardNext]_forwardVars => ForwardIInv'
<1> SUFFICES ASSUME ForwardIInv, [ForwardNext]_forwardVars PROVE ForwardIInv'
  OBVIOUS
<1>1. CASE UNCHANGED forwardVars
  BY <1>1
  DEF forwardVars, ForwardIInv, ForwardTypeOK, Accounting, FlagHolder, Closing, EndAfterData, Clean, MayClose
<1>2. ASSUME NEW d \in Dirs, Copier(d) PROVE ForwardIInv'
  BY <1>2, CopyReadIInv, CopyWriteIInv, CopyErrorIInv, CopyEOFIInv, CloseWriteIInv, SwapIInv,
     CloseDstIInv, CloseSrcIInv
  DEF Copier
<1>3. ASSUME NEW c \in Conns, Peer(c) PROVE ForwardIInv'
  BY <1>3, PeerSendIInv, PeerFinIInv, PeerResetIInv DEF Peer
<1> QED
  BY <1>1, <1>2, <1>3 DEF ForwardNext

\* The inductive invariant of forwardTCP's two goroutines.
THEOREM ForwardInductive == ForwardSpec => []ForwardIInv
  BY ForwardInitIInv, ForwardNextIInv, PTL DEF ForwardSpec

\* Type correctness of both goroutines of forwardTCP: in particular no direction copies
\* more than MaxData chunks, all a peer can send.
THEOREM ForwardTypeCorrect == ForwardSpec => []ForwardTypeOK
<1>1. ForwardIInv => ForwardTypeOK
  BY DEF ForwardIInv
<1> QED
  BY <1>1, ForwardInductive, PTL

\* Without a reset, closeBoth runs only after both streams were delivered whole.
THEOREM Untruncated == ForwardSpec => []NoTruncation
<1>1. ForwardIInv => NoTruncation
  BY DEF ForwardIInv, Closing, MayClose, Clean, NoTruncation
<1> QED
  BY <1>1, ForwardInductive, PTL

\* CloseWrite reaches a peer only after all data for it.
THEOREM EndsAfterData == ForwardSpec => []EndAfterData
<1>1. ForwardIInv => EndAfterData
  BY DEF ForwardIInv
<1> QED
  BY <1>1, ForwardInductive, PTL
====
