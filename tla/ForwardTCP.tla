---- MODULE ForwardTCP ----
(***************************************************************************)
(* forwardTCP of internal/core/net.go: two goroutines copy between the     *)
(* client's and the destination's connection, one per direction.  The one  *)
(* that meets the end of its stream passes it on with CloseWrite; the      *)
(* second to finish, found by swapping an atomic flag, closes both         *)
(* connections, and so does any error.                                     *)
(*                                                                         *)
(* The peers are external: each sends some data, then half-closes, and may *)
(* reset its connection at any time.                                       *)
(***************************************************************************)
EXTENDS Naturals

CONSTANT MaxData   \* bound: chunks a peer sends

ASSUME MaxDataAssumption == MaxData \in Nat

Conns == {"src", "dst"}   \* srcConn, dstConn
Dirs == {"up", "down"}    \* src -> dst, dst -> src

From(d) == IF d = "up" THEN "src" ELSE "dst"
To(d) == IF d = "up" THEN "dst" ELSE "src"

VARIABLES
  open,       \* connections not closed by us
  finOut,     \* connections whose write side we have closed
  sent,       \* chunks each peer has sent
  fin,        \* peers that have half-closed
  rst,        \* connections the kernel knows to be reset
  read,       \* chunks each direction has read
  delivered,  \* chunks each direction has written
  done,       \* the atomic flag
  at          \* control state of each direction's goroutine

forwardVars == <<open, finOut, sent, fin, rst, read, delivered, done, at>>

peer == <<sent, fin, rst>>

ForwardTypeOK ==
  /\ open \subseteq Conns /\ finOut \subseteq Conns
  /\ sent \in [Conns -> 0..MaxData]
  /\ fin \subseteq Conns /\ rst \subseteq Conns
  /\ read \in [Dirs -> 0..MaxData] /\ delivered \in [Dirs -> 0..MaxData]
  /\ done \in BOOLEAN
  /\ at \in [Dirs -> {"copy", "write", "closewrite", "swap", "close1", "close2", "done"}]

ForwardInit ==
  /\ open = Conns /\ finOut = {}
  /\ sent = [c \in Conns |-> 0] /\ fin = {} /\ rst = {}
  /\ read = [d \in Dirs |-> 0] /\ delivered = [d \in Dirs |-> 0]
  /\ done = FALSE
  /\ at = [d \in Dirs |-> "copy"]

Goto(d, l) == at' = [at EXCEPT ![d] = l]

----
\* The peers (external).
PeerSend(c) ==
  /\ c \in open /\ c \notin fin \cup rst /\ sent[c] < MaxData
  /\ sent' = [sent EXCEPT ![c] = @ + 1]
  /\ UNCHANGED <<open, finOut, fin, rst, read, delivered, done, at>>

PeerFin(c) ==
  /\ c \notin fin \cup rst
  /\ fin' = fin \cup {c}
  /\ UNCHANGED <<open, finOut, sent, rst, read, delivered, done, at>>

PeerReset(c) ==
  /\ c \notin rst
  /\ rst' = rst \cup {c}
  /\ UNCHANGED <<open, finOut, sent, fin, read, delivered, done, at>>

----
Broken(c) == c \notin open \/ c \in rst

\* copyDirection reads a chunk,
CopyRead(d) ==
  /\ at[d] = "copy" /\ From(d) \in open
  /\ read[d] < sent[From(d)]
  /\ read' = [read EXCEPT ![d] = @ + 1]
  /\ Goto(d, "write")
  /\ UNCHANGED <<open, finOut, peer, delivered, done>>

\* and writes it.
CopyWrite(d) ==
  /\ at[d] = "write" /\ ~Broken(To(d))
  /\ delivered' = [delivered EXCEPT ![d] = @ + 1]
  /\ Goto(d, "copy")
  /\ UNCHANGED <<open, finOut, peer, read, done>>

\* It fails: the connection is reset, or closed by the other goroutine.
CopyError(d) ==
  /\ \/ at[d] = "copy" /\ Broken(From(d))
     \/ at[d] = "write" /\ Broken(To(d))
  /\ Goto(d, "close1")
  /\ UNCHANGED <<open, finOut, peer, read, delivered, done>>

\* Mutant of CopyEOF: the stream is taken to end as soon as the peer half-closes.
CopyEOFEarly(d) ==
  /\ at[d] = "copy" /\ From(d) \in open \cap fin
  /\ Goto(d, "closewrite")
  /\ UNCHANGED <<open, finOut, peer, read, delivered, done>>

\* It meets the end of the stream and returns nil.
CopyEOF(d) ==
  /\ at[d] = "copy" /\ From(d) \in open \cap fin
  /\ read[d] = sent[From(d)]
  /\ Goto(d, "closewrite")
  /\ UNCHANGED <<open, finOut, peer, read, delivered, done>>

\* CloseWrite passes the end on, or fails.
CloseWrite(d) ==
  /\ at[d] = "closewrite"
  /\ IF Broken(To(d)) THEN Goto(d, "close1") /\ UNCHANGED finOut
     ELSE Goto(d, "swap") /\ finOut' = finOut \cup {To(d)}
  /\ UNCHANGED <<open, peer, read, delivered, done>>

\* Mutant of SwapDone: the first direction to finish closes both connections.
SwapFirst(d) ==
  /\ at[d] = "swap"
  /\ done' = TRUE
  /\ Goto(d, "close1")
  /\ UNCHANGED <<open, finOut, peer, read, delivered>>

\* Mutant of SwapDone: the flag is not set.
SwapNever(d) ==
  /\ at[d] = "swap"
  /\ Goto(d, IF done THEN "close1" ELSE "done")
  /\ UNCHANGED <<open, finOut, peer, read, delivered, done>>

\* done.SwapDone(true): true for the second direction to get here.
SwapDone(d) ==
  /\ at[d] = "swap"
  /\ done' = TRUE
  /\ Goto(d, IF done THEN "close1" ELSE "done")
  /\ UNCHANGED <<open, finOut, peer, read, delivered>>

\* closeBoth: dstConn first, then srcConn.
CloseDst(d) ==
  /\ at[d] = "close1"
  /\ open' = open \ {"dst"}
  /\ Goto(d, "close2")
  /\ UNCHANGED <<finOut, peer, read, delivered, done>>

CloseSrc(d) ==
  /\ at[d] = "close2"
  /\ open' = open \ {"src"}
  /\ Goto(d, "done")
  /\ UNCHANGED <<finOut, peer, read, delivered, done>>

Copier(d) ==
  \/ CopyRead(d) \/ CopyWrite(d) \/ CopyError(d) \/ CopyEOF(d)
  \/ CloseWrite(d) \/ SwapDone(d) \/ CloseDst(d) \/ CloseSrc(d)

Peer(c) == PeerSend(c) \/ PeerFin(c) \/ PeerReset(c)

ForwardNext == (\E d \in Dirs : Copier(d)) \/ (\E c \in Conns : Peer(c))

ForwardSpec == ForwardInit /\ [][ForwardNext]_forwardVars

\* The goroutines run; the peers owe nothing.
ForwardFairSpec == ForwardSpec /\ \A d \in Dirs : WF_forwardVars(Copier(d))

----
\* Unless a peer resets, no connection is closed before both streams have been
\* delivered to their end: the half-closed direction goes on flowing.
NoTruncation ==
  open # Conns =>
    \/ rst # {}
    \/ \A d \in Dirs : From(d) \in fin /\ delivered[d] = sent[From(d)]

\* A peer is told the stream has ended only when it has all of it.
EndAfterData ==
  \A d \in Dirs : To(d) \in finOut =>
    From(d) \in fin /\ delivered[d] = sent[From(d)]

\* Once each peer has half-closed or reset, both connections get closed, whichever
\* goroutine sees what first: no descriptor outlives the tunnel.
BothClosed == (\A c \in Conns : c \in fin \cup rst) ~> (open = {})

\* What a peer has sent arrives, also after the other direction has ended, unless
\* a connection is reset.
AllDelivered ==
  \A d \in Dirs :
    (delivered[d] < sent[From(d)]) ~> (delivered[d] = sent[From(d)] \/ rst # {})
====
