---- MODULE Fragment ----
(***************************************************************************)
(* Sending a ClientHello in pieces (sendRecords in                         *)
(* internal/core/fragment.go): the record is cut into TLS records, the     *)
(* records into TCP segments, and some pieces end in a byte of urgent      *)
(* (out-of-band) data.  Pieces gives what is written, piece by piece, as a *)
(* function of the record and the options.                                 *)
(*                                                                         *)
(* A record is a sequence of bytes.  The receiver (external) does not see  *)
(* the urgent byte of a piece in the stream, unless a later urgent byte    *)
(* takes its place before the receiver has read up to it.                  *)
(***************************************************************************)
EXTENDS Integers, Sequences, SequencesExt

tlsRecordHeaderLen == 5

\* findLastDotOrMidPos; dot is the index of the last dot in the SNI, -1 if there is none.
CutAt(h) == IF h.dot = -1 THEN h.sniLen \div 2 + h.sniStart ELSE h.sniStart + h.dot

\* A record with a ClientHello, whose payload bytes are told apart by their places, and
\* from the bytes of a header.
Payload == 256
Hello(h) == <<22, 3, 1, (h.len - 5) \div 256, (h.len - 5) % 256>>
              \o [i \in 1..(h.len - tlsRecordHeaderLen) |-> Payload + i]

\* data[from:to] of Go.
Slice(data, from, to) == SubSeq(data, from + 1, to)

\* Mutant of Split: the last part is as long as the others.
SplitEven(data, n) ==
  LET base == Len(data) \div n IN
  IF n = 1 \/ Len(data) < n THEN <<data>>
  ELSE [i \in 1..n |-> Slice(data, (i - 1) * base, i * base)]

\* splitAndAppend: n parts of the same length, the last one with what is left.
Split(data, n) ==
  LET base == Len(data) \div n IN
  IF n = 1 \/ Len(data) < n THEN <<data>>
  ELSE [i \in 1..n |-> Slice(data, (i - 1) * base, IF i = n THEN Len(data) ELSE i * base)]

makeRecord(header, payload) ==
  header \o <<Len(payload) \div 256, Len(payload) % 256>> \o payload

\* Pieces put together.
Joined(pieces) ==
  LET joined[i \in 0..Len(pieces)] == IF i = 0 THEN <<>> ELSE joined[i - 1] \o pieces[i]
  IN joined[Len(pieces)]

----
\* A write, and sendWithOOB, whose data ends in the urgent byte.
Plain(data) == [data |-> data, urgent |-> FALSE]
OOB(data, byte) == [data |-> Append(data, byte), urgent |-> TRUE]

\* The two urgent pieces oob_ex begins with, and what they leave.
exPieces(data) == <<OOB(Slice(data, 0, 15), data[16]), OOB(Slice(data, 16, 35), 0)>>
exRest(data) == Slice(data, 35, Len(data))

\* Writes of a list of segments; with oob the first one is urgent.
Writes(segs, oob) ==
  [i \in 1..Len(segs) |-> IF i = 1 /\ oob THEN OOB(segs[i], 0) ELSE Plain(segs[i])]

\* records = 1.  A negative number of segments is a panic after the pieces of oob_ex.
OneRecord(hello, cut, o) ==
  LET data == IF o.oobex THEN exRest(hello) ELSE hello
      at == IF o.oobex THEN cut - 35 ELSE cut
      left == o.segments \div 2
  IN (IF o.oobex THEN exPieces(hello) ELSE <<>>)
     \o IF o.segments = 1 THEN <<Plain(data)>>
        ELSE IF o.segments < 0 THEN <<>>
        ELSE Writes(Split(Slice(data, 0, at), left)
                      \o Split(Slice(data, at, Len(data)), o.segments - left), o.oob)

\* The records hello is cut into.
Chunks(hello, cut, o) ==
  LET left == o.records \div 2
      parts == Split(Slice(hello, tlsRecordHeaderLen, cut), left)
                 \o Split(Slice(hello, cut, Len(hello)), o.records - left)
  IN [i \in 1..Len(parts) |-> makeRecord(Slice(hello, 0, 3), parts[i])]

\* segments = -1: one piece per record.
PerRecord(chunks, o) ==
  [i \in 1..Len(chunks) |->
     CASE i = 1 /\ o.oob -> OOB(chunks[1], 0)
       [] i = 1 /\ ~o.oob /\ o.oobex -> OOB(Front(chunks[1]), Last(chunks[1]))
       [] i = 2 /\ o.oobex -> OOB(chunks[2], 0)
       [] OTHER -> Plain(chunks[i])]

\* Otherwise the records are put together and cut anew; with segments < -1 the loop
\* that writes does not run.
Merged(chunks, o) ==
  LET all == Joined(chunks)
      data == IF o.oobex THEN exRest(all) ELSE all
  IN (IF o.oobex THEN exPieces(all) ELSE <<>>)
     \o IF o.segments = 1 \/ (o.segments > 0 /\ Len(data) <= o.segments) THEN <<Plain(data)>>
        ELSE IF o.segments < 0 THEN <<>>
        ELSE Writes(Split(data, o.segments), o.oob)

\* An option that is not set is 0 and counts as 1.
orOne(n) == IF n = 0 THEN 1 ELSE n

\* sendRecords.  minor, unless 0, is put into the record first.
Pieces(h, opts) ==
  LET hello == IF opts.minor = 0 THEN Hello(h) ELSE [Hello(h) EXCEPT ![3] = opts.minor]
      o == [opts EXCEPT !.records = orOne(@), !.segments = orOne(@)]
  IN IF o.records = 1 THEN OneRecord(hello, CutAt(h), o)
     ELSE IF o.segments = -1 THEN PerRecord(Chunks(hello, CutAt(h), o), o)
     ELSE Merged(Chunks(hello, CutAt(h), o), o)

\* make of a negative capacity.
Panics(opts) == orOne(opts.records) = 1 /\ opts.segments < 0

----
\* What the receiver reads of the first n pieces; early: it has read up to an urgent byte
\* before the next one came.
Received(pieces, n, early) ==
  LET superseded(i) == ~early /\ \E j \in (i + 1)..n : pieces[j].urgent
      inBand(i) == IF pieces[i].urgent /\ ~superseded(i) THEN Front(pieces[i].data)
                   ELSE pieces[i].data
  IN Joined([i \in 1..n |-> inBand(i)])

\* One more record of a stream, as long as its header says, if there is a header.
NextRecord(s, r) ==
  LET end == r.at + tlsRecordHeaderLen + 256 * s[r.at + 3] + s[r.at + 4]
  IN IF r.at + 4 > Len(s) THEN r
     ELSE [at |-> end, records |-> Append(r.records, SubSeq(s, r.at, end - 1))]

\* The records the receiver makes out of a stream, and where they end.
Reading(s) ==
  LET read[i \in 0..(Len(s) \div tlsRecordHeaderLen)] ==
        IF i = 0 THEN [at |-> 1, records |-> <<>>] ELSE NextRecord(s, read[i - 1])
  IN read[Len(s) \div tlsRecordHeaderLen]
RecordsOf(s) == Reading(s).records

\* The stream is a sequence of handshake records of that version, none of them empty,
\* whose payloads together are the payload of the ClientHello.
WellFragmented(s, h, minor) ==
  LET records == RecordsOf(s)
      payload(i) == Slice(records[i], tlsRecordHeaderLen, Len(records[i]))
  IN /\ Reading(s).at = Len(s) + 1
     /\ \A i \in 1..Len(records) : Slice(records[i], 0, 3) = <<22, 3, minor>> /\ payload(i) # <<>>
     /\ Joined([i \in 1..Len(records) |-> payload(i)]) = Slice(Hello(h), tlsRecordHeaderLen, h.len)

\* The bytes of the SNI are not all in one record of the stream, or not all in one piece.
HoldsName(data, h) == ToSet(Slice(Hello(h), h.sniStart, h.sniStart + h.sniLen)) \subseteq ToSet(data)
NameCutByRecords(s, h) == \A i \in 1..Len(RecordsOf(s)) : ~HoldsName(RecordsOf(s)[i], h)
NameCutByPieces(pieces, h) == \A i \in 1..Len(pieces) : ~HoldsName(pieces[i].data, h)
====
