# A verification project for enimul

enimul is a local proxy. Clients reach it over SOCKS5, as an HTTP proxy, or as an
SNI proxy; a policy chosen by domain and address decides where each connection goes
and in what shape its first bytes are sent. This directory holds TLA+ models of the
parts of it where order and concurrency matter, TLC configurations that check them
on small instances, and TLAPS proofs that lift all the safety properties to every size of
the system, and with them the refinement of the abstract cache.

Every definition of a model is a translation of the Go code; `PROJECT.json` maps each
one to its lines. Control (state changes, guards, early returns, error paths, order)
is kept; data is reduced to what the properties tell apart. Names follow the code
where TLA+ allows it.

## The system and its parts

| part | state | operations | module |
|---|---|---|---|
| flight group (`internal/singleflight`) | map of calls in flight, mutex, a wait group per call | `Do`, `doCall` | `SingleFlight` |
| LRU cache (`internal/freelru`) | two arrays: elements on two rings each, buckets | add with lifetime, get, expiry, eviction | `FreeLRU`, abstractly `LRUCache` |
| dialer (`internal/dial`) | per call: two channels, a context, a goroutine per address | `dialParallel` | `DialParallel` |
| forwarding (`core/net.go`) | two connections, an atomic flag | two copy goroutines, half-close, `closeBoth` | `ForwardTCP` |
| IP pools (`core/ippool.go`) | the best IPs, weights, counter, RW lock, semaphore | scan, test, `updateBest`, `Get` | `IPPool` |
| DNS resolver (`core/dns.go`) | cache, flight group | `Resolve`, `doResolve` | `Resolver` |
| anti-hijack DNS client (`core/dns.go`) | per exchange: the best reply so far, the deadline | `ExchangeWithConnContext` | `AntiHijackDNS` |
| policies (`core/policy.go`) | route tables, fixed after start | `genPolicy`, `mergePolicies`, `ipRedirect` | `Policy` |
| tries (`internal/addrtrie`) | tries, fixed after start | insert, longest match | `AddrTrie` |
| configuration (`core/core.go`, `main.go`) | the builder | `Merge`, `Build` | `Routes` |
| DoH transport (`core/policy.go`) | destination and policy, worked out at start; a flag per connection | `genDoHDialFunc`, `policyConn.Write` | `DoHDial`, `ClientHello` |
| sessions (`core/tunnel.go`, `socks5.go`, `http.go`, `sniproxy.go`) | per connection: policy, target, destination connection, read buffer | the inbound handlers, `handleTunnel`, `handleHTTP`, `handleTLS` | `Tunnel` |
| TTL desync (`core/desync*.go`) | TTL cache, flight group; per send: pipe and pages, or a file and a semaphore | TTL search, fake packet | `TTLProbe`, `DesyncSend` |
| TLS fragmentation (`core/fragment.go`) | none | `sendRecords` | `Fragment` |
| interface binding, JSON, logging, error and platform helpers | | | not modelled |

How they interact. An inbound accepts a connection in a goroutine of its own and asks
`genPolicy` for a policy and a destination. `genPolicy` reads the tries and may ask
the resolver or an IP pool; the resolver goes through the cache and the flight group
and then to a DNS exchange, over UDP by the anti-hijack client. The session dials
(in parallel, if there are several addresses), reads the client's first message, may
be sent elsewhere by the SNI in it, sends that message in the way of the policy, and
leaves the rest to `forwardTCP`. That message, if it is a ClientHello, goes out as it is,
in fragments, or behind a fake packet whose TTL is first searched with dials of its own.
The DoH client's connections are dialed under a policy too, and their ClientHello sent in
the same ways. Only the caches, the flight groups, the pools and the
counters are shared between sessions.

`Resolver` uses the flight group and the cache by their contracts (what `SingleFlight`
and `LRUCache` show), `Policy` uses the resolver and the pools by theirs (any addresses,
from DNS even none, or a failure), `Tunnel` uses `Policy`, `DialParallel` and `ForwardTCP` in
the same way. Two modules compose others: `Routes` runs from the files of the configuration through the tries
(`AddrTrie`) to `genPolicy` (`Policy`) or the DoH dial (`DoHDial`); `ClientHello` puts the
TTL search (`TTLProbe`), the fake packet (`DesyncSend`) and the fragments (`Fragment`)
under the mode switch of the two callers.

What is hard here: waiters that are released before the map entry is gone; channels,
a context and a drain that race for the connection that won; two copiers that must
agree on who closes; a copy of the pool's state used after the lock; a cache that is
looked into before the flight group; replies in any order against two deadlines; a
session whose destination changes half-way with failures at every step; an array that
is compacted under two rings; a kernel that retransmits, by itself and at any time, memory
the program is rewriting; a bisection over dials that get lost; tables that several files
fill with overlapping patterns. `PROJECT.json` lists these as hazards, each at its line,
with the properties that would notice.

## The modules and the code

**SingleFlight.** A goroutine's program counter follows `Do`: `lock`, then either
`wait` or `fn`, `defer` (fn is over, the mutex not taken yet), `delete` (the mutex is
held and the waiters are released), `return`. Calls of `Do` are numbered, and a `*call`
bears the number of the invocation that allocated it. `fn` returns, panics, or calls
Goexit. `before` is history: the flights that were over when an invocation began.

**FreeLRU / LRUCache.** `lru` is one record with the fields of the Go struct; operators
with the names of the Go methods map an LRU to the LRU the method leaves behind, so
`AddWithLifetime` and `Get` are one action each, as the mutex of a shard makes them.
`Bucket` stands for the hash. `SetClock` moves the clock either way: the code reads the
wall clock. `LRUCache` says what a cache promises: a sequence of entries in order of
use. `FreeLRU` implements it (`Refines`) under the mapping `Recency`, which follows the
use ring from the oldest entry. Both leave out what the program never calls (`Remove`,
`Peek`, `Purge`, metrics).

**DialParallel.** The caller, the launcher, a dial per address and the closer are
processes. `connCh` has room for one connection, `errCh` for all errors. A channel
operation that finds the caller parked in its `select` decides it, as in the Go
runtime. The launch delay is nondeterministic.

**ForwardTCP.** Each direction copies a chunk in two steps (read, write); then EOF,
`CloseWrite`, the swap of `done`, and `closeBoth` in two steps. Peers are external: they
send, half-close, reset. A read or a write of a connection that is closed or reset fails.

**IPPool.** `test` holds the state of each test goroutine, `results` what was sent, in
order. A result is the number of failed attempts and a latency; `updateBest` sorts,
truncates and weighs. `Get` is two actions: the copy under the read lock, and the choice
from it. The counter wraps at `CounterSize`, for 2^32; `narrow` is a build whose `int` has
32 bits, where the upper half of the counter is negative.

**Resolver.** A `Dst` is the set of address families in it with the call that made it.
The flight of a domain is the goroutine that runs `doResolve` for it. The two questions,
the store into the cache and the return are separate steps.

**AntiHijackDNS.** Time is in ticks since the query. A reply is read at one moment and
its round-trip time is taken at another; replies have an Id that is the query's or not,
a number of records and perhaps a client subnet.

**Policy.** One run of `genPolicy`. Route tables do not change, so the variables hold what
they say about the host in question. A policy is its mode, host and `map_to`; the other
options are merged like the mode. DNS answers with an address, several, or an empty list of
them: any call may find the last one in the cache, whoever asked for it. It is served, or
`genPolicy` panics while logging it, which depends on the log level (`Resolve`).

**AddrTrie.** The tries as values: a node is the path to it, a domain its labels from the
last one on, an address its bits. `Add`, `FindDomain`, `InsertIP` and `FindIP` walk them as
the code does, candidate by candidate.

**DoHDial.** `genDoHDialFunc` at start (`DoHIP`, `DoHDomain`, then the checks after `brk`) and
the functions it returns, which ask the pool anew at each dial.

**Routes.** Files are merged one by one into the builder (`Merge`), the flags last; an error
ends the program. `Build` hands the tables to the lookups, and one host is asked for, by a
session or for the DoH server. A file is what `Merge` gets of it: patterns are already split
and expanded.

**TTLProbe.** Every session's call of `getFakeTTL` with the locals of the bisection. A dial
is one step; one with a sufficient TTL may be lost. Note that `low` moves at the first
failed attempt while the others are made with the same `mid`, as in the code. `lossy`
records that a dial of the search was lost.

**DesyncSend.** The steps of `sendWithNoise` on Linux (`vmsplice`, goroutine, sleep, copy,
restore, join) and Windows (semaphore, `TransmitFile`, wait of 5 seconds), each with its
failure. `page` is the shared memory or file, in units; the kernel takes a unit into its
queue and delivers it at any later time with the contents and the TTL of that time.

**Fragment.** `Pieces` is the list of writes `sendRecords` makes of a record under given
options, with the urgent byte some of them end in. `Received` (external) is the stream the
server reads of them, and `Reading` the records its TLS layer makes of that stream, each as
long as its header says.

**ClientHello.** The mode switch of `handleTLS` and of `policyConn.Write`, and the writes of
the pieces one at a time, each of which may fail.

**Tunnel.** One session. Every read, write and dial may fail. The first message of the
client is `hello`, what was read along with it `rest`, and what net/http had read behind a
CONNECT, which the hijack drops, `ahead`; `taken` is the history of what was read. `conns`
remembers every connection dialed, to whom, whether it is open, and what was written to it;
among them the one of a plain request, which its transport may keep (`RoundTrip`). `told`
keeps apart who speaks: the inbound in its protocol, `handleHTTP` inside the tunnel
(`gateway`), and net/http for a handler that wrote nothing (`implicit`). A panic ends the
handler if net/http recovers it, and the program otherwise (`panic`, or `nilconn` for the
connection that was never dialed). That `dialParallel` can return neither a connection nor
an error is not repeated here: a dial has a connection or fails.

## What is checked

| run | instance | shows |
|---|---|---|
| `singleflight` | 3 goroutines, 2 keys, 3 calls | one flight per key; outcomes of the own key, final and fresh; the shared flag exact; `Do` ends, also after panic and Goexit |
| `freelru` | capacity 3, 4 keys of which 3 collide, 2 values, lifetime 1, clock 0..1, symmetry | rings intact; implements `LRUCache` |
| `dial_parallel` | 4 addresses | the returned connection stays open, none leaks, all addresses are tried, all goroutines end |
| `dial_parallel_nil` | 2 addresses | **violated**: a connection or an error is returned |
| `forward_tcp` | 2 chunks each way | no truncation, end after data, both closed, all delivered |
| `ippool` | 3 IPs, 2 kept, 2 attempts, 2 places, 1 caller, counter of 2 | the best are kept and each gets its share; answers are usable; scans end, the server starts |
| `resolver` | 2 goroutines, 2 domains, 2 calls, 4 kinds of mode | answers fit the question and the mode they were made for, fresh or kept; kept answers are used; every call ends |
| `resolver_empty` | 1 call | **violated**: a successful answer has an address |
| `anti_hijack_dns` | 3 replies, 3 waits, 3 minimum RTTs, 5 ticks | none early, own Id, the fullest, the wait kept, the exchange ends |
| `policy` | 2 addresses of 2 bits; 1 to 3 files, tables of up to 3 entries; every kind of DNS answer | longest match; blocks respected, most specific wins, right destination; the same for DoH |
| `tunnel` | every policy | no leak but two, stream intact but for three losses and never without a destination, refused sends nothing, one policy per target, honest replies |
| `client_hello` | 1 or 2 sessions, up to 3 hops, 2 attempts, 1 or 2 units, no rules and two sets of rules, 4 records under 112 combinations of options, and 2 with an empty name | the search is exact, fake data is never seen, fragments come together, what is sent arrives, sessions end |

Types are a conjunct of one invariant of each run (`TypeOK`, `PoolTypeOK`), or proved by
themselves (`TypeCorrect` of the flight group, `ForwardTypeCorrect`). Modules that are
proved about together (`DialParallel` with `IPPool`, `Tunnel` with `ForwardTCP`, and those
that `Routes` and `ClientHello` compose) have no definition of the same name, hence
`PoolSpec`, `ForwardSpec` and the like.

Every property has a mutant: a plausible slip in one definition under which TLC finds
the property violated. Mutants are defined next to what they replace and used nowhere.

### Why the bounds are enough

Three goroutines give a leader, a waiter and a latecomer. Two calls of `Resolve` race or
follow each other, which is all a second caller can do; who shares a flight is the business
of `SingleFlight`. A cache of three is the smallest in which the head, the oldest entry and
an entry between them differ and the last element can be moved onto another; three colliding
keys make a bucket ring with a middle. The one lifetime is that of an entry that may expire:
the program never adds one without. Four addresses allow a winner, a loser, one in flight
and one not started. Two chunks let a direction have one read and one still to come. Three
IPs of which two are kept let one be dropped, and which one depends on the measurements: the
first is fast or slow, the second lossy, the third slow, as a tie for the first. A counter
of two wraps inside a turn (`FairShare` covers every target of a turn by itself), with one
caller because callers share nothing but the counter, whose value any other caller could
have left; its lower half is what a 64-bit `int` does and its upper half what a 32-bit one
does. Three replies allow a fuller one before and after a lesser one; waits and minimum RTTs
lie on either side of the timeout and of each other. `Policy` and `Tunnel` are finite as
they stand: the bounds only limit the number of addresses and the combinations of SNI
policies. Two entries of one table meet in all ways (same, above, below, beside, in either
order and file), and a third decides between them; a domain with a label below and one
beside the site, and addresses of two bits, tell a prefix from a match. Fragments: records
without a dot, with one inside the name and with one in front of it, a name of two bytes,
and counts of parts below, at and above the number of bytes. One hop and three, a `max_ttl`
below and above, make the bisection go both ways; two units let one be queued, or copied,
without the other; a semaphore of one place makes two sessions wait for each other. Where a
property is proved, the theorem lifts the bounds.

### Fairness

Weak fairness on the steps of goroutines that are running: the Go scheduler runs them.
It includes that what they wait for outside ends: `DialTCP` is bound to a context,
tests have a timeout, the UDP exchange has a deadline. Where the code gives no such
bound the README says so: the DoH client (`dns.go:162`) has no timeout, so `ResolveEnds`
rests on the server, or the transport under it, ending the exchange. In `client_hello` the
network is fair too: TCP retransmits until the data is acknowledged, which is what the fake
packet relies on. Faults (EAGAIN, errors, expiry of the cache) are not fair. Nothing external is
fair: nobody is obliged to call `Do`, `Resolve` or `Get`, and peers owe no data.
`CHECK_DEADLOCK FALSE` stands where all calls of the bound are made or the session is
over.

### Exceptions the code makes

Some properties hold with exceptions the code really has; each is spelled out in the
property and its comment, so that any other case is still a violation.

- `Tunnel!NoConnLeft`: `handleTunnelSNI` closes only the client when it fails after
  `handleTLS` has dialed (`sniproxy.go:93`); the connection of an answered plain request
  stays idle in a transport of its own, which nobody closes (`http.go:228`).
- `Tunnel!StreamIntact`: three losses. What net/http had read behind a CONNECT is in a reader
  the hijack drops (`http.go:113`); bytes taken by a failed `http.ReadRequest`
  (`tunnel.go:75`), and a ClientHello under a mode without a case (`tunnel.go:283`), are not
  sent on. And one panic: under `reply_first` nothing has been dialed when the first bytes are
  neither TLS nor a request, and `drainBuffered` (`net.go:36`) or the copy (`net.go:52`) uses a
  nil connection.
- `Tunnel!ReplyHonest`: a CONNECT target without a port gets the status net/http sends for a
  handler that wrote nothing (`http.go:79`), to the client a success.
- `Policy!BlockRespected`: a blocking default policy is not enforced by `genPolicy` for a
  domain that has no policy of its own (`policy.go:746`); CONNECT looks again
  (`http.go:97`), SOCKS5 does not.
- `Policy!MostSpecificWins`: a result that is the default policy as it stands may leave the
  mode unset; it is not merged with the built-in defaults (`policy.go:746`).
- `DoHDial!DoHPolicyRight`: a dial panics if a pool answers with an address that no IP
  policy covers (`policy.go:661`); the policy of an address that a host option names does not
  count, nor does a `^` before it (`policy.go:605`).
- `Routes!LongestMatch`: a pattern without a dot is dropped silently (`core.go:134`), and `*`
  among the IP policies covers IPv4 only (`core.go:146`).
- `ClientHello!FragmentsIntact`: `oob` and `oob_ex` together leave a byte in the stream;
  `num_segs` below -1 sends nothing, and panics with one record (`fragment.go:59`); `oob_ex`
  counts on the server not to read between two urgent bytes; a name of one byte, or with no
  dot but one in front, is not cut (`fragment.go:14`), and an empty one, which is accepted
  (`tunnel.go:459`), leaves an empty record behind it if it is the last thing in the
  ClientHello and `num_records` is in use; what `policyConn.Write` finds no SNI in goes out
  as it is (`policy.go:504`).
- `ClientHello!FakeNeverSeen` is about TTLs that can be trusted (`trusted`): a policy's own that
  is too low for the server, or one that the rules make lower than the distance, after a
  search without a lost dial. A lost dial makes the search stop at too high a TTL
  (`desync.go:237`). The shipped `config.json` has the rule `3=3`, so for a server at 3 or 4
  hops the question is whether 3 is lower: at 4 it is, at 3 it is not, and the property says
  nothing.
- `ClientHello!HelloEnds`: without `attempts` the search does not end (`desync.go:223`); after an
  EAGAIN `remaining` never gets to zero (`desync_linux.go:75`), nor when the pipe did not take
  everything (`desync_linux.go:53`).
- `AntiHijackDNS!OwnAnswer`: a reply with a foreign Id that is read just before the end of
  the wait is returned if none of the query's own came (`dns.go:667`).

### Findings

1. `dialParallel` can return neither a connection nor an error (`dial.go:171`). The
   closer waits for all dials, closes `connCh` and drains it; if the caller has not
   reached its `select` by then, the winner is closed, `errCh` may be empty, and `Join` of
   no errors is nil. Callers test only the error.
2. Under the modes for several addresses an answer without a record of the family is a
   success with an empty list, which is cached as well (`dns.go:433`): the test for nil
   never holds because `pickARecords` allocates its slice. The error and the fallback to
   the other family that follow are dead code. With the log level at Info the answer is not
   served: logging it (`policy.go:786`) takes the first of no addresses (`dst.go:38`) and
   panics, which ends the program unless net/http recovers it.

## What is proved

TLAPS checks, for every value of the constants:

- `SingleFlightProofs`: `TypeCorrect`, `OneFlight`, `AnswersAreRight`, `SharedFlag`, from
  `SingleFlightAssumption` (`NoProc` is no goroutine, `MaxDo` is a number, there is a key).
  None of the properties is inductive. The invariant `IInv` adds that each goroutine in
  `Do` has an invocation of its own (`OwnInvocation`), that invocations to come have left
  no trace (`Untouched`), that a key has an entry exactly while a goroutine is between
  publishing its call and deleting it (`LeaderEntry`, `EntryLeader`), that the mutex is
  held exactly there where waiters are released and the entry deleted (`MutexHolder`,
  which is why a latecomer cannot join a finished flight), where each flight stands
  (`NotStarted`, `Flying`, `Waiting`, `PastIsOver`), and that `dups` is positive exactly
  if somebody joined (`DupsCounted`, `FlagIsDups`). There is one lemma per action and one
  step per conjunct.
- `SessionProofs`, on `ForwardTCP`: `ForwardTypeCorrect`, `Untruncated`, `EndsAfterData`,
  for any `MaxData`. `ForwardIInv` adds what a goroutine holds in hand (`Accounting`), that
  the flag, once set, was set by a direction that had delivered its stream whole
  (`FlagHolder`), and that whoever closes has a reason (`Closing`: a reset, or both streams
  delivered).
- `DialProofs`, on `DialParallel`: `ReturnedStaysOpen`, `NoConnLeftOpen`,
  `NoAddressSkipped`, for any number of addresses from two on (`NAssumption`: `dialParallel`
  is called with more than one). The heart of `IInv` is `OneOwner`: an open connection is
  with its dial, in the buffer of `connCh` or with the caller, and in one of these places
  only, so whoever closes one closes what nobody else has. `DialStage` and `LaunchedInOrder`
  tie each dial to its connection, its error and the launcher; `CloserLate` keeps what the
  closer waited for. That no address is skipped needs reasons for every early end: the
  launcher gives up only when the context is done (`LauncherReason`), which is the doing of
  the caller's context or of a dial that made a connection (`CancelReason`).
- `AntiHijackProofs`: `NoForgedAnswer`, `FullestIsAnswer`, `WaitIsKept`, for all timeouts, any
  minimum round-trip time and any number of replies and records (`AntiHijackAssumption`).
  `BestSoFar`: while the loop runs, `best` is the last of the fullest of the usable replies, and
  is set exactly if there is one; with that, each way out of the loop is checked by itself.
- `ResolverProofs`: `AnswersExplained`, `AnswersFresh`, `KeptAnswersUsed`, for any goroutines,
  domains, modes and number of calls. `ResolverAssumption` asks that no goroutine is called
  `"none"`, the word for a domain without a flight. `IInv` follows an answer from
  the goroutine that makes it through the flight and the cache to every caller (`GoodFound`,
  `GoodCache`, `GoodReply`: good for the domain and for the mode of the call that made it);
  `OwnCall` and `Flights` say who is at work for which call and domain; `StoredFound` and
  `StoredReply`, that an answer to be kept is in the cache from before its call returns until
  it leaves the cache, which is what makes a later call find it.
- `SessionProofs`, on `Tunnel`: `SessionLeavesNothing`, `StreamKept`, `PolicyFollowsTarget`,
  `RepliesHonest`, for any policies of the client's host and of the SNI. `IInv` says at each
  step of the session which connection is open (`Owned`: the one in use), what may have been
  written (`Sent`), when there is a connection and for which target (`Connected`, `Aimed`,
  and `SNIProxy` for its shorter way), where the client's bytes are (`Stream`: in the
  buffer, with the destination, or lost in one of the three stated ways; `Reasons` keeps why)
  and what the client has heard (`Heard`). `ahead` is what the client's stream may begin with
  (`front`), and a session that is about to drain has either a connection or nothing dialed
  under `reply_first`, so none is copied to nowhere.
- `PolicyProofs`, on `Routes`: `LongestMatches`, and with it `BlocksRespected`,
  `MostSpecificDecides`, `DestinationsRight` and `DoHPoliciesRight`, for any addresses of
  any length (`RoutesAssumption`), any number of files with any entries, good or bad, and
  anything asked for (its `Init`; `File` says what a file can hold). Two things are proved
  of the way from the files to a policy. The tries: `Latest` says that the keys of a trie
  are those of the entries inserted so far, each with the value of its latest entry, and
  `Tree` that a node's ancestors are nodes; `Written` and `Grown` keep them under one
  insertion, `HoldsMore` and `RoutesMore` under a whole file. A lookup goes down as far as
  there are nodes, and its result is the value of the last node on the way that has one
  (`LabelWalk`, `BitWalk`, `DomainFound`, `IPFound`): as the nodes are a tree, none further
  down the way of the host is missed. Of the entries that cover the host, the longest is the
  deepest of these nodes, and `Latest` makes it the last one of its length (`DomainLongest`,
  `AddrLongest`). The invariant `Loading` says after each merge that the tries hold the
  entries of the files merged so far (`TriesHold`) and the options are those of the last
  file that sets them (`OptionsSet`); `Build` turns it into `LongestMatch`, and into the
  type of the tables that the rest starts from. For that rest, `PolicyAssumption` keeps
  addresses apart from the words for other destinations: the code tells them apart by
  parsing. The lemmas say what chains of two and of three policies come to (`ChosenOfTwo`,
  `Merging`, `TwoRight`, and the same for three); `IInv` says what `genPolicy` and the DoH
  dial know at each step (`AtDomain`, `AtAddr`, `AtDial`), above all that the host looked at
  is the one that decides. It holds whatever the tables say, so the two parts meet only in
  `RInv`.
- `ClientHelloProofs`: `SearchIsExact` and `FakeIsNeverSeen`, for any sessions, distances,
  bounds, attempts, rules and number of units (`TTLProbeAssumption`, `DesyncSendAssumption`,
  `ClientHelloAssumption`). That an answer of the search is right follows from the bracket of
  the search that gave it, so `ProbeInv` adds `Bracket`: what has been found is one above
  `high` and reaches the server, and unless a dial was lost `low` has not passed the distance;
  when the two cross, what has been found is the distance, or nothing was found because
  `max_ttl` is below it. `Unsearched` says that a search begins with a fresh bracket. A
  retry after a lost dial breaks the bracket on the side of `low` only, which is why the
  answer of a lossy search still reaches the server. From there `Low`, a TTL that can be
  trusted is below the distance (`lowered` is a matter of the rules and the distance alone,
  and the answer of a search that lost no dial is the distance), and it does not change once
  the send has begun (`Asked` keeps a policy's own TTL apart from a searched one). `Hidden` is what the order of
  `sendWithNoise` is for: the TTL is low until every unit is rewritten, and after an error on
  the way the socket has the low TTL, or the real contents, or nothing (`Early`). A unit that
  arrives was sent with a TTL that is not low, and so has the real contents.
- `ClientHelloProofs` also has `FragmentsAreIntact`, for any record of up to 65535 bytes of
  payload with a name in it, empty or not, any options and any sessions. The work is in what
  `Pieces` computes (`PiecesIntact`), and goes from the writes to the server. `Joined` of two lists
  is the two put together (`JoinedConcat`), and the parts of `Split` are not empty and give
  back what was split, however many bytes there are for however many parts (`SplitParts`; `Inside` sets
  aside the cut at the very end, behind which there is nothing to split).
  Pieces *carry* a list of segments if taking each urgent byte out of the stream, or keeping
  it where another follows, leaves the segments (`Carries`, `ReceivedIs`); this is shown of
  each of the ways to write, those of `oob_ex` included (`ExCarries`, `EachCarries`). Of a
  stream that is records put together, each as long as it says, the reader makes the same
  records (`ReadBack`), so what it gets of the parts of a payload is well-formed
  (`RecordsFragment`). That the name is cut follows from two neighbouring bytes of it, one
  on either side of `CutAt`: each part lies on one side (`TwoSplits`), so it lacks one of
  the two (`Apart`), and so does what is added to it (`RecordApart`, `AppendLacks`). The
  invariant `CutsInv` ties that to the sessions: what one has to send is what `Pieces`
  gives, or the record as it is if no SNI was found, and a success comes only when all of it
  is written and nothing panicked.
- `DialProofs`, on `IPPool`: `SharesFair`, `BestAreKept`, `AnswersAreUsable`, for any number of
  IPs, kept IPs, attempts, callers and places in the semaphore, any measurements, any size
  of the counter and both widths of `int`. `IPPoolAssumption` asks that the IPs are the
  indexes of a list that is not empty, and that bounds and the largest weight are positive.
  `PoolIInv` says of the pool and of every copy a caller holds that it is of one update
  (`OfOneUpdate`: the total is the sum of as many weights as there are kept IPs, each between
  1 and the largest), of the pool that it has the best of the results it was made from
  (`BestOf`), and of the channel that it has one result of each test that is over
  (`OneResult`), which is what makes the results of a scan as many as its IPs. The proofs
  rest on what the operators do: `Sorted` is a permutation in the order of `Better`, `Total`
  grows with each weight, so that the intervals of `Pick` are disjoint and as long as their
  weights.
- `FreeLRUProofs`: `LinksIntact` and `ImplementsLRUCache`, for any keys, values and
  lifetimes, any capacity, any length of the arrays that holds it and any hash
  (`FreeLRUAssumption`). A walk along a ring is as long as the ring, so an invariant that
  speaks of walks could not be checked against one assignment. `IInv` says instead that the
  live entries form rings (`Ring`): the two links of an entry are inverse to each other and
  stay in its class (all entries in the order of use, those of its bucket otherwise), and a
  set of entries that the forward link does not leave contains the whole class of each of
  its members. Every assignment of lru.go is followed through this: first what an operation
  does to each field (`UnlinkBucketEffect`, `MoveEffect`, `LinkedEffect` ...), then that a
  ring stays one when an entry leaves, joins or moves (`UnlinkFromRing`, `LinkIntoRing`,
  `MoveInRing`), then the operations (`RemoveRings`, `UpdateRings`, `AddNewRings`), among
  them the addition that evicts the only entry of the very bucket it links the new one into.
  That the walk of `search` meets each entry of its bucket follows from `Ring`
  (`WalkComplete`), hence `LinksIntact`. For the refinement, `InOrder` lists the entries
  from the oldest to the newest; the lemmas on it say what leaving, joining and moving do to
  the list (`OrderDrops`, `OrderJoins`, `OrderMoves`), and `AddRefines` and `GetRefines`
  compare it with the sequence of `LRUCache`, an operation at a time.

TLC checked each inductive invariant on the instance of its run before it was proved.

Where a proof is about a recursive function (the walk of `search`, the order of use, the sum
of the weights, the insertion of a file's entries, the walk of a lookup, pieces put together,
the records of a stream), the induction is made by hand: a set of natural numbers has a smallest
element (`Smallest`, from the library's `WFMin` and `NatLessThanWellFounded`), so a claim that
failed for some number would have a smallest one it fails for, and the step from its
predecessor refutes it.

Only model-checked, and why:

- All liveness properties (`DoEnds`, `AllEnd`, `BothClosed`, `AllDelivered`, `ScanEnds`,
  `ResolveEnds`, `ExchangeEnds`, `HelloArrives`, `HelloEnds`): the prover does not deal with
  fairness.
- What `TTLProbe!calcTTL` computes is checked through the properties of its run only.

## Seen on the way

Defects of single lines that the models leave out, since no order of steps is involved:
`NewDialer` never stores its logger, so the first tick of the monitor of local addresses
(`dial.go:180`, `dial.go:195`) calls a method of a nil interface; `preMapIP` drops what
`transformIP` returns (`policy.go:693`); `expandPattern` slices without checking that `)`
comes after `(` (`core.go:281`); an error at `desync_linux.go:89` returns without waiting
for the goroutine, which goes on with a closed pipe; the extension type of `tlsExtTypeECH`
(`tunnel.go:348`) is 0x00fe, while ECH has 0xfe0d; the delay after a failed `Accept` is the
larger, not the smaller, of one second and itself, doubles without bound and is never reset
(`socks5.go:53`).

## What is not modelled, and why

Reading the configuration (JSON with comments, options, the expansion of patterns, the text
of TTL rules), logging, error wrapping, platform types: stateless or run once, and text or
I/O. Interface binding: reads addresses of the system on a ticker. The accept loops and the
identifiers of connections: a loop with a delay and a compare-and-swap, with no state that
another part reads. The number of shards of the cache and their capacity: arithmetic at
start. The contents of DNS messages, TLS handshakes and HTTP requests: reduced to what the
control flow looks at. `transformIP` is a choice of addresses. File descriptors, handles and
memory the kernel still uses after an error return are not modelled.

## Plan

Done, in this order: `SingleFlight` and its proofs, `LRUCache` and `FreeLRU`,
`DialParallel`, `ForwardTCP` and its proofs, `IPPool`, `Resolver`, `AntiHijackDNS`,
`Policy`, `Tunnel`, `TTLProbe`, `DesyncSend`, `Fragment`, `ClientHello`, `AddrTrie`, `DoHDial`,
`Routes`; then the proofs of `DialParallel`, `AntiHijackDNS`, `Resolver`, `Tunnel`, `Policy` with
`DoHDial`, `ClientHello` with `TTLProbe` and `DesyncSend`, `IPPool`, `FreeLRU` with `LRUCache`,
`Routes` with `AddrTrie`, and `Fragment`.

Left: the parts that are not modelled at all (interface binding, the options' text), and
fairness, should the prover learn it.
