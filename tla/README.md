# A TLA+ model of the gaussdb-node client library

This directory models the stateful parts of the repository (a Node.js client
for GaussDB: pool, client, cursor, replication, protocol), checks them with TLC
and proves what can be proved with TLAPS. `PROJECT.json` lists components, runs,
theorems, the line-by-line map to the source, hazards and findings.

## 1. Inventory

| Component (under `packages/`) | State | Operations | Who it talks to | What makes it correct |
|---|---|---|---|---|
| **Pool** `gaussdb-pool/index.js` | `_clients`, `_idle`, `_pendingQueue`, `_expired`, `_clientHostMap`, four kinds of timer, an idle listener per client, `ending`, `ended` | `connect`, `query`, `release`, `end`, `_pulseQueue`, `newClient`, timers | constructs Clients, gets their callbacks and `error`/`end` events; calls `options.verify`; asks a HostChooser | never more than `max` clients; no request lost, answered twice or waiting beside a free client; what is idle can be lent; `end` ends |
| **Client: queries** `gaussdb-node/lib/client.js`, `query.js` | `queryQueue`, `activeQuery`, `readyForQuery`, `_queryable`, `_ending`, `_ended`, read timers | `query`, `end`, handlers of every message, errors, disconnects | Connection (messages), Query/Cursor (submit, delegates), the program (callbacks) | answers reach their query, each query told once, none dropped |
| **Client: connecting** `client.js` | `_connecting`, `_connected`, `_connectionCallback`, `_connectErrorHandler`, active host, role probe, protocol fallback, timeout | `connect`, authentication handlers, host iteration | Connection, HostChooser, HostStatusTracker, SASL session | connect answered once; only acceptable servers; next host tried |
| **Connection** `connection.js`, `stream.js` | stream, `_ending`, `_connecting`, `parsedStatements` | connect, TLS upgrade, send, end | socket, parser | events in order; errors reported unless disconnecting |
| **Host choice** `host-chooser.js`, `host-status-tracker.js`, `host-spec.js` | statuses with a time to live, a round-robin counter, both shared in the process | `getHostIterator`, `updateHostStatus` | Pool, Client | every candidate once, none missed, stale statuses ignored |
| **Cursor** `gaussdb-cursor/index.js` | `state`, `_queue` of reads, `_rows`, `_cb`, portal | `submit`, `read`, `close`, message handlers | Client, Connection | each read told once; portal closed; client freed |
| **Query stream** `gaussdb-query-stream` | a cursor, stream flags | `_read`, `_destroy` | Cursor | rows in order, destroy closes the cursor |
| **Protocol parser** `gaussdb-protocol/src/parser.ts` | buffer, offset, length | `parse`, `mergeBuffer` | Connection | the same messages however the bytes are split |
| **Serializer** `gaussdb-protocol/src/serializer.ts` | a reused growing buffer | one function per message | Connection | byte layout |
| **Logical replication** `lib/logical-replication/` | message queue, `_lastLsn`, timers, stop flag | subscribe, acknowledge, stop, decode | Client in copy-both mode, the program's handlers | acknowledged only when handled; positions never go back |
| **Cloudflare socket** `gaussdb-cloudflare` | upgrading/upgraded flags, reader, writer | connect, startTls, write, end | Workers runtime | one close, no read on a locked stream |
| **Authentication** `lib/crypto/` | SASL session | three steps of SCRAM, SHA256, MD5 | Client | order of the steps; the server is verified |
| **Options, strings, types, results** | none, or rows only | parsing and conversion | all | stateless |

The behaviours that are hard here are not threads: they are handlers of timers,
`process.nextTick`, socket events and program callbacks that interleave in every
order and that read shared fields again after someone else changed them.

## 2. Modules

| Module | Models | Uses |
|---|---|---|
| `Pool` | the pool: `connect`, `release`, `end`, timers, pulses | |
| `PoolQuery` | `pool.query`, on the pool, beside its other borrowers | `Pool` |
| `PoolLease`, `PoolImplements` | what the pool promises, and the refinement | `Pool` |
| `PoolProofs` | theorems about the clients of `Pool` | `Pool` |
| `PoolOutcomeProofs` | theorems about its requests, about `PoolQuery`, and the refinement | `PoolProofs`, `PoolImplements`, `PoolQuery` |
| `ClientQueue` | the query queue of a client that is connected, with `Query` and the parts of `Connection` it uses, and a server | |
| `ClientQueueProofs` | theorems about `ClientQueue` | `ClientQueue` |
| `HostChooser` | the statuses of the hosts and the order in which they are tried | |
| `ClientConnect` | `connect`, from the first host to the verdict, with authentication, probe, fallback and timer | `HostChooser` |
| `ClientConnectProofs` | theorems about `ClientConnect` | `ClientConnect` |
| `Cursor` | a cursor, the part of the client that feeds it, a server with a portal | |
| `QueryStream` | a stream over its cursor | `Cursor` |
| `QueryStreamProofs` | theorems about `Cursor` and `QueryStream` | `QueryStream` |
| `LogicalReplication` | the replication service, its handler loops, a slot of the server, crashes | |
| `LogicalReplicationProofs` | theorems about `LogicalReplication` | `LogicalReplication` |
| `ParserBuffer` | the buffer of the protocol parser and its parse loop | |
| `ParserBufferProofs` | theorems about `ParserBuffer` | `ParserBuffer` |
| `Connection` | a connection over its socket: SSL, errors and end, on Node and on Cloudflare | |
| `ConnectionProofs` | theorems about `Connection` | `Connection` |
| `MC*` | the instances of each that TLC checks | |

Definitions whose comment begins with "Mutation of" are the mistakes the
properties are tested against: `PROJECT.json` pairs each property of each passing
run with one, and TLC finds the property violated when it replaces the original.
They are not part of `Spec`.

### Pool

A handler runs to its end without interruption, so one action is one handler with
everything it calls, `_pulseQueue` last. `_pulseQueue` is always the last thing a
handler does, after the lists were changed; that is why `PulseQueue`, `DoRelease`
and the operators below them take the lists as parameters (`cs`, `is`, `cl`: the
values of `_clients`, `_idle` and of the client objects at that point).

| State | Code |
|---|---|
| `clients`, `idle`, `pendingQueue` | `_clients`, `_idle`, `_pendingQueue`; the first two as sets, see below |
| `client[c].stage`, `.req` | where a client is in its life, and the request on whose behalf |
| `client[c].host` | `_clientHostMap` |
| `client[c].live` | `_queryable && !_ending`, what `_release` asks |
| `client[c].uses`, `.expired` | `_poolUseCount`, `_expired` |
| `client[c].idleTimer`, `.lifeTimer`, `.connTimer` | the three timers of a client |
| `client[c].listeners` | how many copies of its `idleListener` are attached |
| `reqTimer`, `timedOut` | the checkout timer of a queued request and `PendingItem.timedOut` |
| `calls[r]`, `endCalls` | how often the callback of a request, of `end`, was called |
| `ticks` | pulses given to `process.nextTick` and not yet run |

A connection that fails calls `newClient`'s callback and may call it again:
`client.js:178-188` does not forget the callback, and what fails afterwards, the role
probe (`client.js:457-461`, `592-595`) or a late password, finds it. Stage `failed` is a client whose
callback may still come (`ConnectFailsAgain`), `refailed` one whose second call has come. The
closure of `newClient` has no guard: it pulses, attaches the idle listener once more and calls the
request back a second time. A client that balances hosts itself forgets its callback
(`_finalizeConnectFailure`) and goes to `gone` at once.

Node runs all ticks before the next timer or socket event: those actions have the
guard `ticks = 0`. The program's own calls (`ConnectRefused/Queued/New`,
`Release`, `EndedByHolder`, `End`, the answer of `verify`) have no such guard:
they may come from inside a callback.

Abstractions, all of which allow more than the code does: any idle client may be
lent where the code takes the last one pushed; with load balancing a pulse may
select any host or none; a connection may succeed or fail at any time, and an
`error` event may come at any time after it was made. A request is made once, a
borrower releases once (a second release throws, `_releaseOnce`), and calls of
`release` through a stale `client.release` property are outside the model.

Checked by the runs: `SizeBound`, `NoLostWakeup`, `IdleUsable`, `OneOutcome`,
`ShrinksOnceEnding` and, by way of `PoolQuery`, `EndCompletes`, and the refinement
`ImplementsLease`; each is explained where it is defined. `HeldUnheard` says of a client that somebody holds that no idle listener is left on it,
and `OneOutcome` holds a request to one answer, or two of a connection that failed twice, which
never gets a client. `Accounting` and `EndsOnce` are conjuncts of the proved invariant.
The subtle one is `NoLostWakeup`: idle timers, errors and failed connections remove clients without a pulse, or with a single one, while several
requests wait. No request is stranded because a request is queued only when the
pool is full or an idle client exists, and in the second case a pulse is scheduled
for it: the number of pulses, or of clients in use, always makes up for the
places that were freed.

### PoolLease and PoolImplements

`PoolLease` is what the pool promises to somebody who knows nothing of its lists,
timers and pulses: a request is asked, then answered at most once, with a client
that nobody else holds or with an error, of which some (`again`) may be told once more; at most `max` clients are lent; the end is
reported once, when every client has come back, and nothing is lent after it. In
`PoolImplements` a request has a lease on the client that is checked out for it, its failure may be
told again while its client is `failed`, and
each step of each of the pool's handlers, pulse and release included, is a step of
`PoolLease` or changes nothing of it. With `options.verify` the pool does not keep the
promise (a request may be answered twice, section 4), so the refinement is
claimed of pools without it. That requests are answered at all is liveness and
belongs to `pool_query`.

### PoolQuery

| State | Code (the closures of `query`) |
|---|---|
| `heard` | how often the callback of `connect` of each query has run |
| `uses` | the client in the closure |
| `busy` | those whose `client.query` has not called back |
| `listening` | those whose `onError` is attached to the client |
| `released` | `clientReleased` |
| `told` | calls of the query's callback |
| `threw`, `faults` | history: `client.query` threw; `onError` released a second time, which throws |

The pool's steps are those of `Pool`; the requests in `Queries` are made by
`pool.query`, the others by borrowers. The callback of `connect` runs inside the handler
that answers the request, after all the rest of it, so nothing else happens while a
query is to be called back (`Quiet`). An `error` event of a client in use by a query is
`QueryHearsError`. What the client does with the query is `ClientQueue`'s; here its
callback comes at some time or `client.query` throws. `verify` together with a checkout
timer is excluded, because `connect` may then call back with a client after it called back with
an error (section 4). A second call with an error is not excluded: the query is told twice.

Properties: `QueryOutcome` (told once, or twice of a failure reported twice, the client given back by then and once, no
`onError` left on a client that goes to others), `QueriesTold` and `EndCompletes`.

### ClientQueue

A handler is cut where it calls the program: the callback of a query may call
`query` and `end` before `_pulseQueryQueue` runs (`rest`). The parser delivers all
messages of a chunk in one run (`reading`), and ticks run only after it.

| State | Code |
|---|---|
| `queryQueue`, `activeQuery`, `readyForQuery`, `queryable`, `ending`, `ended`, `connecting` | the fields of the Client |
| `connEnding` | `connection._ending` |
| `query[q]` | a Query object: its kind, calls of its callback (`told`), with what (`got`), its read timer, whether a timeout replaced its callback, `_canceledDueToError` |
| `ticks` | the nextTick queue: tell a query of an error; finish a refused query; emit `end` |
| `stream` | the socket: open, Terminate written, destroyed, closed |
| `server` | the server's session: which query it runs and what it owes |
| `fault` | a handler dereferenced a null `activeQuery` |

A query is of one of four kinds: plain (simple protocol, or extended with Sync in
the pipeline), paged (`rows` set), refused by `submit`, or unbindable (a value
mapper throws after Parse was sent). The server is external: it executes one query
at a time, ignores what comes after Terminate and says nothing until it has read
a Sync. Messages in flight are not queued: as the client submits only after
ReadyForQuery the server's reaction may be chosen when it is delivered. Errors and
disconnects before the first ReadyForQuery belong to `ClientConnect` and do not occur
here. Queries without a callback, `cancel`, the `drain` event and the names of
prepared statements are left out. After a fault the model goes on as a process
with an `uncaughtException` handler does.

Checked by the runs: `AnswersMatch`, `OnePlace`, `AnsweredOnce`,
`ResultsInOrder`, `FaultOnlyAtShutdown`, `QueriesAnswered`, `EndCompletes`. `AnsweredOnce` leaves out unbindable queries: they stay active
after they were told, and the end of the connection tells them again.

### HostChooser and ClientConnect

Again one action is one handler. `ClientConnect` follows one client through
`connect`; `HostChooser` is what the process knows of the hosts, and stands in any
state other clients may have left when `connect` is called.

| State | Code |
|---|---|
| `status`, `fresh`, `counter` | `statusMap`, whether an entry is younger than `hostRecheckSeconds`, `getRoundRobinCounter` |
| `connecting`, `connected`, `connectionError`, `ending`, `ended`, `queryable`, `rolePending`, `skip`, `fallback` | `_connecting`, `_connected`, `_connectionError`, `_ending`, `_ended`, `_queryable`, `_roleProbePending`, `_skipDueToRole`, `_protocolFallbackAttempted` |
| `handler`, `timer`, `callback`, `told` | `_connectErrorHandler`, `connectionTimeoutHandle`, `_connectionCallback`, and what each call of connect was told |
| `todo`, `host`, `provided` | the hosts left of the iterator, `_activeHostSpec`, `_clientProvidedConnection` |
| `conn`, `sock`, `live` | which connection object is current, its socket, the connections whose socket is up |
| `session`, `work` | `saslSession` and promises of the password and SASL steps not settled yet |
| `queue`, `active`, `ready` | as in `ClientQueue`, with the role probe as one more query |
| `srv`, `ran` | what the server does on the current connection and which query it has received for later, and where queries were run |
| `ticks` | `process.nextTick`: the next host, the second connect, queries to be failed |

The streams of earlier connections are destroyed, and handlers ignore their events
(`con !== this.connection`), but their promises and the query sent over them live
on: a password that arrives late is written to the connection there is then. A probe
whose `query_timeout` fired stays the active query, `Late`. `connectionError` is
what makes the handlers of a failed connection silent, and is reset per host. The
cryptographic part of SASL is reduced to whether the answer and the server's
signature are right. A query of `ClientConnect` is plain; `ClientQueue` has
the rest.

`readyForQuery` outlives a connection. When a host was left for its role after its probe
was answered, the client is still ready, so the probe of the next host is written as soon as it is made,
inside the handler of that host's first readyForQuery (`client.js:458`), which then takes the probe for the query that has just
ended (`client.js:497-501`): the host is left without a role (`ReadySkips`), and so is every
later one. A later host is connected to only if a query asked meanwhile has
used the stale readiness up, or if the earlier host failed otherwise. Such a query may be written to a
socket before the startup message; a server that gets what it has not asked for is `astray`.
The fallback to protocol 3.0 is only a second connection here: the version is ignored by the
serializer.

Properties: `OneVerdict` (connect is told success once and only if the client is
connected; the timer is off after the verdict), `NoLeak` (at most one socket is open,
none after a failure), `ConnectsToRole` (success means that the role is the one
asked for, unless the probe was answered over an earlier connection),
`ResultsAreReal` (a result is never told of a query no server ran), `TriesUnknown`
(a host of which nothing is known is never left out), `ConnectAnswered`.

### Cursor and QueryStream

| State | Code |
|---|---|
| `state`, `queue`, `cb`, `rows` | `state`, `_queue`, `_cb`, `_rows` |
| `immediates` | callbacks given to `setImmediate` |
| `told`, `given` | how the callback of each read was called, with which rows |
| `closing`, `ended`, `active` | the callback of `close`; `end` was emitted; `client.activeQuery` is the cursor |
| `srv` | the server: its portal, rows sent, whether it skips to Sync, and its messages on the way |
| `hwm`, `buffer`, `nulled`, `taken` | the Readable: high water mark, rows held, null pushed, rows consumed |

The server answers requests in order, so its messages are put on the wire when the
request is written and delivered later, one by one, with callbacks between them.
The statement may have rows, none, be empty, be refused at Parse or fail at Execute.
The program reads when its last read was told and closes once, at any moment; the
connection may be lost at any moment. An error of the server that finds the cursor no longer
active is the client's (`StrayError`).

Properties: `StreamExact` (pages of a cursor and rows of a stream are the rows of the
statement in order, all of them at the end, and a slow consumer never makes
the stream hold two pages), `PortalClosedAtEnd` (no portal is left open, by exactly
one Sync if the program does not close early), `ReadAnswered`,
`CloseAnswered`, `StreamFinishes`.

### LogicalReplication

| State | Code |
|---|---|
| `lastLsn`, `lastReceive`, `lastFlushed` | `_lastLsn`, `_lastReceive`, `_lastFlushed` |
| `queue`, `processing`, `paused`, `loops` | `_messageQueue`, `_processing`, the socket, and the running calls of `processNext` with the record each awaits the handler of |
| `phase`, `then`, `session` | `_stop`, `_client`, `_connection`; what is to be done after an await |
| `recent` | `_lastStandbyStatusUpdatedTime` within the interval |
| `sent`, `confirmed` | the server: what the session has sent, the slot's flushed position |
| `config` | flow control, automatic acknowledgement, interval, and a program that keeps its own position (`setFlushedLsn`, `subscribe` with a position) |
| `begun`, `done`, `given`, `interrupted` | history: records given to handlers and handled, and whether `stop` was called while a handler ran |

A chunk is records with keepalives between and behind them: the parser's loop goes on to its
end although the first record's handler has paused the socket (`XLogData(n, k)`, with the last
keepalive that asks for an answer behind record `k`).
`stop` during a handler leaves its loop running: `loops` is a set. A handler that
throws is followed by the next record without an acknowledgement. A crash loses the
service but neither the slot nor what the program has done. LSNs are records of the log; transactions
that overlap, whose records carry earlier LSNs, are not modelled.

Properties: `QueueExact` (what waits is exactly what was received since the last
record given to a handler, in order; with flow control and no `stop` in a handler never
more than the rest of one chunk, and the socket is paused exactly while a handler
runs), `FlushedCovers` (a program that reports its flushed position is never
acknowledged past it), `NothingSkipped` (over stops, lost connections and crashes no
record is skipped), `RecordsArrive`, `SlotFollows`.

### ParserBuffer

Bytes are positions of the stream, so that a byte in a buffer tells where it came
from; a message is recognised by its header bytes. `mergeBuffer` is modelled with
its three outcomes (in place, moved in the same buffer, moved to a larger one), `parse` with its loop and
with an exception out of the callback. `MessagesExact` says that each message is heard once, in
order, as soon as its last byte is there, that the rest is kept, and that the buffer
grows with the largest message only, and with the chunks that wait to be parsed again after
an exception: a call that throws consumes nothing of its chunk. `HeaderLength` is 2 here (5 in the code): nothing
depends on its value except that a header may be split.

### Connection

`stage`, `tcp`, `writable`, `asking`, `listeners`, `ending` and `upgrading` are the progress of
`connect`, the socket, `stream.writable`, the `once('data')` listener, how often
`reportStreamError` is attached, `_ending` and the socket's `_upgrading`. `runtime`
chooses the stream of `stream.js`: Node's sockets, or `CloudflareSocket`, which reports
a failure without a code, is `writable` once connected whatever becomes of it, and takes
the callback of `write` for an encoding when the call has two arguments. A Node socket whose
stream was ended is `half` closed and emits 'close' when the server ends its side too, or
fails. A Cloudflare socket whose `startTls` threw is `stranded`: its writer was released and `_upgrading`
is set, so nothing can be written and its 'close' is taken for that of the plain socket. The import of
the Cloudflare module or its connect may fail (`ImportFails`). Properties: `OnlySecured`,
`EndIsLast`, `FailuresReported`, and `EndArrives`: 'end' follows `end()` on Node given a server
that hangs up when it is told to terminate, except on a connection that was refused, which waits for the
server alone; on Cloudflare it takes a socket that does not fail, a call after the socket was made and a
`startTls` that did not throw.

## 3. Runs

All runs have `CHECK_DEADLOCK FALSE`: the program makes finitely many requests,
queries, reads or subscriptions, and the system really stops when they are used up.

| Run | Instance | Shows |
|---|---|---|
| `pool_core` | 4 requests and clients, max 2, min 1, maxUses 2, 2 balanced hosts, all timers | no lost wakeup, one outcome, only shrinking at the end, the refinement of `PoolLease` |
| `pool_verify` | 3 requests and clients, max 2, maxUses 2, `verify`, all timers | `verify`, also when it answers after the checkout timer, leaves usable idle clients, at most `max`, and no idle listener on a client in use |
| `pool_query` | 2 calls of `pool.query` and a borrower, max 1, maxUses 2, `verify`, idle timer, no checkout timer | each told once (twice of a failure reported twice), clients given back once, nobody waits for ever, `end` completes |
| `queue_core` | 3 queries of all 4 kinds, timeouts, two `end` calls | five safety properties; every query and every `end` answered, whatever the server does |
| `connect_core` | 2 hosts, off and round robin, any, master and preferSlave, 1 query, any earlier statuses | one true verdict, no leaked socket, the role asked for, unknown hosts tried, results are real |
| `connect_live` | 2 hosts, off and shuffle, master, 2 calls of connect | connect is answered whatever servers do |
| `stream` | cursor and stream, 5 kinds, 0 to 4 rows, pages of 1 to 3, 5 reads | exact rows, closed portals, answered reads and closes |
| `replication` | 3 records, chunks of up to 2, 2 subscriptions, 1 crash, all options | exact bounded queue, safe acknowledgements, progress |
| `parser` | streams of up to 3 messages of 2 to 4 bytes and one of 10 messages, chunks of up to 4, 2 exceptions | exact messages, bounded buffer |
| `connection` | both runtimes, with and without SSL, all answers | no startup in the clear, errors and end reported, if the server hangs up when told to |

Runs that end in a violation:

| Run | Statement | What the code does |
|---|---|---|
| `pool_below_min` | `docs/pages/apis/pool.mdx`: idle timeouts do not destroy the last `min` clients | the timer does not ask `_isAboveMin` again |
| `replication_acks` | `logical-replication-service.js:35`: without `auto`, acknowledge is done manually | a keepalive acknowledges `_lastLsn` whatever `auto` says |

**Bounds.** Two places in the pool and three or four requests let one client be
lent, one be idle and one request wait while a pulse is pending, and let a request
wait behind another; `MaxUses` 2 lets a client be used up on the second use; four clients let
every request fail to connect, once or twice. Symmetry over requests and clients is used in
`pool_core` and `pool_verify`, which have no liveness property. Three queries give one active, one queued and one
asked later from a callback; queries are numbered in the order they are made, so
no symmetry is needed. Two hosts are a first and a next one, which is all that the iteration of
`connect` distinguishes, and two calls of `connect` a first and a refused one. A cursor of four rows and pages of one to three has
full, short and empty last pages; five reads reach the end of it in pages of one. Three records in chunks of
two put one on the queue beside one being handled and leave one for another session.
`MaxCrashes` 1 lets a restart meet every state. Streams of three messages with chunks
from half a message to two meet all outcomes of `mergeBuffer`; the stream of 14
messages is there for the growth of the buffer. `MaxEnds` bounds the calls of `client.end`, `MaxReads`, `MaxSessions`,
`MaxThrows` and `MaxCalls` those of `read`, `subscribe`, an exception, `connect`.

**Fairness.** `Pool!LoopFairness`: ticks run, a connection attempt is answered
(the socket connects, fails or times out), `verify` answers, timers fire.
`PoolQuery!QueryFairness` adds that callbacks run, that a client calls back for its query
(what `queue_core` shows of `ClientQueue` with `query_timeout`) and that borrowers release, which is
the program's duty. Idle,
lifetime and connection timers, and errors, are never assumed to happen, nor is the second report of a failed connection.
`ClientQueue!LoopFairness`: chunks end, handlers go on, ticks run, a destroyed
socket closes, a server that reads Terminate while not busy closes; timers
fire between chunks however many chunks come (strong fairness: Node looks at its
timers in each turn of the loop). `ClientConnect!LoopFairness`: ticks, the connection timer (strong, for the same
reason) and the events of destroyed sockets; nothing of servers, networks or promises.
`QueryStream!Fairness`: the client submits, the server answers (what it was sent), immediates run, the
Readable reads while its consumer takes; a program that reads a
cursor need not. `LogicalReplication!Fairness`: the server sends what it has, handlers end or throw, the
interval fires; `stop`, `subscribe` and the completion of connect are not assumed.
`Connection!Fairness`: sockets connect or fail, write, and close once both sides have ended, and a server
that is told to terminate hangs up: the code relies on it (`client.js:895-901` destroys the socket
only while a query hangs).

## 4. Disagreements found

Besides the two violation runs, these statements of a comment, document or test do
not hold of the code. Each is a definition, with its quotation, in the module; to see the
counterexample, check it in the place of the properties of the run.

| Definition | Run | What happens |
|---|---|---|
| `Pool!EndedAnswersAll` | `pool_core` | `end()` finishes with requests in `_pendingQueue`, which nobody answers; `pooling.mdx:102-103` prints the query's result before "pool has drained" |
| `Pool!CalledOnce` | `pool_core` with `Verify = TRUE` | the checkout timer answers a request while `verify` runs, then `verify` answers it again; `connection-timeout.js:218` verifies "the callback is only called once" |
| `Pool!CalledOnce` | `pool_core` | the server hangs up during the role probe of a client with one host: `client.connect` calls back twice with an error, and the pool answers the request, and `pool.query` its caller, twice; the same test says once |
| `PoolQuery!NeverTwice` | `pool_query` | after `client.query` throws, `onError` stays on the removed client, and a later `error` of it calls `release` again, which throws |
| `ClientQueue!SyncsAfterError` | `queue_core` | a query with `rows` that fails sends no Sync (`query.js:123`), so the server never becomes ready |
| `ClientQueue!QueriesAnswered` | `queue_core` with `LiveSpec`, `Timeout = FALSE` and `Kinds <- WithUnbindable` | after a query whose values do not serialise the next one waits for ever (`1854-tests.js:6`) |
| `Cursor!OneSync` | `stream` | `close` while a failing statement's error is on the way sends a second Sync, whose readyForQuery meets the client's next query |
| `QueryStream!ErrorAnswered` | `stream` | the read held in `_cb` when the server rejects the statement is never told (`handleError` calls `_rowDescription` in its place) |
| `QueryStream!EndAfterRows` | `stream` | the stream emits 'end' when the cursor does, with rows still in its buffer |
| `LogicalReplication!OneAtATime` | `replication` | `stop` and `subscribe` while a handler is awaited start a second loop beside the first |
| `ParserBuffer!ViewsStable` | `parser` | moving the rest to the front of the same buffer overwrites bytes that copy data of earlier messages are views of |
| `Connection!ReportedUnlessEnding` | `connection` | after the first query a reset is not reported as an error, though `end` was not called: `sync` sets `_ending` |

The properties that runs check are stated around these cases, and say so.

## 5. Proofs

Every theorem is proved for all values of the constants that the named assumptions
of its component's module allow, whatever the number of hosts, clients, requests, queries,
calls, rows, log positions and crashes. The assumptions say that sizes and counts are
naturals (positive where the code divides or waits for one), that flags are Booleans
and that null values lie outside the sets they complete; TLC evaluates them on
every run. A theorem about one option only has it as a hypothesis
(`PoolImplementsLease`: `~Verify`). Each inductive invariant was checked by TLC on the
instances of its runs before it was proved.

| Module | Inductive invariant | Properties of the runs that follow |
|---|---|---|
| `PoolProofs` | `PoolInv` | `SizeBound`, `IdleUsable`, `HeldUnheard`, `ShrinksOnceEnding`, `NoLostWakeup` |
| `PoolOutcomeProofs` | `OutcomeInv`, `QueryInv` | `OneOutcome`, `ImplementsLease`, `QueryOutcome` |
| `ClientQueueProofs` | `QueueInv`, `OutcomeInv` | `AnswersMatch`, `FaultOnlyAtShutdown`, `OnePlace`, `AnsweredOnce`, `ResultsInOrder` |
| `ClientConnectProofs` | `ConnectInv`, `RolesKnown`, `Unhosted`, `Shaped`, `Answered` | `OneVerdict`, `NoLeak`, `ConnectsToRole`, `TriesUnknown`, `ResultsAreReal` |
| `QueryStreamProofs` | `StreamInv`, `StreamRows` | `PortalClosedAtEnd`, `StreamExact` |
| `LogicalReplicationProofs` | `ReplicationInv` | `TypeOK`, `QueueExact`, `FlushedCovers`, `NothingSkipped` |
| `ParserBufferProofs` | `ParserInv` | `WithinBuffer`, `MessagesExact` |
| `ConnectionProofs` | `ConnectionInv` | `OnlySecured`, `EndIsLast`, `FailuresReported` |

### The clients of the pool (`PoolProofs`)

*The invariant.* No property is inductive alone: that an idle client is usable
needs that its listener was removed when it was lent, that its stage and the two
lists agree, and that nothing is idle once the pool is ending. `PoolInv` joins
the typing of all variables, `PoolOK` of the lists and client objects (each
client's record satisfies `RecordOK`, which ties stage, listeners, liveness, use
count, expiry and timers together; `_clients` and `_idle` are the sets of clients
in the right stages; the size bound), and the facts about `ending` and `ended`.

*The argument.* A handler changes the lists several times before it ends, so
`PoolOK` is stated of the triple (`cs`, `is`, `cl`) a piece of a handler hands on.
One lemma per operator on client objects (`UpdateOK`, `RemovedOK`, `LentOK`,
`LaunchedOK`) shows it preserves `PoolOK`; `DrainOK`, `ServeOK` and `PulseOK` lift
this to `_pulseQueue`, `ReleaseOK` to `_release`; each action then has a lemma
that names the piece it ends with, and `PoolInvariant` combines them. For
`NoLostWakeup`, `Covered` is the property of a triple with a number of ticks;
`PulseWakes` shows that a pulse which spends a tick, or which follows the loss
of one client, restores it, and `ReleaseWakes` the same for `_release`.

### The requests of the pool (`PoolOutcomeProofs`)

*The invariant.* `OneOutcome` says what was answered; what keeps it is where the
unanswered requests are. `Outcomes` says that a request which was asked for waits in the
queue once, or is worked for by exactly one client, or is answered; that a client says
by its stage which of these holds of its request, and how often it was answered: once while the client is
`failed`, once or twice when it is `refailed`; that nobody else has two answers (`Answered`); and
that a checkout timer is armed only for a request that was asked for and not answered. `OneOutcome` and
`TimersMatch` follow from it and `PoolInv`.

*The argument.* As for the clients, `Outcomes` is stated of the values that a piece of a
handler hands on. Four lemmas name what such a piece may do: leave the work as it is
(`SameWork`), finish it with an answer (`DoneWork`), hand a client over (`HandWork`),
take a request off the queue (`TakeWork`); `HandOn` is the common part of those that keep the request's
client, a failed one included. `_pulseQueue`, `_release` and each handler
are then one or two of these.

*The refinement.* `PoolLease` keeps the requests, their answers, who holds which client, and
whether the pool is closing or closed. A handler that ends with a pulse changes them twice, once itself
and once by what the pulse lends, and the lease machine must account for both in one step:
`PulseLeases` shows what a pulse adds, `ReleaseLeads` what `_release` takes away and then
adds, and each handler's step is then a step of `PoolLease` or a stutter. What a handler tells of failures, `FailsOn`,
is a request that waits or one whose failure may be told again (`AgainOf`). With
`options.verify` a request may time out and be answered again
(`pool_verify`), so the theorem has `~Verify` as its hypothesis.

### pool.query (`PoolOutcomeProofs`)

`pool.query` uses the pool as any borrower does, so `PoolBegins`, `PoolGoesOn`,
`OutcomeBegins` and `OutcomeGoesOn` give the pool's invariants under `QuerySpec`. What the
queries add is `QueryOK`: a query at work has been told nothing and holds a client of its
own that is out on its behalf; one that has released, or was refused, holds none and was told, no more often
than it was called back (`told`, `heard` and `calls` are in this order); a second
release comes only from a query whose `client.query` threw; `onError` is attached only for a
query that has not released, to a client that it holds or that is removed. The proof of a handler needs one fact about the pool,
`Around`: a client the handler does not concern stays with its holder, a removed one
stays removed, and one that is lent goes to a request that was never called back
before. That a query which holds a client was called back once (`HolderCalledOnce`) is what keeps the second
report of a failure from a query at work. `QueriesKeepThePool` states `SizeBound`, `IdleUsable` and
`OneOutcome` again, now beside queries.

### The query queue (`ClientQueueProofs`)

*The first invariant.* `AnswersMatch` is not inductive: a query is submitted by
whichever handler finds the client ready, and readiness travels from the server's
ReadyForQuery to `readyForQuery`, to the tick of a query that `submit` refused, and
from there to the rest of the handler that ran the tick. `OneReadiness` says that it
is in one of these places only and that the server has nothing to answer meanwhile;
`Matched` that the answer finds its query active as long as chunks can arrive; `Taken`
that a queue beside a ready client is about to be taken up; `Closed`
what the 'close' event leaves; `Refused` that the tick of a refused query finds it
active unless the session was terminated. `QueueInv` is their conjunction with
`TypeOK`.

*Its argument.* `PulseCases` lists what `_pulseQueryQueue` can do, `PulseKeeps` that a
handler which ends with it keeps `QueueInv` if the flag it pulses with implies that
the server is done and no refused query is left; `Ask`, `GoOn` and
`QueryTimeoutFires` meet that condition. `ServerMoves` does the same for the messages of a running
statement, `HandleErrorEventLeaves` for errors of the connection, and four lemmas
on sequences follow the tick of a refused query through the tick queue.

*The second invariant.* `OutcomeInv` follows each query: `Settled` says that a query that
was made is on the queue, active or told in a tick, in one of these places and once
(`Placed`), that it was told nothing before (`Untold`), that the queue is in the order of the calls and what
precedes the active query was answered (`Preceded`), and that nothing is left of a query
that is over (`Final`). `Accepting` says that a client that still accepts queries has
none whose answer is pending in a tick and was not given by its timeout; `Executed`
that rows exist only of a query the server ran. It is inductive relative to `QueueInv`.

### Establishing a connection (`ClientConnectProofs`)

*The invariant.* `ConnectInv` has five parts. `CallsTold`: which calls of `connect` were
told what, and that a call which waits to be refused in a tick was not the first.
`Trying`: as long as a socket is up or about to fail, a tick is to try the next host or the
`close` handler may still choose one, the first call is unanswered or the client is connected;
this is what makes the verdict one. `OneNext`: at most one tick tries the
next host, and only after the connection failed. `OneProbe`: the role probe is active, queued
or failing, in one of these places, and only while a role is asked for.

*The argument.* An error of the connection, the `close` event and the timer each clear a
different part of the state. The pieces they share have a lemma each (the error callbacks
of the queue, the answer of `connect`, the next host), and each action is one or two of them. `RolesKnown` then says what the status of a host may be
when the probe has been answered over the current connection, from which
`ConnectsToRole` follows. For `ResultsAreReal`, `Matched` says that what the server is
at is what the client's `activeQuery` waits for, on the connection it was sent on; `Answered` restricts it, as
the property is, to clients that never leave a host for its role, because what the
server of a host that was left had to say may still be under way.

*The hosts that are tried.* `TriesUnknown` speaks of one step, and of everything the
chooser does in it. `OnlyIs` says of the filters of `HostStatusTracker` that they keep the hosts that pass and no
other, `RoundRobinHas` and `ShufflesHave` that a rotation and a shuffle lose none and add
none (a shuffle is injective into as many hosts as it has places, so it is onto), `CandidatesAre` what it
means that there is a candidate or none. `WhoCalls` says that only the first call of `connect` sets
the first host and counts, so that `Unhosted` (no host before that call) is invariant.

*The types.* `Shaped` adds to `ConnectInv` what the types need: a client without a
host stays asleep (`Asleep`), so statuses are recorded of hosts only, and the number of connections made
plus the hosts still to be tried plus a fallback still allowed does not exceed that of the hosts
plus two (`Numbered`), which bounds `Conn`.

### Cursors and streams (`QueryStreamProofs`)

*The invariant.* `PortalClosedAtEnd` speaks of the end only. `Begun` says when the portal
may be open: while the cursor is submitted, idle or busy, and before any Sync; and that there is no
ReadyForQuery without one. `Once` concerns cursors that were not closed early: before
the Sync at most one request is under way, an answer of the server is the last message of what it sent, what
waits in `setImmediate` is what that stage allows (`Running`), and after the one Sync
nothing but its ReadyForQuery comes (`Over`).

*The argument.* Lemmas say of each operator on the server's session what it appends and
which flags it changes (`SyncedSession`, `PreparedSession`, `ExecutedSession`), and each handler
of cursor and stream takes the invariant through `Running` and `Over` by whether it sent
the Sync.

*The rows.* `StreamExact` compares the pages that reads were given with the rows of the
statement, and says nothing of the rows that are on their way. `StreamRows` does: there are
numbers `u` such that the first `r` reads have the first `u[r]` rows (`Pages`), and the rows after
them are, in their order, in `_rows` and in the server's messages for the one read that waits
(`Delivery`), the reads have them all when `end` was emitted (`Finish`), and the stream's
consumer and its buffer have what the reads were given, less than two pages of it in the buffer,
and everything when null was pushed (`Held`). `Ordered` joins `StreamInv` with what it leaves open about
messages and callbacks. Each handler has a lemma that says where it moves
rows, from the server to `_rows`, from there to a read, from a read to the buffer; `Flattened` shows
by the first page at which it fails that pages which follow one another are, one after the other, the rows from the
first to the last.

### Logical replication (`LogicalReplicationProofs`)

*The invariant.* `Ordered`: what waits is the interval of the log between the last record
that was given and the last that was sent. `Paced`: with flow control and no interrupted handler, one
loop runs, the stream is paused exactly meanwhile, and less than a chunk waits. `Covered`: every
position the service or the slot knows has been handled, for programs that report
theirs, or was given, without flow control. `Gapless`: what was given to handlers has no gaps and ends where the stream is.
`FlushedCovers` alone is not inductive because a crash forgets all but the slot: the
position the next session starts from must be covered before the program reports anything.

*The argument.* `Max` and `Position` are defined by `CHOOSE`, so `MaxOf` shows by the well-founded order of
finite subsets that a set of positions has a last one, and `PositionReaches` that everything up to
`Position` is in the set. Each handler then has one lemma for each part it disturbs.

### The parser (`ParserBufferProofs`)

*The invariant.* `MessagesExact` speaks of states in which no call has thrown last;
after an exception the buffer begins at a message that was heard already, and the next call
hears it again. `ParserInv` says for every state that there is a message `k` such that what is
kept begins right behind it (`Follows(k)`), that the messages up to `k` have been heard and none
that is not complete, that `k` is the last complete one unless the last call threw, and
that what is kept is shorter than the longest message plus a chunk for each exception
(`Bounded`). The bound of the buffer is proved from that; without the exceptions in it, it is
false as soon as callbacks throw twice.

*The argument.* Where messages begin, the doubling of a buffer's size and the loop of `parse`
are recursive functions. For each of the three an existence lemma (`SomeBegins`, `SomeGrows`,
`SomeCuts`) takes the first argument up to which no function satisfies the equation, or the
last from which none does (`LeastOf`, `GreatestOf`, by the well-foundedness of the naturals), and extends
the function for its neighbour; what the function yields is then shown in the same way
(`StartIs`, `DoubledIs`, `ParsedBy`). `MergedIs` says that after `mergeBuffer`, in each of
its three outcomes, the buffer holds the rest and the chunk next to each other; `HeaderIs` that
a header is recognised there exactly if it lies in the buffer completely; `ParsedIs` that the
loop finds the complete messages and no other. `KeepsRest` and `HearsFound` carry this through
the end of `parse`.

### Connections (`ConnectionProofs`)

`Listened` counts the socket's listeners (two only on Cloudflare after the upgrade),
`Secured` says that the startup message of a client that wants SSL follows the server's
consent, and `Ended` that `end` was emitted with the socket closed, once, and last on Node.
A socket that is half closed was ended here, and one that is stranded belongs to Cloudflare.
`FailuresReported` is an action property: its proof counts events with `CountsOne`.

### Only model-checked

- Liveness (`ConnectAnswered`, `QueriesAnswered`, `EndCompletes`, `QueriesTold`, `ReadAnswered`,
  `CloseAnswered`, `StreamFinishes`, `RecordsArrive`, `SlotFollows`, `EndArrives`): fairness and ENABLED are out of the
  prover's reach.

Every other property of a passing run is stated by a theorem: all invariants, all action
properties and the refinement.

## 6. Plan

The safety properties of the runs are proved. What could follow:

1. Properties for the hazards that have none: the values of earlier messages that share the
   buffer which `mergeBuffer` overwrites, and the host that `_configWithHost` hands on beside a
   `connectionString`.
2. An abstract specification of the query queue, as `PoolLease` is one of the pool: queries
   are answered in the order of the calls, and `ClientQueue` implements it.
3. `cancel` and a Client that is used again after a failed connect.

## 7. Not modelled, and why

- Byte layout of messages (serializer, message bodies), parsing of connection strings
  and values, result objects, cryptographic primitives: stateless functions on data for
  which a model says no more than the code.
- `cancel`, the `drain` event, names of prepared statements, queries without callbacks.
- A Client that is used again after a failed connect; `loadBalanceMode` leastconn and
  priority (both throw at once).
- `cursor.end` (deprecated) and a read while another one is under way.
- In the replication service: overlapping transactions, `stop` while `connect` is
  awaited, and the decoding of records by the plugin.
- `startTls` called twice, `ref` and `unref`; the documentation site, examples and tests.
