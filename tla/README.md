# Formal model of socket-cloud

socket-cloud is a websocket publish/subscribe server: a master process forks one worker per
CPU, each worker accepts websocket connections and speaks the *default protocol* (channels,
messages, cached messages) over them, and the workers share configuration and messages
through the master (IPC) and through SQLite tables. This directory holds TLA+ modules of its
core, the TLC configurations that check them, and TLAPS proofs. Paths below are relative to
`src/src/lib/` unless they start with `src/`.

    tlc -workers 2 -config MCKeepAlive.cfg MCKeepAlive.tla   # one run
    tlapm WebsocketProofs.tla                                # one proof module

## 1. Inventory

Every process is one JavaScript thread: a handler runs without interruption from one `await`
(or callback) to the next, and everything else can run in between. That, the sockets, the
IPC channels and the timers are the concurrency there is.

| Component | State | Operations | Interacts with | What makes it correct |
|---|---|---|---|---|
| `websocketConnection` (`WebsocketConnection`, `IncomingMessageBuffer`, `OutgoingMessageBuffer`) | connection state; outgoing queue, its "busy" flag, the frame half written; fragments gathered, frames in post-processing | `send`, `close`, incoming frames, `drain`, socket error and close | extensions (may fail), the peer, listeners of data/state/error | order on the wire, nothing after the Close frame, `close()` flushes and then ends the socket, messages delivered in order without a gap, state only advances |
| `KeepAliveManager` | two timer ids | ping timer, error timer, incoming frame, stop | outgoing queue (a ping waits in it), connection state | no answering peer is dropped, no dead peer is kept, timers end with the connection |
| `websocketConnection/util` | bytes read so far | compose, fragment and parse frames | - | what is composed is parsed back; boundaries 125/126/65535/65536 |
| `websocketListener` | - (per request) | handshake: validate headers, authorise the context, choose extensions, run validators, respond | configuration cache, pool, operator's API | `maxConnectionCount` is respected |
| `clientConnectionPool` | connections by id, by context, by external id | register, remove on close | dispatches new/removed events | the three maps agree with the open connections |
| `defaultProtocol` subscriptions (`DataContextManager`, its provider, commands) | per context: channels of each connection, connections of each channel, external ids; promises of managers being loaded | new/removed connection, subscribe, unsubscribe, broadcast | pool events, table of channels | maps agree, manager knows exactly the pool's connections, broadcasts reach subscribers, no command waits for ever |
| `defaultProtocol` delivery (`PrepareOutgoingClientMessage`, `ForwardOutgoingMessage`, `ForwardDataSyncMessageToNodes`, `HandleForwardedMessage`) | responses counted so far | publish, forward to master, forward to workers, count recipients | IPC, subscriptions, message store | each subscriber gets a message once, the publisher gets the number of recipients |
| `defaultProtocol` message store (`MessageManagerSqLite`) | tables of messages and recipients | register, read cached, clear, delete | SQLite, configuration (caching policies) | limits of the policy, order, nothing kept that is overdue |
| `ipcMessenger` | pending responses, message counter | send, sendAndReceive (5 s timeout) | process channel | an answer reaches its question, or the question fails |
| `workerManager` | set of workers | fork at start, note an exit | - | no respawn: the rest must cope with fewer workers |
| `configurationContext` | per worker: cache of configurations; table | get (cached), save, delete, announce the change to the other workers | IPC, SQLite or operator's API | a cache does not keep what was replaced |
| `platformApi` | per-request | publish, status/drop of a connection (polls workers), message cache | IPC, pool, store | an existing connection is found |
| `websocketExtension`, `permessageDeflateExtension` | parameters agreed per connection | parse offers, choose among them, answer, inflate, deflate | handshake, the connection's queues | each side expands what the other compresses |
| `authorization` | tables of tokens, access and channel configurations | create, read, delete a token | every API call | a call works with its own token's rights |
| `httpServer` (`RequestContext`) | locals of the express application | answer, run what follows the answer | API calls leave data for their next handler there | one call never sees what another left |
| `logger` (`ScopedLogger`) | what has been logged so far, a timer | log, commit, save | table of API calls | the saved log ends with the answer |
| `utils` (`CallbackCollection`) | map of callbacks with guards and limits | add, remove, clear, execute | every event in the code | each callback concerned is called once, in order, within its limit |
| `sqLite`, `pgConnection`, `swaggerApiDisplay` | connections, static pages | - | - | no state of their own |
| `defaultProtocolClient`, `src/src/app` | - | test client, dev servers, tests | - | - |

Behaviours that are hard to test, in the order in which they are taken up (`PROJECT.json`
lists each at its line):

1. Promise continuations: a frame that waits for an extension or for "drain" while the
   connection closes; two closes that cross; a read that an update overtakes; commands that
   wait for the same load.
2. Timers against answers: pings and pongs, the 5 s of an IPC question.
3. Failures in the middle: an extension that throws, a load that rejects, a worker that dies
   between saving and announcing.
4. Things that must happen: the socket ends after a close, the queue empties, a stale
   configuration is dropped, a waiting command is served, a dead peer is noticed.

## 2. Plan

Modules, most important first; all are written.

| | Module | Proofs | Contents |
|---|---|---|---|
| 1 | `WebsocketConnection` | `WebsocketConnectionProofs` | one connection: queues, handshakes, failures |
| 2 | `ConfigurationCache` | `ConfigurationCacheProofs` | caches of all workers, saves, IPC relay, worker death |
| 3 | `DataContext` | `DataContextProofs` | pool, manager, provider, the commands that wait for it |
| 4 | `KeepAlive` | `WebsocketProofs` | timers of one connection |
| 5 | `MessageDelivery` | `MessageDeliveryProofs` | publishing over IPC: sendAndReceive, master's fan-out and counting, timeouts, dead workers |
| 6 | `MessageStore` | `MessageStoreProofs` | register, read, restore, delete and clean up cached messages |
| 7 | `ClientConnections` | `ClientConnectionsProofs` | handshake, `maxConnectionCount`, the pool's three maps |
| 8 | `ConnectionApi` | with 7 | extends 7: asking for and dropping a connection over the master |
| 9 | `OrderedChannel` | with 1 | abstract: what a connection promises; implemented by `WebsocketConnection` |
| 10 | `WebsocketFrames` | `WebsocketProofs` | bytes of frames, fragmentation, parsing out of chunks |
| 11 | `WebsocketExtensions` | `ServicesProofs` | negotiation of compression and the windows it leads to |
| 12 | `PlatformApi` | `ServicesProofs` | life of an API call, access tokens, its log |
| 13 | `CallbackCollection` | `ServicesProofs` | the list of callbacks while its callbacks change it |

How they compose:

* `ConnectionApi` extends `ClientConnections`: the API looks into the pools that the
  handshakes fill and the closes empty, so each of its actions runs against theirs.
* `WebsocketConnection` implements two instances of `OrderedChannel`, one in each direction.
* `DataContext` composes the pool, the manager, its provider and the commands (they call
  each other within one turn, so one module holds their common steps).
* `MessageDelivery` takes the result of a broadcast from `DataContext` as an arbitrary
  number, and its manager as a load that succeeds or fails.
* `KeepAlive` sees the connection of module 1 through its state and through "the ping is
  still queued / is written / waits for drain", the only facts it depends on.
* `MCServices` puts five modules that share no state (6, 10 to 13) into one run; the
  behaviours of each are explored by themselves.

Every safety invariant and action property that a passing run checks is also proved; what
is left to TLC alone is liveness (section 6).

## 3. Modules

### WebsocketConnection

Variables follow the classes: `state` is `_state`; the outgoing buffer is its queue with the
frame and fragment being written; the incoming buffer is the fragments gathered and the
frames in asynchronous post-processing; the rest is what both sides have seen, which the
properties are about. One action is one turn of the event loop: a call or callback with
everything it does until its next `await`. `Transmit`, `Drain` and `EndSocket` are the
continuations. Frames are operation, sequence number and code; payloads are not modelled.
Extensions act on messages only (control frames pass through unchanged), and may take time
or fail (`TransmitFails`, `PostProcessThrows`, `PostProcessRejects`). Events are dispatched
synchronously, as `CallbackCollection` does.

### ConfigurationCache

One context; a configuration is its version number. `Ask`, `ReadRow` and `Install` are the
three parts of `getConfigurationContext` around its await; `Save`/`Delete` and `Dispatch`
the two parts of an API call; `Forward` and `Receive` the relay through the master. The IPC
channel of a worker is the number of invalidations on their way (they are all alike). `Exit`
is a worker's death: it is not respawned. Ghost `late` marks a cache entry installed by a
read that a reset overtook.

### DataContext

One context, with pool, manager and provider of one worker. Commands run until they need the
manager; if it is loading they wait in `entityPromise`'s order and are resumed one after the
other in one go (`Served`; the compiled `__awaiter` code settles them first in, first out).
A load may fail; its rejected promise stays. Managers are counted, so that a command that
holds a dropped one can be told from one that holds the current one. An id that a connection
of any context has is refused (`NewConnection`): the connection is then not in the pool, but
the pool listens to it (`Heard`), its messages dispatch commands as everyone's do, and its
end dispatches a removal if the code gets that far. Histories `stranded` and `wants` record
whose registration has come to nothing and what a broadcast owed. A rejected promise
does not end the process (the handler of `unhandledRejection` is commented out). Recipients
named by external id are looked up in the pool, which `ClientConnections` models.

### KeepAlive

Time is discrete; a timer is the ticks it has left and time stands still while one is due,
so a timer fires at its time but in any order with the frames of that moment. `SendPing` is
`sendPing` up to its await; the ping then waits on the outgoing queue (`queued`), is written
(`PingWritten`), and may wait for "drain" (`flushing`); `ArmErrorTimer` is what follows the
await. An error timer whose id is overwritten becomes an orphan. `owes` and `overtaken` are
histories: since when a written ping is unanswered, and whether a frame was handled while a
ping was on its way out.

### MessageDelivery

A message is its number in the order of publication, one context. `Publish` is the dispatch
of an `OutgoingMessageEvent` with both commands it triggers: the broadcast in this worker,
and the question to the master. `Broadcast` and `Deliver` are `BroadcastOutgoingMessage`
before and after its await, for a worker's own messages and for forwarded ones, which are
then reported. `ForwardDataSyncMessageToNodes` and `ReceiveReport` are the master's command
before and after its awaits, `ReceiveAnswer` the publisher's. The two IPC channels of a
worker are queues; `asked` and `forwarded` are the entries of `responseQueue` in the master
and in the publisher, and `QuestionTimesOut` and `ForwardTimesOut` their timers, which may
fire at any moment. A late answer is dispatched as a new message and dropped by its
validation (a number is no object). `Exit` empties the channels: `cluster.workers` forgets a
worker when it has exited and its channel is closed. Message ids are unique here.

### OrderedChannel

What whoever uses a connection relies on, without queues, frames half written or
continuations: items are accepted while it is open and arrive in order without a gap; after
a close by handshake nothing more is accepted and the end comes when the last item has been
sent; a broken or abandoned connection just stops. `WebsocketConnection` maps its state to
it once for what it sends and once for what it receives (`ImplementsOrderedChannel`).

### MessageStore

One data context. A row is its id, the channels it was sent to and its second;
`InsertMessage`, `Registered` and `Deliver` are the parts of a publication around its
awaits, `InsertRecipient` the inserts of `registerMessage` that nobody awaits and that end
in any order. A client subscribes and then restores: one query per channel, each at a moment
of its own, then the sorting of what came back. Deletion reads ids first and clears them
then; clean-up computes each channel's overdue and displaced messages the way
`clearMessageCache` does: it reads the table's UTC text as local time, so the server's offset from UTC (`zone`)
is part of a configuration. Time is in seconds, as the table keeps it; the clock of
`Date.now()` goes on within a second, which `late` stands for. Ids go on where the table left off (`firstId`), so that an id gets
a second digit in base 32; ids have any number of digits, are compared as the texts they
are, and where the code binds such a text to a column of numbers, it is read in base 10
(`InBase10`), as SQLite does it: `1e4` is a number and `1f` is none. What the code computes
with `NaN` and `undefined` is modelled by what JavaScript makes of it.

### ClientConnections and ConnectionApi

`stage` is how far a socket has got in `ValidateNewWebsocket`'s chain of commands; every
await is a step, in which the operator's API may answer, refuse or be out of reach. The pool
is `byId`, `byContext` and `byExternal`, with registration and `removeConnection` as the
code does them: a refused duplicate has already attached its listener, and takes the first
one's entry with it when it closes (history `spoilt`). History `before` is whom a handshake
counted. In `ConnectionApi` a request is asked in one worker, which looks into its pool and
asks the master; `task` is the master's loop over the other workers, with those that are
still to be asked, which it takes in the order of their ids. `up` and `down` are the IPC
channels. History `there` is the connections with a request's id that have been in a pool
ever since it came. All messages of a request carry its id, and a message nobody waits for is
taken for a question, in the master and in the workers alike.

### WebsocketFrames

Composing, masking, fragmenting and parsing as operators on sequences of bytes; `Xor` and the
reads and writes of numbers are arithmetic. `Compose` puts a conversation on the wire: any
sequence of frames, each masked or not and with a size of fragments. `ReceiveChunk` hands the
parser any cut of the bytes. The parser is `WebsocketDataBuffer` between two awaits: `step`
says which read of `processNextFrame` is under way, `want` how many bytes it asks for, `have`
those it has got. `ReadPart` moves bytes from a chunk into the read, and `ProcessPart` does
what follows a complete one; both continue in a later microtask, so chunks and `destroy()`
come between them. A destroyed buffer answers its reads with zeros, which are not dispatched.
Payloads are below 2 GiB, as a Node buffer is, and `Huge` stands for any length above.

### WebsocketExtensions

The header of the client is a sequence of offers, each parameter absent, bare, quoted or a
number in or out of bounds. The negotiation, from the header to the agent, is one action,
since nothing can come between its parts. Afterwards a message in either direction is known
by the window it was compressed with and whether it refers back.

### PlatformApi

An API call is registered, the row of its token read, its context looked up, and the handler
run, with other calls in between; `locals` is what all of them share through
`RequestContext`. Administrators create and delete tokens meanwhile; `held` is the rights a
token has had since a call came with it. `ScopedLogger` saves by timer and with the answer,
without anybody waiting; `writes` is the saves under way, any of which may end next.

### CallbackCollection

`registered` numbers the registrations in the Map's order; `executing` is the stack of
nested executions. An iteration over a Map sees what is added behind it and skips what is
deleted before it gets there. A call counts only once it has returned (`Return`), and a
registration that has reached its limit is deleted only after its `onComplete`, if it has
one, has returned too (`Completed`). A callback, and an `onComplete`, may do anything the
API offers, and throw. `begun` and `excused` are histories: the calls that have begun and
did not throw, and whether one began within another or an `onComplete` threw.

## 4. Runs

| Run | Bounds | Shows |
|---|---|---|
| `connection` | 2 frames sent, 3 received, 2 fragments per frame | `WireInOrder`, `NothingAfterCloseFrame`, `HandshakeFlushesQueue`, `DeliveredWithoutGap`, `ImplementsOrderedChannel` |
| `connection_progress` | 1 sent, 3 received, 2 fragments | `PeerCloseEndsSocket`, `QueueDrains` |
| `reserved_close_codes` | 0 sent, 1 received, 1 fragment | **violated**: 1006 reaches the wire (finding) |
| `config_cache` | 3 workers, 1 read each at a time, 2 writes | `StaleOnlyByLateAnswer`, `StaleEntryIsDropped` |
| `settled_cache` | 2 workers, 2 reads each, 2 writes | **violated**: a late read leaves a stale entry for good (finding) |
| `data_context` | 3 connections, 1 channel, 3 managers, 4 waiting commands | `MapsAgree`, `ManagerKnowsPool`, `NobodyForgotten`, `BroadcastReachesSubscribers`, `WaitersAreServed` |
| `keep_alive` | timeout of 3 ticks, 3 frames | `LostOnlyAfterSilence`, `AlwaysWatched`, `DeadPeerNoticed`, `TimersRunOut` |
| `delivery` | 3 workers, 1 message, 0 or 1 recipients per broadcast, 1 death | `AnswerCountsEveryone`, `MessageReachesWorkers`, `AnsweredUnlessExcused` |
| `delivery_order` | 2 workers, 2 messages, 0 or 1 recipients per broadcast, 1 death | `EachOnceInOrder` |
| `single_worker` | 1 worker, 1 message | **violated**: the publisher is never answered (finding) |
| `services`: store | 2 channels, 2 publishers, 2 messages (`MaxMessages`), 2 seconds (`MaxTime`), 1 deletion or clean-up (`MaxRemovals`); servers in UTC, an hour east and an hour west of it | `NothingMissed`, `RestoredInOrder`, `AnswersWithinPolicy`, `ClearedOnlyWhenDue` |
| `services`: frames | conversations of 2 frames; payloads of 0, 1, 5, 125, 126, 65535, 65536 bytes; fragments of 2, 125, 65535 or none; chunks of up to 9 bytes or of the rest (`ChunkSize`), 3 of them (`MaxChunks`) | `FramesSurvive` |
| `services`: extensions | 2 offers (`MaxOffers`), 2 messages in each direction (`MaxCompressed`) | `AgreedCompression` |
| `services`: platform | 2 calls, 2 administrators, 1 token | `HandledAsAuthorized`, `LogHoldsAnswer` |
| `services`: callbacks | 3 registrations (`MaxAdded`), each without limit or with one of 1 (`CallLimits`), 3 executions (`MaxExecuted`), one within the other (`MaxNested`) | `CallbacksServed` |
| `connections` | 3 workers, 2 sockets, 2 keys, 1 external id, limit 1, 1 request, 1 death (`MaxExits`); symmetric in sockets and keys | `PoolFindsConnections`, `OverLimitOnlyTogether`, `TruthfulAnswer`, `EchoOnlyAfterTimeout` |

`connection`, `config_cache`, `data_context`, `keep_alive` and `delivery` also check their
module's `TypeOK`; the types of `MessageStore`, `ClientConnections`, `ConnectionApi`,
`WebsocketFrames`, `WebsocketExtensions`, `PlatformApi` and `CallbackCollection` are part of
the invariants proved about them.

Every property is stated in words above its definition.

*Why the bounds are enough.* The faults looked for need few actors: on the wire, a
fragmented message with a control frame behind it; in the cache, one worker that writes, one
that reads and one that relays (three), and two writes so that an invalidation of the first
can be in flight during the second; in the data context, a creator of the manager, a waiting
command and one that leaves, and a manager after the manager that was dropped; for the
timers, enough ticks that a ping, its answer and its timer can fall on different moments,
and a frame before, during and after a ping; for delivery, a publisher, two workers whose
reports can cross, and, for the order, a second message while the first waits. Two reads at
the same time in one worker are covered by the violation run and, for safety, by the
theorem, which is for any number of them. In the store, a message that is being registered
while another is restored, deleted or displaced, and a clock that lets the one expire and
not the other; among the frames, both sides of every length at which the header's layout
changes, with cuts inside the header, the mask and the payload; a second compressed message,
the first that can refer back; two API calls, one of which overwrites what the other left,
and one token that is deleted and made again between them; a callback that adds a third
while the first of two is called, in an execution within an execution, and a third execution
after the one in which a limit was reached. A recipient at some workers and none at others
tells a sum of reports from any one of them; a message that was cached for a second is
overdue in the next (`late`), and an hour at once where the zone is wrong by one. For a duplicate id
and for a limit that is overrun it takes two handshakes at once; for a late answer one
worker that is asked, one that is not reached any more and the master between them. The
theorems about store, frames, pool, API and callbacks are for any number of all of these.

*Deadlock* is not checked: a connection that is closed and a bounded number of frames,
writes or managers leave nothing to do.

*Fairness.* Promise continuations and message events are run by the event loop: weak
fairness. `Drain` is fair because a peer either reads or its host kills the socket. Timers
fire (`Tick` and the timers' actions are fair) in `KeepAlive` and in the run
`single_worker`; the passing runs of `MessageDelivery` do without, since a timer that fires
would excuse what they look for. Nothing is assumed of the peer's frames, the application's
calls, or failures.

## 5. Findings

* `reserved_close_codes`: `data/CloseCode.ts` says 1006 MUST NOT be set as a status code in
  a Close frame; `close(AbnormalClosure)` without `immediate`, which is how
  `KeepAliveManager` calls it, writes it.
* `settled_cache`: `ConfigurationContextProvider.resetConfiguration` promises that a
  configuration is gone "for good until next time some instance request it"; a read under
  way at the reset puts it back.
* `single_worker`: `src/api/platform-api.yaml` promises every publisher the number of
  recipients; with one worker the master has nobody to ask, never answers, and the request
  hangs.

Weaknesses are also *in* the properties that hold, as their exceptions:

* `LostOnlyAfterSilence` has to except frames that overtake a ping (`sendPing` arms its
  timer after an await, and forgets a running one), and `DeadPeerNoticed` a ping stuck
  behind a full buffer (its timer is armed only when the write is flushed).
* `AnsweredUnlessExcused` lists all that leaves a publisher waiting for ever: a question
  that timed out, a worker that died, a manager that failed.
* `MapsAgree` and `BroadcastReachesSubscribers` except connections whose registration came to
  nothing: the load failed, or the pool refused a duplicate id (the client's
  `sec-websocket-key`) after it had begun to listen. Such a connection still subscribes:
  `subscribeToChannel` enters it in `contextChannels` and then throws
  (`DataContextManager.ts:50-54`), and when it closes `removeConnection` throws first (`:35`),
  so it stays there and every broadcast of the channel finds it.
* `PoolFindsConnections` excepts what a refused duplicate spoils: its listeners are attached
  before it is refused, and its close deletes the first connection's entry
  (`ClientConnectionPool.ts:47`).
* `OverLimitOnlyTogether`: the limit is compared before the connection is registered, and
  with the worker's own pool only; handshakes that overlap exceed it.
* `EchoOnlyAfterTimeout` and `TruthfulAnswer` except requests that ran into the 5 s: a late
  answer is taken for a question and asked again, for ever if nobody dies (a drop then drops
  again), and a dead worker leaves the HTTP request without an answer.
* `NothingMissed` excepts what the policy lets go, and messages whose recipients were still
  being inserted (`MessageManagerSqLite.ts:51`); `RestoredInOrder` two messages of one
  second whose ids differ in length, since they are sorted as strings
  (`RestoreClientSubscription.ts:68`); `AnswersWithinPolicy` a request with only one of age
  and length, since the two limits are combined by testing the age
  (`MessageManagerSqLite.ts:84`).
* `ClearedOnlyWhenDue` excepts the message hit because `deleteChannelCache` binds its ids as
  one text, and counts the offset of the server's zone as age: the clean-up selects the time
  without the `'localtime'` of `MessageManagerSqLite.ts:88` and parses it as local time
  (`:151`, `:208`), so that east of UTC messages are cleared too early by the offset, and
  west of it too late. It also excepts a message none of whose channels that were read has a
  policy: a channel whose insert has not been done is not read.
* `AgreedCompression` excepts messages that refer to earlier ones: every message is inflated
  by a new context, though the answer has let the peer keep its own
  (`permessageDeflateExtension/util/indeflate-utils.ts:6-8`); the applications configure it
  so (`src/src/app/dev-server/devServerModule.ts:33`).
* A callback whose limit is reached is removed by its key, and so is a new registration of
  it made during the call; `CallbacksServed` speaks of registrations and counts that as a
  removal. A call is counted after it has returned, and the registration deleted after its
  `onComplete` (`CallbackCollection.ts:87-99`): a `once()` callback that executes the
  collection again is called again within its own call, and if its `onComplete` throws it is
  never deleted, since the count has passed the limit and is compared with `===`.
  `CallbacksServed` excepts these.

Met on the way and without a property: a validation API that cannot be reached leaves the
socket neither answered nor closed (`ValidateNewConnection.ts:57`); a context without
`channelConfig` makes publishing and restoring fail (`MessageManagerSqLite.ts:250`); a restore that
names a channel without a policy ends without an answer
(`RestoreClientSubscription.ts:42-45`); the manager and the store compute the policy of a
channel in two different ways.

## 6. Proofs

All theorems are for every value of the constants, from the `ASSUME`s in the modules, and
TLC evaluates those on every run. One theorem (`NoneMissed`) has a hypothesis besides.

* `WebsocketConnectionProofs` proves `TypeOK`, `WireInOrder`, `NothingAfterCloseFrame`,
  `HandshakeFlushesQueue`, `DeliveredWithoutGap` and the action property
  `StateOnlyAdvances`. The inductive invariant relates the wire, the frame being written and
  the queue: put together they are the accepted frames in order, and a Close frame can only
  be the last of them. On the way in it relates the frames received, those in
  post-processing and those delivered in the same way. The module then proves the refinement
  `ImplementsOrderedChannel`: initial states map to initial states, and every step to a step
  or a stutter of each direction's channel. That rests on the same invariant and on lemmas
  about what is left of a sequence of parts after one of them is written.
* `ConfigurationCacheProofs` proves `TypeOK` and `StaleOnlyByLateAnswer`. The invariant says
  of every read under way, not only of every cache entry, that it is current, or an
  invalidation is still owed to its worker, or a reset has overtaken it.
* `WebsocketProofs` proves, of `KeepAlive`, `TypeOK`, `LostOnlyAfterSilence` and
  `AlwaysWatched`. The invariant: unless a frame has overtaken a ping, an open connection has
  exactly one thing going on (ping timer, ping on its way, error timer), and while the error
  timer runs `owes + errorTimer >= PingTimeout`.
  Of `WebsocketFrames` it proves `FramesSurvive` (`FramesGetThrough`), for any conversations,
  sizes of fragments and chunks, however many. The invariant `FramesInv` says where the parser
  is: the bytes of the read under way, of the chunks that have arrived and of those still on
  their way, put together, are exactly what is left of the frame being parsed, from the piece
  it waits for on, and all frames behind it; and what the parser knows of that frame is true.
  `ReadPart` and `ReceiveChunk` only move bytes within that whole. When a read is complete it
  has the length of its piece, so it is that piece, and what `ProcessPart` makes of it is what
  was composed: a mask applied twice is no mask (`XorTwice`), and of every length below 2^31
  the reader gets what the writer wrote (`DeclaredIs`). So the check of
  `read64BitPayloadLength` never stops a parser that is fed composed frames
  (`ParserNeverStops`). `FramesSurvive` speaks of fragments, not of the message they were cut
  from; `FragmentsJoined` closes that gap: for any frame and size, the payloads of
  `fragmentWebsocketFrame`'s fragments, joined, are the frame's payload. `FlattenSeq` is a
  recursive function, which the lemma `FlattenExists` shows to exist by a least
  counterexample.
* `DataContextProofs` proves `TypeOK`, `MapsAgree`, `ManagerKnowsPool`, `NobodyForgotten`
  and `BroadcastReachesSubscribers`. None of them is inductive, because commands wait. The
  invariant says what the manager *will* know: what it knows now, changed by the queued
  commands (`Joined`, `Subscribed`), is what the events so far have asked for, and every
  command will find in its turn what it was dispatched for. It says so twice: of the resumed
  commands with the manager they hold, and of the waiting ones with a manager that knows
  nothing yet. A connection that the pool refused is in no manager, is stranded, and no
  command that is under way registers it.
* `MessageDeliveryProofs` proves `TypeOK`, `EachOnceInOrder` and `AnswerCountsEveryone`. For
  the order, the invariant follows a publisher's messages from its channel to the master over
  the channel to another worker and the broadcasts that wait there to what has been
  broadcast: at each place they are in order, and each place holds only later ones than the
  places after it. A worker's own messages are never on its channel from the master, and
  nothing waits for a manager that is ready, so that no message can overtake another where
  the ways meet. For the answer, the invariant `CountInv` says at every place a number passes
  (broadcast, report, the master's count, answer) whose recipients it is the sum of: the
  count so far is the sum over the workers that have reported, no worker reports twice, and
  the number a worker reports is the one its broadcast found. The recursive functions of the
  model need the lemma `Computable`, that such a function exists; sums over sets, lemmas
  about adding one worker.
* `MessageStoreProofs` proves `RestoredInOrder`, `AnswersWithinPolicy`, the action property
  `ClearedOnlyWhenDue` and `NothingMissed`, for any ids, policies, calls and filters. The
  first two need that rows are in the order of their times (`RowsInv`) and that what a client
  has fetched is within its query's limits and all that it is answered (`ClientInv`); so does
  the third, since it tells whether a row was displaced by counting what came after it. For
  `NothingMissed`, a message is followed in two directions at once: every cached message has
  its recipients in the table or on the way there (`RecipientsInv`), and whatever a query
  that has been made did not return is live, on its way, or let go by then (`MissedInv`).
  The clean-up of `deleteChannelCache` binds its ids as one text, which hits the wrong rows
  if it reads as a number. An id below 1476 reads no higher in base 10 than it is, so that it
  can only hit rows that were there before; 1476 is `1e4`, which reads as 10000, and the
  row with that id could come between the two deletes. This is the hypothesis `PlainIds` of
  `NoneMissed`: the ids of the table are such that none reads higher than it is. TLC
  evaluates it for the instance of the run `services`.
* `ClientConnectionsProofs` proves four properties of `ConnectionApi`'s specification, in
  which handshakes, closes, drops and deaths of workers go on. `PoolFindsConnections`: the
  invariant `PoolInv` adds that an entry is kept under its own connection's key or external
  id, that an entry which is not a Set has at most one member, and that messages are about
  requests with real ids. `OverLimitOnlyTogether`: of any connections one was counted last,
  so that none of the others was counted with it in the pool; had it in turn been counted
  with all the others of too many, it would have been refused. `EchoOnlyAfterTimeout` and
  `TruthfulAnswer` rest on `ApiInv`, which says what a request's one message means by where
  it is: a question on the way up from its own worker before the master has a task; a
  question or "found" at the worker the master asks; the answer on its way down. With each
  goes where a connection that the request has not found can still be: never in the worker
  with the request, and in one of those that are asked or still to be asked, so nowhere once
  these have run out. A connection does not move from one worker to another, a worker that
  has died has none, and one that comes after the request does not count: that is why none
  can turn up behind the poll. A request of which a timer has run out keeps nothing but
  its one message, which is all that is true of it.
* `ServicesProofs` proves `AgreedCompression` (the agent is always the one of the answer that
  was given, and what it cannot read refers to earlier messages), `HandledAsAuthorized` and
  `LogHoldsAnswer` of `PlatformApi`, and `CallbacksServed` of `CallbackCollection`. For
  `HandledAsAuthorized` the invariant follows a token's rights through the statements that
  read and write them; for `LogHoldsAnswer`, nothing of a call is saved before its answer,
  and all saves of it that are under way hold the answer, so that their order does not
  matter. Of callbacks the invariant says of every execution on the stack that whoever was
  there from its start, is still there and lies behind its iterator has been called, and
  that all called lie behind it in order. Of a registration with a limit that is not excused
  it says (`Counted`) that at most one execution is in it, that its calls begun are those
  counted and the one under way, and that as long as it is registered and its `onComplete`
  not under way the count is below the limit: so a call that begins cannot be one too many.

Model-checked only:

* all liveness properties (`PeerCloseEndsSocket`, `QueueDrains`, `StaleEntryIsDropped`,
  `WaitersAreServed`, `DeadPeerNoticed`, `TimersRunOut`, `MessageReachesWorkers`,
  `AnsweredUnlessExcused`), which need reasoning about fairness that the proof system does
  not support.

## 7. Not modelled

* `defaultProtocol/service/impl/MessageCacheInMemory.ts` and `ChannelMessageCache.ts`: used
  by nothing in the repository.
* `defaultProtocolClient`, the applications, the test runner, and `webClient.js`, a bundled
  script: they are environment.
* What changes no state: validation of messages and configurations, matching of routes,
  parsing of bodies, listings that only read, `LoggerImpl`, `HttpStatusCode.ts`, static
  pages.
* `sqLite` and `pgConnection` wrap the drivers' callbacks in promises: an SQL statement is
  one atomic step.
* zlib: a compressed message is the window it needs and whether it refers back.
* The wrap-around of IPC ids at 0xFFFF: it needs 65535 messages within 5 s.
* Start-up of workers and modules: the models start with the workers listening.
