# A TLA+ model of syncpond

syncpond keeps *rooms* of key/value *fragments* in the memory of one server.
Controllers change rooms over a line protocol on a TCP socket; clients
authenticate on a websocket with a JWT that names a room and some containers,
get a snapshot, and from then on are sent the changes. Nothing is persisted.
This directory holds TLA+ modules of the server and of the TypeScript client's
connection, the TLC configurations that check them on small instances, and
theorems that TLAPS proves for every value of the constants.

## Inventory

| Component | Code | State | Operations | Model |
| --- | --- | --- | --- | --- |
| Room store | `state.rs`, room commands of `commands.rs` | `AppState.rooms`, `next_room_id` | ROOM.CREATE, ROOM.DELETE, SET, DEL, TX.BEGIN, TX.END, TX.ABORT (and the queries GET, VERSION, ROOM.LIST, ROOM.INFO) | `RoomStore`, `VersionedRooms` |
| Snapshots and deltas | `state.rs` `room_snapshot`, `room_delta` | none of their own | read a room, whole or since a counter | `RoomDelta` |
| Application lock | `Arc<RwLock<AppState>>` in `main.rs`, `ws.rs`, `commands.rs` | guards held, requests waiting | every critical section of the server | `AppLock` |
| Command connection | `main.rs` `handle_command_connection` | where it is, the updates still to broadcast | pass two limits, give a key; then read, apply, reply, clean up, broadcast | `CommandGate` for the limits and the key, `SyncServer` for the commands, `AppLock` for the guards |
| WsHub | `ws.rs` | `rooms`: clients by room | `add_client`, `remove_client`, `remove_room`, `broadcast_update` | `SyncServer` |
| Websocket session | `ws.rs` `handle_ws_connection` | where it is, its channel | authenticate, snapshot, register, deliver, leave | `AppLock` for the guards and `Tokens` for the claims of the first message, `SyncServer` from the room claim on |
| Rate limiter | `rate_limiter.rs` | times by key | `allow` | `RateLimiter`, twice in `CommandGate` |
| Tokens | `state.rs` `create_room_token`, setters; `ws.rs` `validate_jwt_claims` | key, issuer, audience, lifetime | mint, replace the key, validate | `Tokens` |
| TypeScript client | `syncpond-client/src/index.ts` | sockets, timers, flags | connect, disconnect, reconnect, handlers with listeners that call back | `SyncClient` |
| Line parser, health and docs endpoints, start-up, demos, scripts | `commands.rs`, `main.rs`, `demo/`, `scripts/` | none shared | parsing and I/O | not modelled |

Components meet in shared memory: two locks, the application lock around the
rooms and the counters, and a mutex around the hub. No handler is meant to hold
both (the guard of `ws.rs:298` is the exception, see *Findings*). A
command connection applies a change under the first, writes its reply under
none, and broadcasts under the second; a session reads its snapshot under the
first, sends `auth_ok` under none, and registers under the second. The events go
through one bounded channel for each session.

What is hard here is the time between these sections. Changes may be broadcast
in another order than they were applied, or to a session that has its snapshot
and is not registered yet; a room may be deleted under a session that is about
to register; a connection may end between applying and broadcasting; clients
are dropped when they are slow, and one that does not read may stop whoever sends
to it, as no send has a time limit; and a transaction belongs to the room, so that
every connection takes part in it. `PROJECT.json` lists each hazard with its
line and the properties that cover it.

What makes each part correct:

- *Room store*: versions order the changes of a room; a transaction is seen as a
  whole or not at all; an id never names two rooms.
- *Deltas*: a copy plus the changes since its counter is the room.
- *Lock*: every request that is made is granted some day.
- *Broadcast*: a client that is served shows the room, or is dropped; it sees
  only what it was granted; it can tell which of two events is the older one.
- *Hub and sessions*: who is registered is served, who is dropped ends, the
  counts come back.
- *Limits*: no more calls in a window than allowed, no refusal without cause, no
  memory of keys that are quiet.
- *Tokens*: a token opens the room it was minted for and no other, and is good
  until it expires.
- *Client*: a disconnect is final; there is one connection, authenticated before
  the `connect` that made it resolves; and it keeps trying.

## Modules

```
VersionedRooms <... RoomStore <--- RoomDelta <--- RoomDeltaProofs
                      ^  ^
                      |  +------ SyncServer <--- SyncServerProofs
                      +--------- RoomStoreProofs

RateLimiter <=== CommandGate            AppLock <--- AppLockProofs
     ^               ^                  Tokens <--- TokensProofs
RateLimiterProofs <=== CommandGateProofs    SyncClient <--- SyncClientProofs
```

`<---` reads "is extended by", `<...` "is implemented by" and `<===` "is
instantiated twice by"; RoomDeltaProofs and SyncServerProofs extend RoomStoreProofs
too. Each `MC...`
module gives a specification its small instance. Operators introduced by
"Mutant of X" are wrong versions of X: replacing X by one must make the property
that `PROJECT.json` pairs it with fail. They are part of no specification.

**VersionedRooms** is the promise to a reader: rooms are maps of versioned
fragments with a counter; a change raises the counter and stamps what it touches
with versions above the old counter; ids are not reused. It knows nothing of
transactions.

**RoomStore** is `AppState` with the commands that change it. One command is one
action, because each runs under one write guard. `rooms` is the map of live
rooms; `containers`, a map of maps, is one function `fragments` on pairs of
names, where version 0 means that neither map has the entry (a container exists
exactly when it has a fragment, since nothing removes one). `tx_buffer :
Option<Vec>` is `tx_open` and `tx_buffer`. DEL is a write of `Null`, in and
outside of transactions, with the test for the container only outside
(`state.rs:211`), as in the code. `CommitBuffer` is `tx_end` in closed form, one
fragment at a time; `CommitLoop` is the loop of `state.rs:406-435`, write by write,
and the invariant `CommitIsTheLoop` says that the two agree in every reachable room.

**RoomDelta** adds readers with a copy of a room. `RoomSnapshot` and
`RoomChanges` are `room_snapshot` and `room_delta`; how a reader lays the answer
over its copy is the client's part and external. The server does not call
`room_delta` yet (`last_seen_counter` is read and ignored, `ws.rs:323`), so the
module checks what that call could rely on.

**AppLock** has the tasks, the guards they hold and the queue of requests. The
lock is tokio's (external): first come, first served, a writer alone, no
upgrade. A command connection takes up to three guards one after the other for
a command (count, execute, count the error), and one for a line that is too long,
which it answers first and which is its last (`CountMalformed`). A session takes a write guard to
answer a malformed message, or a read guard to validate a JWT; that read guard
is a variable of `handle_ws_connection` and lives until the function returns.

**SyncServer** composes RoomStore with the connections, the hub and the sessions.
Each critical section is an action, and so is each point where something else
can happen in between: `Write` (and the other commands), `Respond`, `Cleanup` or
`Broadcast` for a connection; `TakeSnapshot`, `SendAuthOk`, `Register`,
`CountUp`, `Deliver`, `Stall`, `EndOfEvents`, `ClientEnds`, `Deregister`,
`CountDown` for a session. A client need not read its socket, and no send has a
time limit: a session may stop for good at the event it sends (`stalled`,
`ws.rs:411`), or at the refusal of a full room, which it sends under the hub's mutex
(`refused`, `ws.rs:371`; `HubFree` is then false and everybody else waits). A
container named `*` is a container like any other to the store and the snapshot, but
its updates pass `broadcast_update` for every client (`ws.rs:109`), and one about the
key `*` in it is sent without its value, like the end of a transaction
(`WholeRoom`). A reply that cannot be written ends the connection with its update
unsent (`main.rs:583`). Rate limiters may refuse at any time. `view` is what the
client shows: the snapshot it was sent with the events sent since. `lost` is a
history variable that only the properties read: the fragments whose latest change
a client was not, and will not be, told. The session starts in `SyncServer` after
the claims are known, as if the guard of `ws.rs:298` had been dropped after the
validation; as written the code never gets there (see *Findings*), and the module
says what the rest of the handler does once it can. Left out: the counter in
`auth_ok`, which is read under a later guard than the snapshot (`ws.rs:344`).

**RateLimiter** is `allow` of `rate_limiter.rs`: `Enter` reads the clock, which the
code does before it awaits the mutex, and `Admit` or `Refuse` is the rest, under
the mutex. Calls that wait may be decided in any order, so the times in a bucket
need not be sorted, although `clean_entry` pops only from the front. `log` is
history: the calls let through, with the time they read and the time they were
decided. `MaxDelay` bounds the wait; the properties say how much the window loses
by it, and with `MaxDelay = 0` they are those of an exact sliding window.

**CommandGate** is a command connection from `accept` to its last line. It
instantiates RateLimiter twice, for the commands' limit and the tighter one of
the keys. Nothing is awaited between the verdict of the first and the clock of
the second, so `PassCommandLimit` is one action of both. A connection that is served
has commands executed (`Serve`) of which no limiter is asked; `requests` remembers
when. What the commands do is SyncServer's.

**Tokens** is TOKEN.GEN, SET.JWTKEY and the checks of a session's first message:
claims under one guard (`ws.rs:298`), the room under the next (`ws.rs:332`). A
signature is the key it was made with; what the JWT library checks is external.
`ForeignTokens` are those another holder of the key may sign, each with one claim
out of order or, as `iss` and `aud` are not required (`ws.rs:174`), without them.
`born` and `created` are history: the how-manieth room a token or a
snapshot is of. Time is not set back, so the `last_jwt_issue_seconds` adjustment
does not arise.

**SyncClient** is `SyncpondClient`. JavaScript runs a task at a time, so an action
is a task: a call of the program, an event of a socket, a timer. A handler calls
the program's listeners in the middle of its work (`emit`), and these may call
`connect` or `disconnect`, several times; handlers are therefore operators on a
state, and `emit(m)` is the set of states the listeners may leave. All handlers use the
field `ws`, whichever socket they were added to, and so does the model. `hasty` is
history: the program called `connect` while a socket or timer of an earlier
connection was left. Without that exception `OneConnection` and
`ResolvedMeansAuthed` do not hold: after `disconnect(); connect()` the old socket's
close event clears `ws` of the new one, which is then neither closed by
`disconnect` nor authenticated, though its promise resolves. A call of `connect` that
finds a connection, or an attempt under way, returns a promise that is resolved
already (`index.ts:58-60`, as `spec/ts-library/index.md:38` has it). `unauthed`
remembers that such a promise came without an auth message on the socket in `ws`, and
`impatient` that the program called during an attempt, which is the one way to get
it without being hasty (`ResolvedMeansAuthed`). An attempt whose
constructor throws is made when `usable` is false.

## Runs

| Run | Instance | Checks |
| --- | --- | --- |
| `store` | 2 rooms with 3 and 1 versions, 2x2 fragments, 2 values, 3 buffered writes, symmetric keys, a reader that sees one of 2 containers | `TypeOK`, `VersionOrder`, `CommitIsTheLoop`, `TxIsAtomic`, `RefinesVersionedRooms`, `CopyTypeOK`, `CatchUpIsComplete`, `OnlyGranted` |
| `lock` | 2 connections, 2 sessions, all first messages, fair | `TypeOK`, `AuthNeverAnswered`, `OneAuthStopsTheServer`, `CommandsAnswered`, `MalformedAnswered` |
| `lock_auth` | the same | `FirstMessagesAnswered` is violated |
| `sync` | 1 controller with transactions, 1 session, 1 room with 2 versions, a granted container and one named `*`, queue of 2 | `ServerTypeOK`, `ReplicaUpToDate`, `OnlyGrantedReach` |
| `hub` | 2 controllers, 2 sessions of different rights, 1 place in the room, queue of 1, fair | `HubHoldsSessions`, `OnlyGrantedReach`, `CountersTellTheOrder`, `ConnectionsCounted`, `DroppedSessionsClose` |
| `sync_uncommitted` | as `sync`, 2 containers that the session sees, 3 versions | `UpdatesAreApplied` is violated |
| `sync_reordered` | 2 controllers without transactions, 1 session | `ReplicaUpToDate` is violated |
| `gate` | 2 connections, 2 peers, 2 connections in a window of 1 and 1 key in a window of 2, waits of 1, time up to 3, 1 command a connection | `TypeOK`, `ConnectionsLimited`, `EveryKeyIsLimited`, `TurnedAwayForCause`, `QuietPeersForgotten` |
| `gate_commands` | the same, 3 commands a connection | `CommandsLimited` is violated |
| `tokens` | 3 keys of which one is too short, 2 sessions, 2 rooms, 2 tokens of lifetime 1, time up to 2 | `TypeOK`, `OpensItsRoom`, `MintedIsAccepted`, no deadlock |
| `client` | 3 sockets, 2 attempts to reconnect, 3 timers, up to 4 calls in a handler | `TypeOK`, `OneConnection`, `ResolvedMeansAuthed`, `DisconnectIsFinal`, `KeepsTrying` |
| `client_settles` | the same | `ConnectSettles` is violated |

Bounds. Counters only grow, so `MaxRooms`, `MaxCounter` and `MaxBuffer` cut
behaviours off; each is a conjunct of a guard. Three buffered writes are enough
to write one fragment twice and another one in between; three versions let a
commit of two writes follow or precede a single write, and a copy be behind, at and
between them. The second room of `store` has one version: rooms share nothing but
the ids, so it only has to exist, be deleted and change. In `sync` one fragment that
the session was granted is enough, since nothing but the filter relates different
fragments; beside it there is the fragment `*` of the container `*`, of which events
tell no value. Two versions and a queue of two are a change on its way behind one
that is queued. The filter is also what `hub` checks, with two sessions of different
rights. With two controllers and one place all races of registration, refusal,
dropping, deletion and leaving occur, and a broadcast overtakes another. In `gate`
the clock (`MaxTime`) reaches past the longer window, two connections of one peer
can wait for a mutex at once and be decided against their times, and a peer can be
let through once more (`MaxPassed`) than either limit; one command (`MaxRequests`) is
enough, as commands touch nothing of the gate, while `gate_commands` needs one more
than the limit. In `tokens` the second room
can be created after the first is deleted, and a token can expire, outlive its
key and see it set again; `MaxRooms`, `MaxTokens` and `MaxTime` cut off the rest. In
`client` three sockets are the one in use, one that closes late and one more;
`connect` waits for one to be free, which only a hasty program notices. `MaxTimers`
is more than a program that is not hasty can set. Listeners make up to four calls in
the course of a handler; a fifth adds no state to this instance. Deadlock
is not checked where a bound, or a connection or session that has ended, stops the
system on purpose; it is checked in `tokens`.

Fairness. In `AppLock`: the runtime polls every task that can go on, and the
lock serves its queue; nothing is assumed of the peers, who may stop sending
lines (`idle`) or never send a first message (`open`). Replies are written without
blocking there: the answer to a first message is the first thing the server sends on
a fresh socket, and a reply to a command is written under no guard. In
`SyncServer`: a session is polled when it has an event or has lost its sender, and
its clean-up finishes; nothing is assumed of controllers, nor that a client ever
leaves, nor that it reads: a session may stop at any send, and
`DroppedSessionsClose` is of those that do not, while no refusal holds the hub's
mutex. In `SyncClient`: a socket that is connecting or closing opens or closes
some time, as the WebSocket's time limits make it, and a timer fires; nothing is
assumed of the program, nor that an open socket closes. For the sockets this is said
of states and not of actions, which is the same here and cheaper to check.

What the runs show that is worth saying in words:

- `ReplicaUpToDate` is an inventory of how a client comes to show an old value:
  the window between snapshot and registration, the room's rate limit, a failed
  reply, an aborted transaction, and a transaction open while the snapshot was
  taken. These are excepted, by fragment (`lost`); with one controller there is no
  other way, because a client with a full queue or over its own limit is dropped
  rather than passed over. With two controllers there is one more, the reordering of
  broadcasts (`main.rs:605-626`), which `sync_reordered` shows; the server-cli opens a
  connection for each command.
- `CountersTellTheOrder`: what a client could do about it. However many controllers
  write and in whatever order they broadcast, an event never has a counter ahead of
  the fragment's version, and the one with that version has the fragment's value: to
  keep the event with the highest counter of each fragment would be right. The
  TypeScript client does not do so, and with transactions it does not hold
  (`sync_uncommitted`).
- `OnlyGrantedReach`: nothing reaches a client beyond its grants, except the events in
  a container named `*`, which SET and DEL accept as a name. The snapshot has no such
  exception.
- `HubHoldsSessions` is about who is in the hub, not about the room: after a deletion
  whose cleanup was skipped (a quoted id, a failed reply), or before a registration
  that comes late, the hub holds clients of a room that is gone.
- `ConnectionsLimited` and `TurnedAwayForCause`: the clock read before the mutex
  costs each window the time a call waits, in both directions, and no more; times
  out of order in a bucket do not add up.
- `EveryKeyIsLimited`: keys are tried once per connection, so the limit on
  connections is the limit on keys. Commands of a connection that is served are
  not limited at all (`main.rs:491` is before the loop): `gate_commands`.
- `CommandsAnswered` and `MalformedAnswered`: as long as no auth message arrives the
  locking is free of deadlock and starvation, however tasks compete.
- `KeepsTrying`: a program that wants a connection gets one, gives up after
  `maxReconnectAttempts` in a row, or has changed its mind; a promise that stays
  pending does not stop the reconnections.
- `DroppedSessionsClose`: dropping the sender is what ends a session, also when
  it happens before the session's loop starts; but only once the session gets back
  to its loop. A client with a full queue is mostly one that does not read, and at its
  session's send nothing ends it.
- `ResolvedMeansAuthed`: a program that is not hasty is told of a connection before it
  is authenticated only if it calls `connect` during an attempt.

## Findings

- **An auth message is never answered, and stops the server** (`ws.rs:298`, runs
  `lock_auth` and `lock`). Both outcomes of the validation await the write guard
  while the read guard is alive. `AuthNeverAnswered` and `OneAuthStopsTheServer`
  state the consequences and are proved.
- **A buffered write is broadcast before it is committed** (`commands.rs:115`,
  run `sync_uncommitted`), with its value and the counter of an earlier change;
  an abort takes nothing back.
- **A client may keep the older of two values** (`main.rs:605`, run
  `sync_reordered`). Two connections apply their changes in one order and broadcast
  them in the other; a client that applies what it is sent, as
  `client-protocol.md:32` has it, shows the older one until the next write.
- **Commands are not limited** (`main.rs:491`, run `gate_commands`).
  `command_rate_limit` is "command requests per window" in the README (line 63); the
  code asks the limiter once for a connection.
- **`connect` does not reject when its socket fails** (`index.ts:98`, run
  `client_settles`). The `error` handler rejects only when `connecting` is not set,
  and it is set until `open` or `close`; `close` comes later and settles nothing.
  The specification of the library says that it rejects "if server socket error
  occurs before open" (`spec/ts-library/index.md:37`). In the run the program calls
  `connect` and nothing else, the socket fails, and the promise stays pending,
  although reconnection goes on.

## Proofs

All theorems hold for any sets and bounds that satisfy the named assumptions:
`ValueAssumption` and `BoundAssumption` (RoomStore), `GrantAssumption`
(RoomDelta), `MessageAssumption` and `TaskAssumption` (AppLock), `SessionAssumption`
(SyncServer), `GateAssumption` (CommandGate; in RateLimiter `LimitAssumption` is a
hypothesis of the theorems, so that both instances can meet it),
`TokenAssumption` (Tokens), `SocketAssumption` and `AttemptsAssumption`
(SyncClient). TLC evaluates them in the runs.

**RoomStoreProofs.** `TypeCorrect` is inductive as stated. `StepCases` reduces
every step to: a room is created, removed, or takes one of three steps (a write,
a commit, a change of the buffer only); `ApplyWriteEntries`, `CommitBufferEntries`
and `LastWriteWins` say what the first two leave in each fragment.

`CommitsAreLoops` says that the closed form of a commit is its loop, for buffers of
any length. The loop is a recursive function, of which nothing is known before
there is one: the closed form of the first n writes, for every n, is a function
that does what the loop does (`PrefixExtends`, `CommitAppend`, `CommitNothing`), and a
least turn at which another such function differed cannot exist (`LoopCommits`).

`VersionsOrdered` follows with `TypeOK /\ VersionOrder` as the inductive
invariant: a write takes a version above all others; a commit gives each fragment
it writes the version of its last write, distinct for distinct fragments, and
the last write of the buffer carries the new counter. `TransactionsAreAtomic`
needs only the types. `StoreRefinesVersionedRooms` maps commands to `Create`,
`Remove`, `Change`, and TX.BEGIN, buffered writes, TX.ABORT and empty commits to
stuttering.

**RoomDeltaProofs.** `DeltaInvariant`: besides types and version order, a copy
agrees with its room, if that is live, on every fragment whose version is not
beyond the copy's counter, and that counter is not beyond the room's. It is
stated for what VersionedRooms allows, so a command keeps it because it is a step
of VersionedRooms. `CatchUpComplete` follows: what the delta leaves out is what
the copy has. `CopyTypeCorrect` is part of the invariant. `CopiesHoldGranted` has an
induction of its own, because the invariant says nothing of copies whose room is
gone.

**AppLockProofs.** `SessionInv` is the strengthening of `AuthNeverAnswered`: a
session that has validated holds a read guard, and when it has asked for the
write guard its request is in the queue. A grant cannot take that request out,
as the session itself is a reader. Moves of other tasks leave all this alone
(`Moved`). `AuthStopsTheServer` adds that the reader excludes every writer
(`Excluded`).

**SyncServerProofs.** Every step is a step of a command connection or of one
session. `ConnectionStep` says that the former only takes clients out of the hub
and appends events to queues, `SessionStep` that the latter changes nothing but its
own state, its own pair in the hub and the count. So the pairs in the hub survive
what others do, and the limit of a room needs only the one action that adds a
client (`HubIsSound`); the count moves with the two states that begin and end it
(`CountIsRight`); and `GrantsAreKept` comes down to the two filters, that of the
snapshot and that of `broadcast_update` with its exception for `*`. The types are strengthened (`ServerTypes`)
by those of events and by the room of a session that has one.

`ServerRunsTheStore`: the same split shows that the server implements RoomStore,
since sessions and broadcasts leave the rooms alone; `ServerKeepsTheStore` are the
theorems of RoomStore for the running server.

`ReplicasAreRight` assumes `OneController`, that there is one command connection, as
its run has: with two `ReplicaUpToDate` is false, because changes are broadcast in
another order than they were applied (`sync_reordered`). The property speaks of
quiet states, the inductive invariant `ReplicaInv` of all:

- `UpdatesCurrent`: a change that is on its way was the last one applied, with the
  counter of its room. Here one controller is needed.
- `ReplicaKept`: for a session that has its snapshot and is not dropped, each fragment
  it may see and has not lost is either on its way or, with the snapshot and the
  events sent and queued, has the value its room promises. What a room promises
  (`Promised`) is the value after the commit of the open transaction, because
  buffered writes are broadcast at once; outside of a transaction it is the value
  in the store.
- `Settled` says where queues are empty and that a session's room was created;
  `BuffersClosed` that a room without a transaction has no writes in its buffer.

A command keeps it because what it changes is put on its way or into `lost`
(`CommandsAnnounced`); a broadcast because it queues the event, drops the client, or
puts the fragment into `lost` (`BroadcastKeeps`); a session because
sending an event only moves it from the queue into the view (`DeliverKeeps`), and a
snapshot is the store, whose difference from the promise is in `lost`
(`SnapshotKeeps`).

`CountersAreInOrder` is for any number of connections, without transactions (of which
it is false). `OrderInv` adds to the property that no transaction is open (`NoneOpen`),
that nothing is told of rooms still to be created (`ToldOfCreated`), and the order of
versions. A write takes a version above all that was told of its fragment
(`WriteInOrder`), and everything else tells only what was on its way before
(`OthersTellNothing`, `NothingNewKeeps`).

**RateLimiterProofs.** `clean_entry` has a well-defined stop (`StaleFrontIs`, by
well-foundedness of `<`). The inductive invariant: a bucket holds the read times
of the last calls of its key let through, in the order of the log, and every
call before those was out of date when it was popped (`PopKeeps`, `PushKeeps`).
`LimitHolds` follows, because the call that is `Limit` places back must have been
popped; so do `RefusalsJustified` and `KeysForgotten`, because what is at the front
after cleaning is recent, and what comes after it was decided later.

**CommandGateProofs.** The gate is shown to implement either limiter
(`CommandLimiterRuns`, `AuthLimiterRuns`): an action of the gate is one of the first
limiter or leaves it alone, and likewise the second, whose callers are those the
first has let through. `GateLimits`, `TurnedAwayJustly` and `PeersForgotten` are then
the limiter's theorems. For the rest the gate has an invariant of its own:
no connection has two calls at a limiter, so that a decision takes it out of those
that wait there (`CallsArePlaces`, which `GateTypeCorrect` needs), and a connection
gets behind the limiters by a call let through and leaves with at most one failure
(`KeysCounted`, `KeysAreLimited`). Connections and peers may be infinite: that
the sets counted are finite is part of the invariant.

**TokensProofs.** Ids are handed out in order and never again, so the id of a room
is its number in the order of creation (`IdsAreBirths`). A token therefore names
one room for good (`MintedWell`), and a session that finds a room under that id
finds that one (`HandshakesAgree`): `TokensOpenTheirRooms`. `TokensAreAccepted` says
that what TOKEN.GEN writes is what validation asks for.

**SyncClientProofs.** Because a handler runs listeners in the middle, facts are
stated of any state `m` a task is in and shown to survive one call of a listener
(`CallsGood`), and so a call after another (`AndThenGood`) and `emit` (`EmitGood`).
`Sound` is what holds of a program that is not hasty: one socket or one timer, `ws`
holds the socket unless it closes, `auths` is what the promise says, and no other
promise was given too early but during an attempt (`Told`). `Wished` holds
of every program: when it has not called `disconnect`, sockets and timers are ones
it asked for. `FewNew` follows a socket through a task: only the one in `ws` can be
new, so that a `disconnect` of a later listener closes it. `OneConnectionAtATime`,
`ResolvedIsAuthed` and `DisconnectFinal` follow, the last for hasty programs too.

Only model-checked: liveness (`CommandsAnswered`, `MalformedAnswered`,
`DroppedSessionsClose`, `KeepsTrying`), because fairness needs ENABLED, which the
prover does not treat. Every other property of the passing runs is proved,
`ReplicaUpToDate` for one controller and `CountersTellTheOrder` without transactions.

## Not modelled

- The line parser (the splits in `process_command`, `parse_room_id_from_remainder`,
  `read_line_with_limit`) and the formatting of replies: functions of one line, without state, which unit tests
  reach.
- The health and docs endpoints, the demo programs, the build scripts and
  containers: no shared state but the read of counters.
- Start-up, but for the configuration Tokens starts from. Nothing is persisted, so
  there is no recovery: a restart is `Init`.
- The websocket handshake and the origin check, and the auth limit of sessions,
  which is one more RateLimiter by peer, before the first message. The limits on rooms and clients are
  nondeterministic refusals in SyncServer.
- The counter in `auth_ok`, and resumption by `last_seen_counter`: neither the client
  nor the server uses what it is sent.
- What the program does with the messages it gets: `handleMessage` keeps no state.
- Hasty programs beyond `DisconnectIsFinal` and the types: the code promises them
  nothing, and *Modules* says what they get.

What would come next: what holds of a replica with several controllers (a client
that keeps the highest version it has seen of each fragment), which the code does
not promise today, and the composition of RoomDelta with SyncServer once the server
answers `last_seen_counter`.
