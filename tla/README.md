# Formal models of lan-a2a

lan-a2a lets agents on one local network find each other, open connections, share
channels, and send messages, files and folders, directly or through a relay. This
directory holds TLA+ models of its Go code, TLC configurations that check them on small
instances, and proofs, checked by TLAPS, that hold for instances of every size. Paths
are relative to the repository (`main.go` of the relay is `cmd/lan-relay/main.go`, of
the agent `cmd/lan-a2a/main.go`).

* [The system](#the-system) - its parts, their state, what is hard about them
* [Plan](#plan) - the modules, written and still to be written
* [The models](#the-models) - how each corresponds to the code
* [The runs](#the-runs) - what each checks, its bounds, what it shows
* [Fairness](#fairness)
* [The proofs](#the-proofs)
* [Where the code disagrees with its
  documents](#where-the-code-disagrees-with-its-documents)
* [What is not modelled](#what-is-not-modelled)

## The system

| part | code | state | operations |
|---|---|---|---|
| relay server | `cmd/lan-relay/main.go` | `agents` (identifier to connection), `channelIndex` (channel to members), per connection an `AgentConn` with mutex, `done` and its `channels` | register, deregister, query, channel_created, peer_left, relay to the members |
| relay client | `internal/relay/client.go` | `conn`, `done`, `stopped`, `maxRetries`; the goroutines readLoop, pingLoop, queryLoop, reconnect | Connect, Stop, Send, reconnect with backoff |
| file sender | `internal/fileservice/service.go`, `types.go` | `transfers`; per transfer `Status`, `Progress`, `Chunks` with `Status` and `Retries`; per run a semaphore, a wait group and `failed` | SendFile, pause, resume, cancel, Stop |
| file receiver | `internal/filetransfer/transfer.go` | `incoming` (message to file, received chunks) and the file on disk | PrepareIncoming, AddChunk, assemble |
| folder sync | `internal/fileservice/foldersync.go`, `types.go` | `manifests`, `.lan-sync-manifest.json` on disk | ScanFolder, LoadManifest, DiffWith, SaveManifest, SyncFolder |
| presence | `internal/p2p/p2p.go`, agent `main.go` 44-86, 519-547 | `p2p.online`, `lanOnline`, `relayOnline` | mDNS sighting, inbound connection and its end, goodbye, relay list, stale-peer timer |
| connections and channels | agent `main.go` 88-362, `internal/channel/channel.go` | `conns` (nil for a peer behind the relay), `relay`, channels with members, mode and host | open, close, create, leave, send, share |
| plugin bus | `internal/plugins/plugins.go` | plugins, hooks, auth plugin, a read-write lock | Register, On, SetAuth, Authenticate, Emit |
| MCP server, CLI, adapter, profile, logger, TypeScript client, documentation generators | `internal/mcp`, `internal/cli`, `internal/adapter`, `internal/profile`, `internal/logger`, `clients/typescript`, `cmd/gendoc`, `docs/generate.go` | none of the system's own | translation, files, formatting |

How they interact: tools (MCP or CLI) call the agent. The agent answers from its online
maps, opens connections through `p2p`, and hands messages either to the connections of
the members or to the relay client. The relay server reads them, looks up the channel's
members and writes to their connections; the relay client of each member calls back into
the agent (`OnMessage`, `OnFileData`, `OnOnlineList`, `OnGoodbye`), as `p2p` does for
inbound connections. Received files go to the file receiver. The file sender is given a
`sendFunc` by the agent; folder sync calls the file sender. Both tell the plugin bus
when something starts, is done, or ends, and wait until its plugins and hooks return.

What is hard, and would hardly be reached by a test:

* **relay server** - one handler goroutine per connection, one goroutine per forwarded
  message, four kinds of locks, some handed from one goroutine to another, some nested;
  an agent may register again before its old connection is noticed to be dead; a
  snapshot of the members is used after its lock is released. It is correct when the
  registry names living handlers, messages reach members only, in order and once,
  members keep receiving until they leave, and no handler waits forever.
* **relay client** - goroutines of successive connections share `conn` unsynchronised;
  Stop may come at any moment; the backoff counts without bound. It is correct when
  there is one session at a time, on its own connection, with the documented backoff,
  when a lost connection is replaced, and when Stop ends it.
* **file sender** - concurrent goroutines with retries; a resumed transfer runs twice
  over the same chunks; a stop in the middle. It is correct when completed means
  delivered, failed means exhausted, and every run ends.
* **file receiver** - chunks of several senders, in any order and again, chunk numbers
  that nothing checks, a file announced again, one path for two files. It is correct when
  a file that is reported complete holds what was sent, and one that arrived is reported.
* **folder sync** - successive syncs with edits between them and failing sends. It is
  correct when what changed since the last sync is sent, and nothing else.
* **presence, connections, channels** - maps that are told the same things by different
  sources and at different times; check-then-act on each.
* **plugin bus** - handlers run under the lock that registering takes, and may call the
  bus in turn. It is correct when an event misses no handler and nobody waits forever.

Every such hazard, with its line, is listed in `PROJECT.json`.

## Plan

Written, in this order:

1. `RelayServer`, with the abstract `ChannelMulticast` it implements - the component
   every agent depends on, with most of the concurrency.
2. `RelayClient`, with the abstract `RelayUplink` it implements - the other end of its
   connections.
3. `FileSender`, `FolderSync`, `FileReceiver` - how files get from one agent to another.
4. `Presence` - whom an agent takes to be online.
5. `Agent` - its tools, connections and channels.
6. `PluginBus` - whom the file service and folder sync tell of their events.

Each has a module of proofs beside it (`RelayServerProofs`, ...) and one that
instantiates it for TLC (`MCRelayServer`, ...).

Thought of, and left for whoever extends this:

* `RelaySystem`, `RelayClient` composed with `RelayServer`: what an agent can rely on end
  to end, across a reconnection. `ChannelMulticast` is the interface to compose with.
* The channel managers of several agents together. Today no agent but the creator of a
  channel has it in its manager, so there is nothing yet to keep consistent.
* `FileReceiver` composed with `FileSender`. The code does not connect them: the file
  service sends no `file_meta`, and `ShareFile` no identifiers the receiver knows
  (`receiver_unknown`).

## The models

### RelayServer, ChannelMulticast

One connection `c \in Conns` stands for one WebSocket connection with its handler
goroutine and its `AgentConn`; `pc[c]` says where `handleWS` is. The steps are cut where
the code takes or releases a lock:

| action | code (`cmd/lan-relay/main.go`) |
|---|---|
| `Handshake`, `HandshakeFails`, `Register`, `Count` | 45-76 |
| `RegisterPanics` | `close(old.done)` at 72 when that channel is closed already |
| `Unwind`, `Deregister`, `CleanIndex` | the deferred function, 78-98 |
| `Query`, `Answer` | 112, 208-222 |
| `Read`, `ReadCreated`, `JoinRLock`, `JoinMember`, `JoinDone`, `ReadLeft`, `ForgetChannel` | 114-119, 125-171 |
| `Snapshot`, `RLock`, `Forward`, `RelayDone` | 174-206 |
| `Write`, `WriteFails` | the send goroutine, 197-202 |
| `LinkDown` | the peer or the network |

No lock has a variable: who holds `s.mu`, `channelIndexMu` or an `AgentConn.mu` follows
from the program counters and from `sending`, the messages in send goroutines (the
handler locks `ac.mu` and the goroutine unlocks it, so a connection with a message in
`sending` is locked). While a handler that joins members waits for the mutex of one of
them (`adding`) it holds `s.mu` for reading, and nobody registers. A panic is recovered
by `net/http`: the handler ends, and what its goroutine had locked stays locked
(`poisoned`) unless a deferred call unlocks it.

A message is `[src, seq, ch]`: the connection it was read from, its number there, its
channel. `announced` and `left` are history variables. What agents do is constrained
only as their code does it (`Knows`): an agent creates a channel it is a member of under
a new identifier, and sends on, or leaves, a channel it knows.

`ChannelMulticast` is what the relay promises: a message read from a connection may be
delivered to connections of the other members of its channel, once at most each and in
the order of the sender. `RelayServer` implements it (`ImplementsMulticast`) under the
mapping `agentOf <- owner`, `members <- announced`.

### RelayClient, RelayUplink

`session[s]` is the life of one `readLoop` with the `reconnect` it may start (they hand
over to each other: the goroutine that connected starts the next loop); `loops` are the
pingLoop and queryLoop goroutines. `Connect` is split at the dial and at the end of the
handshake, `Stop` at its three statements, since every other goroutine may run between
them. A `time.Sleep` is a step of its own (`Wake`). The retry counter and `conn` are
read without the lock, as in the code. `Backoff` computes the duration modulo 2^64 as
the code does, from the bits of the shifted second. Ping and query loops end only on
`done` (60-61): the model keeps those of earlier connections. Connection identifiers
that failed to register are reused, and counters saturate at the bound `MaxRetries`.

`RelayUplink` is what the client promises the agent: it is connecting, online, offline or
over; a new attempt begins only when the last connection is gone and nobody stopped the
client, an attempt that has begun ends, and only a first attempt that fails, or `Stop`,
makes an end of it. The phase is that of the one session that is active (`Phase` in
`RelayClientProofs`); the ping and query loops, the sleeps, the counter and the later
statements of `Stop` are stutters.

### FileSender

One transfer: transfers share only the stop channel, which a transfer sees at its own
moments anyway. `run[r]` is one `sendConcurrent` (the first from `SendFile`, the others
from `ResumeTransfer`), `worker[r][c]` its goroutine for chunk `c`. The chunks (`chunk`,
`retries`) are shared by all runs, the semaphore and `failed` belong to one run.
`c.Retries++` is a read and a write, because two runs do it unsynchronised; so is
`updateProgress` (count, then store). The count itself is one step: the number of
finished chunks only grows while one run is alone, and when two runs overlap the counted
value still lies between two values of the moment. `Status` is a string written by
several goroutines; a torn value is not modelled, because the code only asks whether a
chunk is done. The constant `MaxRetries` stands for the literal 3. `PauseTransfer`,
`ResumeTransfer`, `CancelTransfer` and `Stop` are exported, and tested, but no tool of
the agent calls them today. A second `Stop` would panic and is not modelled.

### FolderSync

One folder, the manifest in memory (`manifest`), the manifest file in the folder
(`saved`), and the transfers that a sync starts and that outlive it. `SyncFolder` is cut
at its scan (`Scan`), `LoadManifest` (`Load`), each `SendFile`, and `SaveManifest`;
edits and the end of the process may come between any two of these. A hash is the
content it was taken from; `NoHash` is the empty hash of a file that could not be read,
`Torn` a file caught in the middle of an edit or of a write. The scan is one step: an
edit during it equals one before or after it for each file. Two details decide what is
sent. `LoadManifest` puts the manifest it read over the one the scan has just stored
(`Stored`), so that `SaveManifest` writes the old one back; and the manifest file, which
lies in the folder, is scanned and sent like the others (`Names`). Deletions are
computed by the code and never sent. A delivery means that `sendFunc` accepted every
chunk.

### FileReceiver

`incoming[t]` is the `IncomingFile` of the transfer `t`, known by the identifier of its
`file_meta`; `disk` the files, as who wrote at each place. Each of `PrepareIncoming` and
`AddChunk` holds `Manager.mu` and is a step, with `assemble` inside the last `AddChunk`.
Messages are not kept in queues: each may come at any moment, again, or never (they come
over several connections and from concurrent workers), also a chunk before its
`file_meta`. Creating the file, opening it again for the checksum, and writing may fail;
a write may fail half way. `FreshIds` are the transfers whose `file_data` carry
identifiers of their own, as those of the agent's `ShareFile` do. A chunk may say any
number: `AddChunk` marks it, counts it and compares it with nothing, so that two chunks
numbered 1 and 3 complete a file of two, with a hole at the second place
(`StrayLeavesHole`; the senders of this repository number their chunks from 0 without
gaps). Index `i` of the model is `ChunkIdx` `i - 1` of the code, those above the total
stand for every number out of range; a negative one, at which no data can be written, is
a chunk whose write fails, or, when the file is not open, one that is marked like any
other. A `file_meta` that comes again empties the file and replaces the entry, so the
history variables say what came since the last one; the file handle that is lost with
the old entry is not in the model. As in the code, the checksum is computed and compared
with nothing, `file_done` changes nothing, an empty file never completes, and entries
are never removed.

### Presence

The map of `p2p` holds the age of each entry (`online`), counted in units of 5 seconds,
the length of a browse; the agent's two sets are `lan` and `relayed`. `Tick` is the
passing of a unit, as the one goroutine of discovery spends it: browsing for peers, for
relays, or waiting (`Pause` computes the delays of `StartDiscovery`, whose 10-second
ticker never waits once browsing itself takes 10). The callback of a found relay runs in
the same goroutine, and keeps it for as long as `Connect` takes (`ConnectRelay`). The
stale-peer timer has ticks of its own and may fire anywhere; since ages are whole units,
an entry may be dropped from age 6 (`MayBeStale`), and is from age 9 (`Stale`).
`handleWS` is cut between `removeOnline` and `OnGoodbye`, and `onFound` between its two
calls, because the maps have different locks. A goodbye that goes to the relay is read
by it and not forwarded, so none comes back from there. `listen` are the entries whose
address is one the peer can be dialled at: a sighting has it, an entry made by an
inbound connection has the address that connection came from. `profiled` are those with
a profile, which comes with a handshake. `OpenConn` reads an entry, shakes hands without
the lock (`dialling`), and looks the entry up again before it stores the profile, as it
may be gone by then, or be another one.

### Agent

The tools of one agent. They come one at a time, since the MCP server and the command
line each serve calls in a loop, and only one of them runs; `call` is the one under way.
Beside it run discovery, which publishes a relay client before it connects
(`FoundRelay`, `Connected`), the goroutines of the file service, dying connections, and
at last the main goroutine with the shutdown. What the online maps answer is left open
at each call. A channel's members are a set; the next host, which is the first of the
remaining members, may be any of them. `conns[p] = Forwarded` is the nil connection of a
peer behind the relay, `relay` the client and how far its `Connect` is (`withdrawn`: it
failed and the pointer is nil again). Dereferencing a nil connection is a panic and ends
the agent (`phase = "crashed"`), since nothing recovers it. `carried` is history: the
channels whose messages a connection carried.

### PluginBus

Each goroutine has a stack of calls of the manager, since a handler that an `Emit` is
calling, or a plugin that is asked to authenticate, may call it again. The lock is Go's
`sync.RWMutex`: a writer first keeps new readers out (`Announce`: one writer at a time
gets that far), then waits for those there are, and lets in all readers that wait when it
unlocks (`Written`, `Admit`). Who holds the lock follows from where the calls are. `Emit`
holds it for reading while it walks along the plugins and then along the hooks, looked
up by the type the event has by then: a plugin is given the event itself and may change
it (`Transform`). `Authenticate` calls the plugin after it has let go of the lock.
`known` is history: who was registered when the call began. The file sender and folder
sync are modelled as if `Emit` returned; `CallsReturn` says when it does.

## The runs

| run | instance | distinct states | checks |
|---|---|---|---|
| relay_reconnect | 2 agents that may reconnect, 3 connections, 2 messages | 479 000 | `TypeOK`, `RegistryServes`, `LiveRegistered`, `PerSenderFIFO`, `DeliveredToMembers`, `IndexWithinRoster`, `RosterReachable`, `ImplementsMulticast` |
| relay_live | 2 agents that connect once, 2 connections, 2 messages, fair | 26 000 | `HandlerReturns`, `TargetReached`, `DeadPeerForgotten` |
| client | 2 connections, 7 attempts in a row, fair | 50 000 | `TypeOK`, `SingleSession`, `ReaderOnOwnConn`, `BackoffFollowsSchedule`, `StopQuits`, `Reconnects` |
| sender | 2 chunks, 1 worker, 2 attempts, 2 runs, fair | 419 000 | `TypeOK`, `ProgressNotAhead`, `ReportsComplete`, `SingleRunBounds`, `CompletedUnlessStopped`, `FailedAfterRetries`, `RunsEnd` |
| folder | 1 file and the manifest, 1 agent, 3 syncs, 2 edits | 1 030 000 | `TypeOK`, `ChangedIsDelivered` |
| receiver | 2 transfers, 2 paths, 3 chunk numbers | 387 000 | `TypeOK`, `ContentIsSent`, `CompletesWhenAll` |
| presence | 1 peer, 2 connections, fair | 375 000 | `TypeOK`, `TimerSparesAnswering`, `GoneForgotten`, `RunningIsKnown` |
| agent | 2 peers, 2 connections, 2 channels | 1 500 000 | `TypeOK`, `LinksAccounted`, `SurvivesOnLAN`, `ToMembersOnly`, `HostIsMember` |
| bus | 2 goroutines, 1 handler, 2 types, 4 calls, nested twice, fair | 53 000 | `EventsComplete`, `CallsReturn` |

What they show, in a sentence each, is in `PROJECT.json`. Three more runs there are
expected to find a violation of a sentence in the documents; see
[below](#where-the-code-disagrees-with-its-documents).

Why the bounds are enough:

* Two agents and three connections with two dials per agent are the least instance in
  which a connection is superseded while the other agent relays to it; two messages from
  one sender are the least that can change their order. `relay_live` has one dial each, which keeps
  its liveness properties within reach.
* Seven attempts go past the point where the backoff meets its cap (the sixth). Two
  connections are the least in which goroutines of an earlier one meet those of a later
  one.
* Two runs with one slot each overlap at every statement of `sendConcurrent`; with two
  chunks the dispatching loop has to wait for its slot. `SingleRunBounds` is about a
  transfer that was not resumed.
* Three syncs are the least in which a change is taken back; two edits, that one of them
  meets a sync. The manifest is a second file.
* Two transfers can share a path or not. Files of up to three chunks, with three chunk
  numbers, can come in every order with gaps, and those of two or fewer get numbers
  beyond their end.
* Peers do not meet in `Presence`; two connections of one peer are the least of which an
  old one closes after a new one was opened.
* Two peers, connections and channels are the least in which a connection may be entered
  under the wrong peer, or a message go to the wrong channel's members.
* Two goroutines are a reader and a writer; two calls at a time in each let a handler call
  back; with four calls a handler is registered, told, and another registered meanwhile,
  and all of that while a third call waits. One handler registered twice is two places in
  a list. `TypeOK` of this module is only proved.

`MaxMsgs`, `MaxDials`, `MaxConns`, `MaxRuns`, `MaxSyncs`, `MaxEdits`, `MaxChunks`,
`MaxCalls`, `MaxDepth`, and the sizes of `Conns`, `Links` and `Channels` are bounds of
the models; the code has none. The cfgs without a deadlock check are of models that may end: everything read,
stopped, or shut down. That nothing waits forever is stated by `HandlerReturns`,
`StopQuits` and `RunsEnd` where it matters. Symmetry is used only where no liveness
property is checked.

## Fairness

* Go schedules every runnable goroutine: weak fairness for every handler, loop and
  worker.
* `sync.Mutex` hands over to a waiter that starves, and a waiting writer of a
  `sync.RWMutex` bars new readers: strong fairness for steps that take a lock.
* A write to, or a read from, a dead connection ends with an error at last, as the
  kernel gives up on it. The code sets no deadline itself; a peer that is alive and
  never reads is therefore outside of these properties.
* Peers need do nothing: no fairness for `LinkDown`, `Handshake`, or reading of new
  messages.
* The client's run assumes that the relay answers one of infinitely many attempts
  (`RelayAnswers`), and that a handshake, once begun, ends with `register_ok` or an
  error.
* The sender's run assumes that the dispatching loop or one of its goroutines goes on as
  long as one of them can, which includes that reading a chunk or sending it ends with a
  result.
* The presence run assumes that `Connect` to a relay returns, that a peer that runs
  answers one of infinitely many browses, that the connections of a peer that ended are
  found dead, here and at the relay, and that lists of the relay arrive now and then
  (`queryLoop` asks for one every 15 seconds).
* The bus's run assumes that every goroutine that can run does, and that handlers return
  unless they wait for the bus themselves.
* `FolderSync`, `FileReceiver` and `Agent` are checked without fairness: their
  properties are safety properties.

## The proofs

All theorems hold for arbitrary sets of agents, connections, channels and files, and
arbitrary numbers of chunks, workers, attempts, runs and syncs; the only assumptions are
the named ones of each module (`ConstantsAssumption`, `SizesAssumption`, ...), which say
that the constants are sets and numbers and that a mark such as `None`, or `Absent` and
`Torn` for a manifest, is none of the identifiers or values it stands beside.

Beside the invariants the runs check there are theorems no run states, about what stays
as it is once it has gone wrong, and about the half of a liveness property that does not
need fairness: that whoever is not done can take a step.

**RelayServerProofs.** Six inductive invariants, each using the ones before it:

* `TInv`: `TypeOK`, with the facts that a handler past its handshake knows its agent
  (`Identified`) and one at work on a message holds one (`Carries`). Gives
  `TypeCorrect`.
* `RInv`: `RegistryServes`, `LiveRegistered` and `NotSuperseded` (a handler that is
  serving and whose `done` is open has the entry). Gives `RegistrySound` and
  `ServingRegistered`.
* `OInv`, for the order: every connection has at most one send under way (`OneSend`),
  that send is the newest thing its source gave to it (`SendingNewest`), and what has
  been written was read before (`WireWasSent`); a target already served is off the list
  (`OffTheList`). `PerSenderFIFO` alone is not inductive: a goroutine with an older
  message might be about to write. Gives `DeliveryInOrder`.
* `MInv`, for the membership: the lists a handler works off (`JoiningList`,
  `TargetList`), the messages in goroutines (`SendingProper`) and those written
  (`WireProper`) all stay within `announced`, and who has left was announced
  (`LeftAnnounced`). Gives `MembersOnly` and `LeaversStayOut`.
* `JInv`, for who is missing from the index: one handler at a time creates a channel
  (`OneJoining`), and a member that did not leave is out of the index exactly when that
  handler has not come to it yet, or when the connection it had at the creation was
  cleaned up (`IndexExact`). Gives `MembersReachable`.
* `PInv`, for the panics: a handler whose `done` is closed while it serves, or that has
  panicked, shares its agent with another connection (`ClosedSucceeded`,
  `PanicsSucceeded`). Gives `PanicsTakeReconnection`.

From these the fate of a relay that goes wrong: `LockoutIsFinal` (once a handler panicked
with `s.mu` locked, the registry never changes, handlers that get to `s.mu` stay there,
nothing is forwarded), and `SlowReaderLocksOut` (as long as one send goroutine does not
end and a handler waits for its lock in `relayToChannel`, nobody registers and nobody is
deregistered). Otherwise it goes on: `NothingDropped` says that a target leaves the list
only unregistered or with its message in a send goroutine, and such a goroutine ends only
with the message written or the link down; `NobodyWaitsInACircle` says that, without a
panic, one of the handlers midway can go on or a send is under way. They are the safety
halves of `TargetReached` and `HandlerReturns`.

From the first four invariants, `RelayIsMulticast`: every step of the relay is a step of
`ChannelMulticast` or leaves its variables alone; only `Handshake`, the three reading
actions and `Write` are not stutters.

**RelayClientProofs.** `CInv` is the type, `SingleSession`, `Newest` (the active session
is the one of the newest connection) and `ReaderOnOwnConn`. Gives `OneSession` and
`ReadsOwnConn`. With the rest of the type (`Types`, `Flags`: `TypeCorrect`) and `Counted`,
which ties the code's counter and the sleep to the attempts of the active session, it
gives `BackoffDocumented`, for up to 34 attempts in a row (`ASSUME MaxRetries <= 34`).
The bound is sharp: `BackoffOverflows` computes what the code does at the 35th.

`UInv` adds what the sessions leave behind: their connections are numbered in the order
they were dialled (`Numbered`), a client whose `done` is closed was stopped first
(`StoppedFirst`), and every connection but that of the active session is down or closed
(`Links`) - which `reconnect`, that closes nothing, relies on. Gives `NeverGivesUp` (no
session is left only when the client was stopped or its first `Connect` failed: the
safety half of `Reconnects`), `OneLiveConnection`, and `ImplementsUplink`, the refinement
of `RelayUplink`. `ImplementsUplink` is in no run: the proof shows it for any number of
connections and attempts.

**FileSenderProofs.** `SInv` has three layers. `Shapes` is the type. `Account` relates
three records of the same thing: a chunk that is done was delivered (`DoneDelivered`),
so was one whose goroutine is past its send (`SentDelivered`), and every chunk behind a
run's cursor is delivered, or in the hands of one of its goroutines, or the run has
failed or was stopped (`Accounted`). When the run has waited for its goroutines, the
third case of `Accounted` is all that is left next to delivery: `CompletedIsDelivered`.
The counters lag behind the history (`CounterBehind`), because an increment may be lost
but never invented; a run that gave up on a chunk saw the counter at its limit, hence
`FailureIsExhaustion`. `ProgressHeld` says of a goroutine between its count and its
store that what it counted was received (`ProgressBehind`). `Solo` is about the time
before the transfer is resumed: a chunk ahead of the cursor is untouched, one behind it
is with its goroutine, or reported, or given up, and the goroutine's copy of the counter
is below the limit (`SingleRunBounded`). A run that completed has no failed chunk, so all
were reported (`ReportsAll`).

For transfers that were resumed, `RunsBounded` says that each run keeps to its own number
of goroutines, and `ReportedIsDelivered` that no run reports what was not delivered;
`NothingSentAgain` that a resumed transfer with every chunk done sends and reports
nothing. That runs come to their end is `RunsEnd`; its safety half is `SlotsReturn` (a
run that has not ended can dispatch, or has a goroutine at work), and for a transfer that
was not resumed `LoneRunWindsDown` has the variant: with every step of the run what the
loop has left (`RunLeft`) decreases, or what one chunk has left (`WorkLeft`). With two
runs there is no such variant, since one may undo what the other has counted.

**FolderSyncProofs.** `FInv` says of a sync that nothing has disturbed so far that every
file it found changed is on its way: still in the lists of the diff, in a transfer, or
at the agent (`OnItsWay`), that neither the folder nor the transfers moved away from
what was scanned (`Undisturbed`, `AsScanned`), and that the lists are empty when no sync
is at work (`ListsEmpty`). `ChangedIsDelivered` is the case where lists and transfers
are used up: `ChangesArrive`.

`KInv` is about a folder where nothing failed and nobody edited during a sync: the
manifest on disk is that of the first sync (`FirstSaved`), it is what a sync that has
loaded it will save again (`ToBeSaved`) and what it has compared with (`ComparedTo`). Gives
`ManifestNeverRenewed`, the cause of `folder_reverted`, and, with `ChangedIsDelivered`,
`SyncsAgainstFirst`: what the agent has after a sync is right for every file that is not
as it was at the first.

**FileReceiverProofs.** `TypeOK` says beside the types that an open file lacks chunks by
the count (`Waits`), since the one that makes the count right closes it: `TypeCorrect`.
`RInv` is said of each transfer: the chunks marked received are those that came
(`Marked`); a file nobody shares holds just those while it is open, and as many as were
announced, all of them marked, once it is closed (`Kept`), and then it is reported
(`Reported`). As many chunks as announced, none of them numbered beyond, are all chunks:
`CompleteIsCorrect`. By the same count a chunk numbered beyond that was let in keeps one
of the announced out: `StrayLeavesHole`. The other way round, when the announced chunks
have all come there are enough of them, so the file is not open any more:
`ArrivedIsReported`, which assumes that no transfer has identifiers of its own for its
`file_data` (`FreshIds = {}`). For the others it is false (`receiver_unknown`), and
`FreshIdsNeverComplete` proves that: of such a transfer nothing is ever written or
reported. `AInv` holds for all transfers, those that share a file too: data at a place of
a file is that chunk of a transfer to this file (`DataInItsPlace`). A file that is
reported, and stays so, is closed: late and repeated chunks do not touch it
(`LateChunksIgnored`); only its `file_meta` coming again does.

**PresenceProofs.** `AgeInv` bounds the age of the entry of a peer that answered the
last browse, at each stage of discovery: 1 while browsing for relays, 4 less what is
left of a pause, 4 while browsing for peers. All are below 6, from where the timer may
drop it: `AnsweringIsSpared`. Two more theorems are about peers that are gone.
`GoneStaysAway`: once its connections are cleaned up, its last answer is used and the
relay has dropped it, nothing puts it back into `p2p.online` or `relayOnline`, the safety
half of `GoneForgotten`. `LanNeverPruned`: a peer that ended without a connection stays in
`lanOnline` until it runs again.

**AgentProofs.** `AInv` adds five facts to the four properties: an entry that is a
connection is open and goes to the peer it is entered for (`Owned`); the peer that is
being dialled has no entry (`Pending`), without which storing the connection could push
out another; a connection that is not open has carried nothing (`Unused`); whom a
broadcast still has to tell is in its channel (`Addressed`); and as long as no relay was
found there is no nil entry, no channel in relay mode and no call that sends to a relay
(`NoRelayYet`). Gives `NoConnectionIsLost`, `NoPanicOnLAN`, `OnlyMembersAreTold` and
`HostStaysMember`. From it and `EntriesStay` (which actions touch an entry of the table at
all) follow `DeadEntryStays`, that a dead connection stays in the table until a tool or
the end of the agent takes it out and carries nothing meanwhile, and `NilEntryIsFatal`,
that the nil entry of a peer behind the relay ends only with the process.

**PluginBusProofs.** `BusInv` says how far each `Emit` has come: it has called exactly
the handlers it has passed, in their order (`InPlugins`, `InHooks`), which stays true
because writers wait while it holds the lock, and what was registered when it was called
still is (`Remembered`). Gives `NobodyIsMissed`. `NestInv` says where the calls below the
innermost one of a goroutine are: each has a handler at work, so an `Emit` among them
holds the lock. Hence `DeadlockIsFinal`: a handler of an `Emit` that has to wait for the
lock waits forever. And `OnlyCallbacksDeadlock`: while no handler does that, one of the
goroutines that are in the bus can go on, the safety half of `CallsReturn`.

Every invariant that a run checks is a theorem, and so are `TimerSparesAnswering` and both
refinements; `BackoffFollowsSchedule` and `CompletesWhenAll` under an assumption that the
code needs. Only model-checked are the liveness properties (TLAPS does not prove
properties under fairness): `HandlerReturns`, `TargetReached`, `DeadPeerForgotten`,
`StopQuits`, `Reconnects`, `RunsEnd`, `GoneForgotten`, `RunningIsKnown` and
`CallsReturn`. The safety halves named above are proved for most of them; not for
`StopQuits`, `DeadPeerForgotten` and `RunningIsKnown`, which are nothing but progress.

## Where the code disagrees with its documents

| run | what it shows |
|---|---|
| relay_lockout | An agent that registers after its old handler closed `done` (79) and before that handler deregistered (80) makes the relay close the channel twice (72). The panic leaves `s.mu` locked: nobody's query is answered any more (`LockoutIsFinal`). It takes a second connection of the same agent (`PanicsTakeReconnection`). |
| folder_reverted | The manifest that is saved after a sync is the one that was loaded before it: a file that is changed, synced and changed back is not sent. The manifest stays the first for good (`ManifestNeverRenewed`). |
| receiver_unknown | Every `file_data` of `ShareFile` has an identifier of its own, under which the receiver knows no transfer: the file is never complete (`FreshIdsNeverComplete`). |

Other observations made while modelling. They are part of the models, and no run is
devoted to them:

* From the 35th attempt in a row on the client's backoff overflows
  (`internal/relay/client.go:112`): it dials in a tight loop where
  docs/architecture.md:120 has 30 seconds (theorem `BackoffOverflows`).
* A plugin or hook that calls `Register`, `On` or `SetAuth` from an event, or emits while
  somebody registers, waits forever (theorem `DeadlockIsFinal`), and with it the
  goroutine of the transfer that told it.
* A recipient that stops reading, on a connection that stays up, keeps everyone from
  registering at the relay (theorem `SlowReaderLocksOut`): `relayToChannel` waits for it
  with `s.mu` held, and no write has a deadline.
* The built-in `LogPlugin` logs nothing, against docs/architecture.md:192, and asserts a
  method `GetID` that no `Transfer` has: registered, it panics when a transfer starts.
* A member that reconnects to the relay is taken out of its channels when its old
  connection is cleaned up, and does not get back in; one that was not connected when
  the channel was created stays in the index when it goes.
* `Stop` of the client while `reconnect` is in `Connect`: the connection is made, and
  registered, after `Stop` has returned.
* `Stop` of the file service between spawning and sending: the transfer is reported
  completed although a chunk was never sent. A resumed transfer has twice the number of
  goroutines (each run keeps to its own: theorem `RunsBounded`).
* docs/architecture.md speaks of a cleanup of peers every 30 seconds after 60; the code
  looks every 10 seconds for peers not heard of for 30.
* `lanOnline` is not pruned by the timer: a peer that crashed without a connection is
  listed as online for good (theorem `LanNeverPruned`).
* `MarkOnline` of a sighting replaces the entry, and with it the profile that a
  connection had brought; an entry that only an inbound connection made has an address
  that cannot be dialled, until the next sighting.
* `GetAgentInfo` reads `relayOnline` without its lock
  (`cmd/lan-a2a/main.go:394`), while a goodbye may delete from it: Go ends a process that
  reads and writes a map at the same time.
* Nothing calls `Authenticate`: a plugin that was given to `SetAuth` is never asked.
* The profile that `main` loads is never given to `p2p`: connections carry one only after
  the tool `set_profile` was called.
* With a relay, `CloseConnection` of a peer behind it, and a broadcast or a transfer to
  it, dereference a nil connection and end the agent (theorem `NilEntryIsFatal`); so do `CreateChannel`,
  `SendMessage` and the goodbye at shutdown while the client's first `Connect` is under
  way.
* `SendMessage` succeeds when a member has no connection or a dead one;
  docs/architecture.md:71 has an error there. The dead one stays in the table until a tool
  closes it (theorem `DeadEntryStays`).
* `SendMessage` and `LeaveChannel` do not ask whether the agent is still a member.
* Nobody but its creator has a channel in its manager, so `IsMember` is false at every
  other agent, and messages are not even logged there.
* The file service, which `ShareFile` uses without a relay, sends `file_data` and no
  `file_meta`.
* The receiver counts chunks without a look at their numbers
  (`internal/filetransfer/transfer.go:91-93`): one beyond the announced total completes a
  file that lacks another (theorem `StrayLeavesHole`). A `file_meta` that comes again
  empties a file that was complete (lines 69-75).
* `from[:8]` in the log line for a file panics for identifiers shorter than eight
  characters, such as the `agent-a` of the README.

## What is not modelled

* Of the agent: what it does with messages it receives (they are logged, or handed to the
  file receiver), listings, and its own profile.
* Of the protocol: the encoding of messages, whose kinds and fields appear in the models
  only as far as a handler looks at them, and the write mutex of `Conn`, which is taken
  to do its work.
* Of the plugin bus: what the built-in plugins do with an event. They keep no state.
* The relay's status page; the MCP server and the CLI, which translate calls and keep no
  state; the adapter, the profile, the logger and the documentation generators, which are
  I/O and formatting; the TypeScript client, a smaller second implementation of the same
  protocol.
