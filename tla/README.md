# Verification of sngo

TLA+ models of sngo, an actor framework in Go with a service directory, a
bootstrap layer, TCP networking and a cluster layer. TLC checks the models on
small instances; TLAPS proves the most important results for every value of the
constants. Source paths below are relative to `src/`.

## 1. Inventory

What keeps state, who runs concurrently and what may go wrong. The hazards, line
by line, are in `PROJECT.json`.

| Part | Source | Kept state | Actors and operations | Modelled in |
|---|---|---|---|---|
| Actor | `core/actor.go` | state word, mailbox, pending calls | one message loop per actor; any goroutine may Start, Stop, Send, Call | `Actor` |
| Handle manager | `core/handle.go` | three maps and a counter, one mutex | allocate, release, look up | `HandleManager` |
| Routers | `core/router.go`, `core/advanced_router.go` | table of actors (a sync.Map) beside the handle maps | register and unregister, each in two atomic steps | `AdvancedRouter` |
| Sessions | `core/advanced_router.go` | map of sessions, one-shot channels | create, complete, clean up, expire, wait | `SessionManager` |
| Actor system | `core/system.go` | all of the above under `s.mu` | create actors and services, send, call, shut down | `ActorSystem` |
| Service registry | `core/service_registry.go` | table of services, watchers' channels | register, change, watch, periodic health check | `ServiceRegistry` |
| Discovery, balancing | `core/service_discovery.go` | current balancer, its counters | look up, filter, select under three different locks | `ServiceDiscovery`, `LoadBalancer` |
| Lifecycle manager | `bootstrap/lifecycle.go` | services, dependencies, start order | Start (topological sort), Stop | `LifecycleManager` |
| Application | `bootstrap/application.go` | running flag over the manager | Run, Shutdown | `Application` |
| Container | `bootstrap/container.go` | factories, instances, scopes, one mutex | Register, Resolve with the factory run under the mutex | `Container` |
| TCP connection | `network/tcp_connection.go` | closed flag, send channel | Send, send loop, Close in four steps | `TcpConnection` |
| Connection manager | `network/connection_manager.go` | map of connections, heartbeat fields | add, remove, broadcast, heartbeat start, loop and stop | `ConnectionManager` |
| TCP server, client | `network/tcp_server.go`, `tcp_client.go` | connections, channel of new ones; current connection | accept, handlers, Stop; dial, reconnect, Disconnect | `TcpServer`, `TcpClient` |
| Cluster node | `cluster/transport.go`, `node.go`, `integration.go` | node to connection map, members, events | accept, handshake, reader and sender per connection, Start, Stop | `MessageTransport`, `ClusterManager` |
| Cluster services | `cluster/service.go` | pending calls; services, watchers | remote call, answer, timeout; register, watch | `RemoteService`, `ClusterRegistry` |
| Config | `config/*.go` | current configuration | load and merge, file watcher, debounced reload | `ConfigLoader`, `ConfigWatcher` |
| Login, message servers | `loginserver`, `msgserver` | users; connections by fd, sessions | one goroutine per connection, no locks on some maps | `LoginServer`, `MsgServer` |
| Protocol, crypt, examples | `protocol`, `crypt`, `examples` | none of their own | data conversion, demonstrations | not modelled |

## 2. How the parts interact

The actor system creates actors, enters them in the router and the handle manager
and gives calls a session number; discovery reads the registry. The application
starts services (the actor system, the network server, the program's own) through
the lifecycle manager in the order of their dependencies. The connection manager
works on connections, the server and the client own theirs. The cluster manager
starts a transport and hears from it about connections; remote calls travel over
a transport they are given. The login server, the message server, the container
and the configuration share no state with the rest or with each other.

The models follow this: where two parts change each other's state they are
composed (`AdvancedRouter` over `HandleManager`, `ActorSystem`,
`ServiceDiscovery` over `ServiceRegistry`, `Application` over `LifecycleManager`,
`ConnectionManager` over `TcpConnection`, `ClusterManager` over
`MessageTransport`, `ConfigWatcher` over `ConfigLoader`). Where they do not, each
is checked against every behaviour of its surroundings.

## 3. Modules

```
SequentialServer <== Actor                     MCActor        ActorProofs
Directory <== HandleManager <- AdvancedRouter  MCRouter       RouterProofs
Promise   <== SessionManager                   MCRouter       SessionProofs
              ActorSystem                      MCSystem       SystemProofs
ServiceRegistry <- ServiceDiscovery -> LoadBalancer  MCDiscovery  DiscoveryProofs
LifecycleManager <- Application                MCApplication  ApplicationProofs
TcpConnection <- ConnectionManager             MCConnections  NetworkProofs
TcpServer                                      MCEndpoints    ServerProofs
TcpClient                                      MCEndpoints    NetworkProofs
MessageTransport <- ClusterManager             MCCluster      RouterProofs
RemoteService                                  MCServices     SessionProofs
ClusterRegistry                                MCServices     RouterProofs
LoginServer, MsgServer                         MCServices     ServerProofs
Container                                      MCServices     SessionProofs
ConfigLoader <- ConfigWatcher                  MCServices     SystemProofs
```

`<==` is refinement (the abstract specification on the left, checked as a property
and proved), `<-` is EXTENDS, `->` an INSTANCE.

### Actor

One step per atomic operation of the code: load, store and compare-and-swap of the
state word, channel operation, sync.Map access, WaitGroup wait. A starter is the
caller of Start and then the loop it spawns; a client owns one message and uses Send
or Call; a stopper calls Stop, one in `InHandler` from inside the actor's own
handler. A panic (send on or close of a closed channel) sets `crashed` and ends the
process. The history variables `accepted`, `taken`, `drained` and `outcome` exist
for the properties. One coarsening: `sendResponse` looks the channel up and sends
in one step; the deferred delete of a Call that returns in between makes no
difference, since nobody reads that channel any more.

### HandleManager, Directory, AdvancedRouter

`HandleManager` has the three maps and the counter, with width (`HandleSpace`,
2^32) and node prefix (`NodeSpan`, 2^24). `AdvancedRouter` adds the routing table
and splits each of the four registration operations at the point where the code
leaves one table and goes to the other. `Directory` is what the manager promises.

### SessionManager, Promise

Every method holds the manager's lock and is one step; the owner waits outside it.
Answers arrive any number of times at any moment. Ids wrap at `IdSpace`. Sessions and
the registration operations share no state, so `MCRouter` picks one of the two as the
`subject` of a behaviour.

### ActorSystem

Composes NewActor, NewService, Send, Call and Shutdown under `s.mu`. Handles appear
as the set of their entries, which is what `Directory` allows; an actor appears as
the part that Start and Stop see, with the two compare-and-swaps, the cancel and the
wait as separate steps. Coarser than `Actor`: the check and the enqueue of a
delivery are one step, so are the handler's return and the store of Idle, and the
drain is part of the loop's exit. The windows this hides are explored in `Actor`.
The registry appears as the set of registered names.

### ServiceRegistry, LoadBalancer, ServiceDiscovery

Readers keep pointers to `ServiceInfo`, so objects are values of their own and
`status` belongs to the object. `event` holds the event an operation sends before it
lets go of `r.mu`; of its type only "gone" or "registered" is kept. `watcherMutex` is
taken inside; Watch and the end of a watch take only that one and come in between.
The watcher that lists once and applies events is the use the interface offers, and
is what `view` follows.

DiscoverService looks up under the registry's lock, fetches the balancer, reads the
status of each service it found in a step of its own and without a lock, and selects
under the balancer's lock. The empty name matches every service, so the list may be
long. Which healthy service a strategy prefers depends on an index, on chance or on
metrics anybody may report at any time: it is left open, and with it
UpdateServiceMetrics, which changes nothing else. What is kept of the strategies is the
list that the weighted one keeps from one call to the next.

### LifecycleManager, Application

Start and Stop hold the manager's mutex throughout; the topological sort is done
step by step under it. The services themselves are external: Start and Stop of a
service succeed or fail, except the actor system's Start, which cannot. The
application registers its two core services in Init; the program's own services are
added with any dependencies. Run and Shutdown act on the running flag before they
take the manager's mutex, which is where they can overtake each other.

### TcpConnection, ConnectionManager

The sending half of a connection: a Send tests the flag, tries the channel and, when
it is full, writes by itself; Close takes four steps after its compare-and-swap. A
frame names the Send that made it, so `wire` tells who wrote it and whether all of it
went out. `cm.mu` is a variable only where it is held across steps (`holder`). The
heartbeat loop reads the ticker and the stop channel from the manager's fields each
time it enters its select, in two steps and without the lock, as the code does.

### TcpServer, TcpClient

The server's owner calls Start and Stop; the accept loop, the handlers and the loops
that call OnConnect run beside it. `Timed` holds the connections whose reads have a
timeout; a read of another ends only when its peer sends or its socket is closed. The
client adds one message loop and one reconnect
loop with every successful connect. Peers, dials and reads are outside and may bring
anything at any time. The two share no state, so `MCEndpoints` picks one of them as
the `subject` of a behaviour; the other stays as it was made.

### MessageTransport, ClusterManager

What is done under `connMu` is one step; the readers, senders and handshakes of all
connections interleave. What a send channel holds is left out: a running sender may
write or fail at any time. The node table only ever holds the local node, because
joining through a seed is not implemented in the code, so a connection matters to the
manager only when it carries the local node's own id. A send on a closed channel and
a second close end the program (`crash`). Join without seeds may be called at any time,
also after Stop. The manager's context is derived from the one given to Start, which may
end at any time (`ContextEnds`). Under the bootstrap layer it ends as soon as Start has
returned, since `bootstrap/lifecycle.go:121` cancels it: heartbeats and failure detection
then stop, the listener stays open, and Health goes on saying healthy.

### RemoteService, ClusterRegistry

`net` holds everything that was ever sent, and any of it may be delivered at any
time, again or never. The transport is a parameter: NewRemoteService leaves its field
unset (`cluster/service.go:58`), so that in this version Call panics at line 113; the
model says what any transport can do, fail or carry the message. The reader of an answer
takes it for an error when its error text is not empty: an error without a text comes
back as a nil result, and is an answer like another here.
The answer channels have capacity one, as in the code. A restart of the calling node
starts the ids again. Of the registry one service is modelled; RegisterService tells
the watchers after it has unlocked the table, UnregisterService before.

### LoginServer, MsgServer

Nothing locks the login server's maps: its goroutines interleave at every access, and
the runtime may end the program when two are in a map at once (`MapRace`). The game
servers are external. A kick is a message whose Send may fail unnoticed: the session it
names is moved from `playing` to `kicked`, where it plays on until the kick arrives, which
may be never. The message server's `nextFD` is read for the fd, and read and written once
more to increment it; a late write sets it back. A session is named after the connection that opened it. Start and Stop of the
message server decide only whether connections come in, and are not modelled.

### Container

A Resolve holds the mutex while the factory runs. The mutex is not reentrant: a
goroutine that locks it again waits for itself (`relock`), which is what becomes of a
factory that calls any method of the container. An instance is a number
that is new among those given out for its name, and three numbers suffice for that.

### ConfigLoader, ConfigWatcher

A configuration is cut down to one field for every way in which the code treats its
fields: filled from the default and overridden by a variable that parses (port), the
same without parsing (level), always taken from the file (debug), never taken from it
and not validated (monitor). Flags are written in lower case, so that lowering them
changes nothing. The map of custom fields is left out. Reloads, by the
debounce timer or by a caller, take three steps and may overlap. Start of the watcher
is called once. fsnotify and the editing of the file are external. The loop skips events
whose name is not the one it was given; `CleanName` says that the two are spelled alike,
as they are wherever the repository starts a watcher. With `./config.yaml`, which fsnotify
reports as `config.yaml`, no event would pass. AutoLoad applies the variables to the
loader's default in place; this makes no difference while the environment does not change.

## 4. Runs

| Run | Checks | Distinct states |
|---|---|---|
| ActorRacing | AnswerIsOwn, ServesInOrder | 485,902 |
| ActorStopping | NoWorkAfterStop, CallReturns, StopReturns | 48,502 |
| Router | registration: NoGhostNames, NumbersNeverReused; sessions: ChannelsUsedOnce, AnsweredOrDropped, NoLeak | 172,971 |
| SystemShutdown | ServicesAgree, NoActorMissed, ShutdownStopsAll, ShutdownReturns | 71,467 |
| Application | StartsInOrder, DependenciesUp, NothingLeftRunning | 560,267 |
| Discovery | DiscoverIsLinearizable, WatchersUpToDate | 571,942 |
| Connections | QueuedInOrder, OffMeansJoinedOrTold, AcceptedIsWritten, StopHeartbeatReturns | 334,832 |
| Endpoints | server: HandedOnce, StopLeavesNothing, StopReturns; client: DisconnectIsFinal, Reconnects | 84,337 |
| Cluster | ClosedAtMostOnce, EventsPanicExplained, StopEndsConnections | 1,007,127 |
| Services | remote calls: OwnAnswer, RemoteCallReturns; registry: LastEventTrue; login: OneSessionPerUser; messages: FdsOwned, SeqUsedOnce; container: OneInstance; config: ConfigCatchesUp | 168,131 |

The type invariants and the invariants that only the proofs use were checked with TLC
on the same instances before they were proved; the runs keep the properties that a
reader of the code would ask for.

Two runs show a departure from what the repository says (`findings` in `PROJECT.json`
quotes the lines). ActorSendPanic refutes SendNeverPanics: Send checks the state, the loop
closes the mailbox, and the send panics. ContainerFactory refutes ResolveReturns: the
factory that `docs/stage-07-summary.md` shows resolves its dependency from the container,
whose mutex is held while it runs, and waits for ever.

Some properties hold only with an exception, which names what the code does in the
excepted case:

- `NoWorkAfterStop` and `StoppedIsFinal` need Start to have returned first. A Start
  that races Stop can spawn its loop after Stop has waited.
- `MessageOrder` and what follows from it are proved for one Start. Start does not
  change the state word, so a second Start is admitted and runs a second loop.
- `StopReturns` excepts a handler that stops its own actor, which waits for itself.
- `MessageOrder` accounts for drained messages: those are answered with an error and
  not processed.
- `NoGhostNames` excepts actors on which two operations overlapped. Then a name may
  resolve to an actor that is no longer routed.
- `ShutdownReturns` excepts a handler that waits in NewActor or NewService for the
  lock Shutdown holds.
- `ShutdownStopsAll` excepts actors whose Stop was refused between the two
  compare-and-swaps, and those whose Start was still in flight.
- `NothingLeftRunning` excepts what a failed Start left behind (Stop does nothing
  because `started` is false) and a Run that was overtaken.
- `DiscoverIsLinearizable` excepts the weighted strategy, and an error for the empty name:
  the statuses are read at different moments, and at each there may have been a healthy
  service.
- `OffMeansJoinedOrTold` allows for a loop that CloseAllConnections has told to stop: it
  turns the heartbeat off without waiting, and a StopHeartbeat after it returns at once.
- `AcceptedIsWritten` excepts a connection with a write that never ends, on a peer that
  does not read and with a WriteTimeout of 0.
- `QueuedInOrder` speaks of what the send loop writes. A Send that finds the channel
  full writes by itself, and its frame may stand anywhere between.
- `StopHeartbeatReturns` excepts a loop that has taken a tick and needs the lock
  StopHeartbeat holds, and a loop that read the fields while they were being dropped.
- `StopLeavesNothing` excepts, of the sockets, those of connections that had a message
  handler: Stop waits for the handlers first, and a handler takes its connection off the
  map without closing it. `StopReturns` of the server excepts a Stop after a second Start,
  which closes a closed channel, and a Stop that waits for a read without a timeout on a
  peer that stays quiet. The bootstrap layer leaves the timeout at 0
  (`bootstrap/application.go:168`), so there every quiet peer blocks Stop.
- `DisconnectIsFinal` excepts a connect that was under way, which survives Disconnect.
- `EventsPanicExplained` and `HealthyMeansListening`: a manager that is started again
  after Stop, or a connection under the node's own id, publishes on the closed channel
  or sets the state back to active. A Join without seeds after Stop publishes too, and
  panics in that call (`crash = "join"`).
- `OwnAnswer` ends with a restart of the caller, after which ids are used again.
- `LastEventTrue` excepts a watcher whose channel was full and one that heard of a
  registration after the removal of the same instance.
- `OneSessionPerUser` counts the sessions that were not sent a kick; whether a kick
  arrives is up to the game server. It excepts users with two logins at a time, which
  nothing keeps apart, and a login handler that repeats a subid.
- `FdsOwned` excepts fds that two goroutines took because they read `nextFD` at a time.
- `SeqUsedOnce` is about the handshakes that join a session. The number of the one that
  opened it is not remembered, since Session.Seq starts at 0 (`msgserver/msgserver.go:228`):
  that handshake, sent again, is accepted once more, although `examples/login/README.md:50`
  says that the number rules out a replay.
- `ReplacedIsOld` and `ConfigCatchesUp` except overlapping reloads; the latter also a
  file that was changed while it was not watched, and a name that fsnotify spells
  otherwise.

In most of these cases the exception is the hazard itself. Such a property does not rule
the hazard out, since the code is exposed to it; it says that nothing else goes wrong.
The notes of the hazards in `PROJECT.json` say which is which.

### Known deviations

Seen while modelling, and kept in the models as the code has them, without a run of
their own: a NewService that fails leaves its actor routed and never started
(`core/system.go:129`); `system.Call` puts the message into the source's own mailbox
(`core/system.go:196`); the weighted list is rebuilt only when its length changes, so
it can answer with a service of another name (`core/service_discovery.go:247`); the
health check writes back a status it read without the lock
(`core/service_registry.go:489`); a scoped container is said to treat scope "scoped"
like a singleton and waits for itself instead (`bootstrap/container.go`); most fields
of a configuration file are ignored by mergeConfig, and a flag the file leaves out is
off (`config/loader.go`). Outside the models: configurations of a loader share one map
of custom fields; a frame longer than its length header's type is cut
(`protocol/protocol.go:180`).

### Bounds

Two callers and a sender with a mailbox of two meet every pair of operations and a
full mailbox; one caller and a sender with a mailbox of one meet it with three
stoppers, of which one calls from the handler. Session numbers: four for two calls
in the safety run, two in the other. Router: two actors, two names and two workers,
so that operations collide on an actor, on a name and on both; the counter starts at
3 (node 1, two numbers per node) and runs to 6, three allocations, of which two lie
beyond its node's numbers. Sessions: three with two ids, so that an id wraps while a
session is live. System: three creations over one name, with the empty name and with
none, one from a handler, and one message. Application: the two core services and
two of the program's, at most two dependencies in all beyond the built-in ones, two
Runs and a Shutdown; cycles of length one and two occur. Discovery: two names, three
objects, so that the empty name finds two services and a name is registered again while
old pointers are held; one caller, two balancers, so that a caller holds an old one; one
watcher with a channel of two, so that events about one object queue behind those about
another, and are lost. A behaviour has the caller or the watcher and the health check
(`subject`): caller and watcher neither see nor delay each other, and what the health
check writes a caller of UpdateStatus may write too. Connections: one connection, a queue of one, a heartbeat frame
and a user's, two heartbeats started, so that an old loop meets the fields of the next.
Endpoints: two sockets, one with a read timeout and one without, against a limit of one and
a channel of one; two Starts; two
connections and two reconnect attempts of the client. Cluster: the node itself and a
peer, two connections, so that one replaces the other; two Starts. Services: two calls
of two callers; two registrars and two watchers with a channel of one; three clients of
one user with two subids, so that the third meets two logins at a time; three
connections of one user with sequence numbers up to two; three goroutines at one service
name (two in ContainerFactory); two reloads and two edits over files that are absent, garbled, invalid, and valid
with and without each field. Symmetry is used in Application and Discovery, where no
property or action names an element and no property is a liveness property.

Deadlock is not checked: every system here may stop for good (all calls made, all
actors stopped), and most waiting that should end is stated as a liveness property.

### Fairness

Weak fairness of each goroutine's own steps: the Go scheduler runs what can run, and
handlers are taken to return. No fairness on calling an operation, on a context's
end or on a timeout. A session's expiry and the cleanup ticker are fair because time
passes and the ticker runs for the whole life of the manager.

In the network models a read of the server ends by its timeout where it has one, and
otherwise is fair only once its socket is closed. Nothing obliges a write of the sending
goroutine to end; `AcceptedIsWritten` has in its statement that none blocks for good. The client's reads and those of the
cluster end, by data, by failure or by their deadline, dials end, and a write of the
cluster's sender ends once the connection is done. A reconnect loop that comes
back to its select again and again after Disconnect takes the cancelled branch at last
(strong fairness): select chooses at random among what is ready. A remote call's
timeout is fair, because time passes; nothing is fair about the network. The config
watcher's timers are fair, and fsnotify delivers what it has seen.

## 5. Proofs

Every safety property that a passing run checks is a theorem here, for any number of
goroutines, connections, names and messages and any value of the bounds; so are the
type invariants and a few results that no run repeats (marked +).

| Module | Theorem | Says | From |
|---|---|---|---|
| ActorProofs | TypeCorrect, StartedTypeCorrect | TypeOK + | constants only |
| | StopWaitsForLoop, StoppedStays | NoWorkAfterStop, StoppedIsFinal + | Start has returned |
| | InOrder, FinishesCurrent | MessageOrder +, CurrentMessageFinished + | one Start |
| | ImplementsServer | refinement of SequentialServer (ServesInOrder) | one Start |
| | CallGetsOwnAnswer | AnswerIsOwn | one Start, fewer calls than session numbers |
| RouterProofs | MapsStayInverse, RouterSafe | the handle maps stay inverse (MapsAgree +) | counter below its bound |
| | ImplementsDirectory, RouterImplementsDirectory | refinement of Directory (NumbersNeverReused) | counter below its bound |
| | GhostNeedsRace | NoGhostNames | counter below its bound |
| | NeverClosedTwice | ClosedAtMostOnce | the local node is one of the nodes |
| | EventsPanicsExplained, HealthyListens | EventsPanicExplained, HealthyMeansListening + | the same |
| | LastEventsTrue, NoEventsAfterClose | LastEventTrue, NoEventAfterClose + | the channels' capacity is a number |
| SessionProofs | ChannelsSafe, AnswersById | ChannelsUsedOnce, AnswersMatchId + | constants only |
| | OwnAnswersOnly | an owner gets only its own answer + | fewer sessions than ids |
| | ImplementsPromise | refinement of Promise (AnsweredOrDropped) | constants only |
| | AnswersAreOwn, NoPendingLeft | OwnAnswer, PendingAreCalling + | MaxCalls is a number |
| | InstanceIsOne | OneInstance | no goroutine is called "none" |
| SystemProofs | RegistriesAgree | ServicesAgree | the names that stand for none are no names |
| | MissesNoActor, StopsAll | NoActorMissed, ShutdownStopsAll | the same |
| | ConfigsAreValid, VariablesWin, OldIsReplaced | ConfigValid +, Precedence +, ReplacedIsOld + | the file and the variables have their types |
| ApplicationProofs | DependenciesStartFirst, NeverUpAlone | StartsInOrder, DependenciesUp | nobody is called Nobody |
| | LeavesNothingRunning | NothingLeftRunning | finitely many callers |
| | ReportedCyclesAreReal | CyclesAreReal + | the same |
| DiscoveryProofs | Linearizable | DiscoverIsLinearizable | what stands for none is no service, name or status |
| | PicturesAreExact | WatchersUpToDate | channels of capacity one at least |
| NetworkProofs | WritesInOrder | QueuedInOrder | capacity of the queue is a number |
| | OffLoopsEnd, ForgetsOnlyClosed | OffMeansJoinedOrTold, NoOrphans + | the same |
| | DisconnectsForGood, AttemptsStayBounded | DisconnectIsFinal, AttemptsBounded + | bounds are numbers |
| ServerProofs | HandsOutOnce, StopLeavesNoHandler, LimitHolds | HandedOnce, StopLeavesNothing, ConnectionLimit + | bounds are numbers |
| | MapHoldsServed, NumbersUsedOnce | FdsOwned, SeqUsedOnce | MaxPeers and MaxSeq are numbers |
| | OneSession | OneSessionPerUser | MaxClients is a number, no game server is called "none" |

Besides these each module has its `...TypeCorrect` theorems. The assumptions are the
named ASSUMEs of the models; TLC evaluates them on every run.

The inductive invariants, and why each property needs one:

- *Stop.* `StopInv` of ActorProofs: no starter is still before its spawn, a stopper past
  its wait means no loop lives, and Stopped is stored only after that. Without the first
  conjunct a loop could appear after the wait.
- *Order.* `OrderInv`: nothing was drained before the only loop is draining. This
  is what keeps the drained messages behind the taken ones.
- *Server.* `DistinctInv`: messages are accepted once, and what a loop holds is the
  last one taken, so that taking and finishing map to the server's steps.
- *Answers.* `SessionInv` (numbers of calls are distinct, because the counter has not
  wrapped), `OutcomeInv` and `AnswerInv` (every response on its way is that of its
  own message).
- *Handles.* `HandleInv`: the maps are inverse and everything handed out lies below
  the counter, so the next number is fresh. `GhostInv` adds what a worker between its
  two steps relies on while it is alone at its actor.
- *Sessions.* `SafeInv`: a session in the map has an open, empty channel and no
  verdict. `IdInv` and `AcceptedById` relate answers to ids.
- *System.* `LockInv`: s.mu has one holder, and once Shutdown has it no creation gets past
  its check; this is why the listing misses nobody. `CreationInv` says what a creation has
  done at each of its steps, so that the tables agree when it lets go of the lock also
  where it fails. `StoppingInv`: from the listing on every routed actor was stopped or is
  still on the list, and a stopped one that was not spared is `Settled`: it has no loop and
  no Start that could make one.
- *Configuration.* `ReloadInv`: only a provider with a watcher reloads; two reloads at work
  have overlapped; one that has read the old configuration holds the one in place, or
  reloads have overlapped. The lemmas `Merges`, `Overrides` and `LoadsFile` compute each
  field of what is loaded.
- *Lifecycle.* The mutex gives each phase to one caller, so each has an invariant of its
  own. `OrderInv`: what is sorted so far has its dependencies first, and `pending` is what
  remains; if nothing is left to take, what was not taken depends on itself, which is the
  cycle reported. `StartInv` and `StopInv`: of what is up, dependents come after in
  startOrder, so before in the reverse. A failed Start leaves a prefix, and the next one
  appends to it, so that a service may stand in startOrder twice; the invariants speak
  of some later occurrence for that reason.
- *Run and Shutdown.* `Enough`: the callers inside Start plus the flag `started` are no more
  than those inside Stop plus the flag `running`, unless overtaken. It is what remains of
  "everyone who starts is stopped" when several callers are at it; it rests on the
  cardinality of finite sets.
- *Discovery.* `IInv`: while a call holds services whose status it has not read yet, each
  is still under its name, or has left it, and then its status can no longer change and
  None has been right for that name since the call began; those it has read and found
  healthy were right at that moment. The lemma behind it (`RegistryStepEffect`) says that
  an object that has left its name is never written again, which the health check respects
  only because it writes by name.
- *Watchers.* `WatchInv` of DiscoveryProofs: of the events about a name in a channel the
  last is true of the table, and a name without events is pictured as it is, but for the
  name of the event that is about to be sent. The status is read through the pointer of
  the event, so a status that changes makes no waiting event false.
- *Connections.* `QueueInv`: the channel holds the last frames it took, the sending
  goroutine the one before, and the frames before that are on the wire, complete while the
  goroutine goes on. `HolderInv`: CloseAllConnections has closed what it has visited, and
  StopHeartbeat leaves nothing to visit. `HeartbeatInv`: loops that are left
  while the heartbeat is off have a closed stop channel, and a loop waits for a channel
  that is closed or can still be.
- *Server.* `HandingInv`: a connection that is in the channel or about to be published was
  handed to nobody and stands there once. `StopInv` of ServerProofs: the context stays done
  from the first Stop on, so that an accept loop started later accepts nothing; an open
  connection is on the map until its handler is done.
- *Client.* `DialInv`: one goroutine dials at a time, and it is the one the connecting flag
  stands for. `LeaveInv`: how far an undisturbed Disconnect has come.
- *Cluster.* `ConnInv`: the map's connections were made and are past their handshake,
  and one still in its handshake was never closed; so an entry of the map is the right
  to close, and only its holder uses it. `ManagerInv`: the events channel is closed by the
  last step of the one Stop; an active node listens, unless a connection under its own id
  made it active; and a connection past its handshake keeps its node.
- *Cluster's registry.* `WatchInv` of RouterProofs: the table holds no closed channel.
  `ToldInv`: what a watcher was told last is true, but "unregistered" only until a
  registration that was not overtaken tells of the next instance.
- *Remote calls.* `RemoteInv`: calls under way have different ids, all given out by
  the counter (`IdInv`); until a restart, every message under a call's id carries that
  call's argument and its channels hold nothing else (`AnswerInv`). The restart is where
  `AnswerInv` ends and why `OwnAnswer` excepts it.
- *Message server.* `MsgInv`: the counter, and what goroutines have loaded of it, stays
  within the connections counted so far,
  and an fd that two living connections have is known to be shared (`FdInv`); a session
  belongs to one user and was opened by a connection past its handshake (`SessionInv`);
  numbers with which connections joined it differ and lie below the remembered one
  (`SeqInv`).
- *Login server.* `UserKept`: of a user that never had two logins at a time one goroutine
  at most is between check and record, and what the user plays and was not sent a kick for
  is on record, found by the goroutine about to kick it, or opened by the one about to
  record it.
- *Container.* `HolderInv`: while a factory runs or a goroutine waits for itself, that
  goroutine holds the mutex, so nobody fills the instance it found missing. `GivenInv`:
  what was given out is what the map holds.

Most leaves name Zenon, which needs no types; SMT is used where there is arithmetic. One
module holds the proofs of several models that share no names; they are independent.

Only model-checked: liveness, which needs fairness and is outside the prover's reach
(`CallReturns`, both `StopReturns`, `NoLeak`, `ShutdownReturns`, `StopHeartbeatReturns`,
`AcceptedIsWritten`, `Reconnects`, `StopEndsConnections`, `RemoteCallReturns`,
`ConfigCatchesUp`). No module uses a RECURSIVE operator.

## 6. Not modelled

Within the modelled parts: statistics counters, message payloads and types,
timestamps, metadata of services (the event is modelled), queries other than by name,
formatting and parsing of addresses, `ListHandles` and other pure readers; which of the
healthy services a balancing strategy prefers. Routing
to remote nodes is a stub in the code, and so is joining a cluster through a seed. Of
the bootstrap layer: listeners and their events, Health, Configure, and what the core
services do inside their Start and Stop. Of the network layer: reading and the byte
layout of messages, statistics, options. Of the servers: the arithmetic of the key
exchange, which is one step that may fail, and Start and Stop of the message server. Of
the configuration: the fields beyond one for each treatment, and the map of custom
fields. The handle counter running into the numbers of the next node needs 2^24
allocations; the Router run passes that edge with a small span and shows that numbers
stay distinct within a node.

Whole parts: `protocol` is sequential conversion of bytes without state, `crypt` is
arithmetic out of a model checker's reach, and the examples have no state of their own
(the gate uses its connections the way the message server does).
