# Kubilitics in TLA+

Kubilitics is a Kubernetes manager: a Go backend (the *hub*) that a web page and a
desktop shell talk to, agents that run in remote clusters, a command-line tool,
and an AI service. These modules model the parts of it whose correctness rests on
the order in which independent things happen: goroutines around a lock that is
released during a network call, SQL statements without a transaction, processes
that crash between two writes, replies that are lost or late, and, in the page,
handlers of sockets, workers, timers and requests that outlive the render that
started them.

Every definition follows the code; `PROJECT.json` maps each to the lines it
stands for. Where a comment or a document says something the code does not do, a
run that is expected to fail shows the behaviour, or *Disagreements* lists it.

## Reading order

| Module | What it is |
|---|---|
| `CredentialAuthority` | abstract: what the hub promises about agent credentials |
| `AgentTrust` | agent pods and hub handlers, statement by statement; implements `CredentialAuthority` |
| `ClusterSessions` | one cluster in the hub: row, client pool, informers |
| `CircuitBreaker` | the breaker in front of one API server |
| `GraphEngine` | one cluster's dependency graph: informers, debounced rebuilds, cached topologies |
| `LatestPicture` | abstract: what the topology canvas promises |
| `LayoutEngine` | the canvas's layout hook with its web worker; implements `LatestPicture` |
| `ClusterPresence` | the clusters the page knows: snapshots, event stream, picker |
| `LiveStreams` | the sockets that follow the active cluster |
| `BackendStatus` | health checks, circuit and banner: what the page says of the backend |
| `*Proofs` | theorems about the module they are named after, for all values of the constants |
| `MC*` | instances for TLC; one `.cfg` per run |

In a module, an operator whose comment begins with "Mutant:" is a plausible bug.
It is used by nothing; putting it in the place of the definition it follows makes
a property fail, which shows that the property can fail.

To check: `tlc -config X.cfg MC….tla` for each run of `PROJECT.json`, and `tlapm`
on the proof modules.

## Inventory

For each part of the system: the state it keeps, what it does, whom it meets,
what is hard about it, and what makes it correct.

### Agent trust, hub side (`kubilitics-backend/internal/api/rest/agent_*.go`, `internal/repository/agent_repo.go`) — modelled

* State: `agent_clusters` (epoch, status), `bootstrap_tokens` (used, by whom),
  `agent_credentials` (hashed refresh tokens with epoch and expiry).
* Operations: mint a bootstrap token, register, heartbeat, refresh.
* Meets: agent pods over HTTPS, the TokenReview API, SQL.
* Hard: no handler uses a transaction, so any two interleave between statements;
  a registration that fails half way has already rotated the epoch.
* Correct when: a token buys one credential; a registration outranks what its
  cluster held when it was sent; what is rotated out stays out and is not
  acknowledged; a pod of another cluster never activates this one.

### Agent process (`kubilitics-agent`) — modelled

* State: the credential in memory and in the `kubilitics-agent-creds` Secret,
  which the pods of one cluster share.
* Operations: boot (load or register and save), heartbeat, refresh, clear and
  register again after a 410.
* Hard: crashes between any two steps, lost calls whose handler goes on, failing
  Secret reads and writes, two pods during a rolling update.
* Correct when: what it holds is backed by a row of the hub; it comes back after a
  410; it replaces an expired access token (the last does not hold, see
  *Disagreements*).

### Cluster service and informer lifecycle (`internal/service/cluster_service.go`, `cluster_lifecycle.go`, `overview_cache.go`) — partly modelled

* State: rows in SQL, `s.clients` (the pool), one lifecycle entry per cluster
  (state, informer manager, last access, tombstone), the overview cache's
  informers, a negative cache and a singleflight group for lazy reconnects.
* Operations: register, remove, reconnect on request, reconnect lazily, load at
  startup, activate informers on use, stop idle ones.
* Meets: every REST and WebSocket handler, the breaker inside each client.
* Hard: seconds pass between reading a row and acting on it; three paths
  reconnect; the tombstone, the row and the pool are three pieces of state.
* Correct when: one generation of informers at most, on the pool's client; a
  removed cluster ends without client and informers; idle informers stop.

### Circuit breaker (`internal/k8s/circuit_breaker.go`, `retry.go`) — modelled

* State: closed, open or half open; two counters; the time of the last failure.
* Hard: the lock is released during the call it protects.
* Correct when: a half-open circuit lets no more calls through than it may, and
  an API server that answers again is used again.

### Blast-radius engine (`internal/graph/engine.go`) — modelled

* State: fifteen informers, a debounce timer, the snapshot of the graph; beside
  it the handler's cache of built topologies.
* Operations: start, notifications that put the rebuild off, rebuilds, stop; a
  topology request reads the cache or builds and fills it.
* Hard: a rebuild lists the kinds one after the other while they change; rebuilds
  overlap; a notification outlives the engine; a cached topology was built from
  what has since been invalidated.
* Correct when: graph and cache catch up with the cluster; a stopped engine
  leaves nothing running; a ready engine shows all of the cluster (the last does not
  hold, see *Disagreements*).

### Engine manager, event pipelines and their hooks (`internal/graph/lifecycle.go`, `internal/events/manager.go`) — not modelled

* State: per cluster an engine entry with a tombstone, and a pipeline without one.
* Hard: the client is read before the entry's lock is taken; the hooks run on
  their own goroutine after the pool has changed, and only for some reconnects;
  the removal whose hooks have run may still fail; a pipeline is sized for up to
  fifteen seconds before it is installed.
* Correct when: at most one engine and one pipeline run, both on the pool's
  client; nothing of a removed cluster runs on; a cluster whose removal failed
  still has both.

### Cluster registry (`addClusterWithSource`, `kubeconfigwatch`, discovery) — not modelled

* State: the set of rows, each with context, path, server and source.
* Hard: the limit and the idempotent match are decided on a list read seconds
  before the row is written.
* Correct when: at most `maxClusters` rows, one row per context and path.

### WebSocket hub (`internal/api/websocket`) — not modelled

* State: registered clients, their send queues, the broadcast channel.
* Hard: one loop owns the map; read and write pumps run beside it; a slow client
  is dropped after five seconds; shutdown closes queues that pumps still read.
* Correct when: nobody blocks for ever; a dropped client gets nothing more; no
  queue is closed twice.

### Add-on lifecycle (`internal/addon/lifecycle`) — not modelled

* State: the install's status row, health and drift monitors, an upgrade checker.
* Hard: monitors overwrite the status of an operation in progress; a transition
  is validated against a status the caller read earlier.
* Correct when: only legal transitions are stored and no operation's status is
  overwritten by a monitor.

### CLI lock and state file (`kubilitics-cli/internal/filelock`, `state`) — not modelled

* Hard: the lock is a file, stale after 30 s and then removed by whoever sees
  it; load and save lock separately.
* Correct when: no update is lost while no holder is slow.

### Fleet discovery (`internal/cluster`), autopilot scheduler, events pipeline, OTel correlation — not modelled

Concurrent refreshes are last-writer-wins; the scheduler's cooldown is check then
create; the events pipeline starts and stops with the same hooks as the engine.

### Layout engine of the page (`kubilitics-frontend/src/topology/hooks/useElkLayout.ts`) — modelled

* State: the worker, the pending request with its closure and hard timer, the
  cached positions with their shape, the spinner, the nodes shown.
* Operations: a render asks for a layout or takes cached positions; the worker
  replies or errs; the hard timer fires; the canvas is taken down.
* Hard: replies, errors and timers of earlier renders arrive after later ones; a
  worker that has erred is let go of but not terminated.
* Correct when: the canvas never goes back to an earlier topology, the last one is
  drawn in the end, and the spinner stops.

### Cluster presence (`hooks/useClusterPresence.ts`, `stores/clusterPresenceStore.ts`, `pages/ClusterPickerPage.tsx`) — modelled

* State: the store's three lists and `isReady`, the event stream, the retry timer,
  requests in flight, additions asked for on the picker's page.
* Hard: snapshots overtake each other; an event is lost, or none is sent; retries
  must neither stop nor multiply; the stream waits for the first answer.
* Correct when: the page ends up with the backend's clusters, and keeps watching.

### Live streams (`hooks/useOverviewStream.ts`, `useBackendWebSocket.ts`, `useResourceLiveUpdates.ts`) — partly modelled

* State: per hook a socket reference, a timer reference, the active cluster, whether
  its component is mounted.
* Hard: a socket that the cleanup has closed reports its end after the next
  effect has run, through handlers that still belong to the old cluster.
* Correct when: a page that wants updates gets them again after every failure, and
  one socket serves a cluster. The latter does not hold, see *Disagreements*.
* Left out: what a message does to the query cache, and the lengths of delays.

### Backend status (`hooks/useOfflineMode.ts`, `useBackendCircuitOpen.ts`, `components/layout/BackendStatusBanner.tsx`) — modelled; request circuit (`services/api/client.ts`) — partly

* State: a count of failures and the time of the first, what the browser says of
  the network, checks and timers under way, the circuit, the banner's dismissal
  and count of retries.
* Hard: checks overlap and are handled in the order of their answers; a failure
  arms a timer whose reference the next one overwrites; dismissal and escalation
  belong to one outage.
* Correct when: no false alarm, an alarm in every lasting outage, and nothing of
  an outage left after it.
* Left out of `client.ts`: the circuit per cluster, timeouts and the retry on 429.

### Chat, cluster switch bus and other pages (`stores/chatStore.ts`, `hooks/useChatController.ts`, `stores/clusterSwitch.ts`, `pages/SimulationPage.tsx`, …) — not modelled

The bus is synchronous. What the chat and some pages do with an answer awaited
across a switch is listed under *Seen while modelling*.

### Desktop sidecar (`kubilitics-desktop/src-tauri`), AI service (`brain`) — not modelled

The sidecar supervises the backend process with retries and a port; the brain
keeps budgets and autonomy levels.

### Not worth modelling

Topology builders, diff, health score, rightsizing, YAML and template rendering
are pure functions of a snapshot with no state of their own; REST handlers that
forward to the API server keep none either. Most of the page's 190 000 lines are
forms, tables, viewers and editors: state of one component, set by one user and
rendered, with requests that react-query makes. The Helm charts, migrations and
generated code hold no behaviour beyond what the modelled parts use of them.

## Agent trust: `AgentTrust`, `CredentialAuthority`

**State.** `epoch`, `status`, `tokenState`, `usedBy` and `credRows` are the hub's
tables; `issued` numbers the tokens handed out. `req` holds the hub's handlers,
each at the statement it will run next, with what TokenReview says of its proof.
`pc`, `mem` and `call` are a pod's main loop, its memory and the call it waits for;
`secret` is one Secret per cluster. `expired` and `lapsed` are what time has done to
tokens, `outdated` the pods whose service-account token has passed its term:
`main.go` reads it once, at boot, and presents it in every registration.

**Actions.** One per SQL statement of a handler (`RegisterLookup`,
`RegisterUpsert`, `RegisterReread`, `RegisterMark`, `RegisterInsert`, …), one per
step of a pod (`LoadCreds`, `CallRegister`, `SaveCreds`, `CallHeartbeat`, …), and
the faults: a pod crashes, the hub restarts, a call is lost or given up while its
handler runs on, a handler fails at any statement, the Secret cannot be read,
written or deleted, or is restored from another cluster's backup. Access tokens,
refresh tokens, bootstrap tokens and service-account tokens expire.

| Run | Question | Bound |
|---|---|---|
| `agent_rolling` | do rotations revoke, and stay revoked, while two pods share a Secret? | 2 pods, 1 cluster, 2 handlers, 2 faults |
| `agent_recover` | is a token spent once, every held credential backed, a pod of another cluster kept out, and the promise kept? does a 410 end in a new credential? (liveness) | 2 pods of 2 clusters, 2 handlers, 1 fault |
| `agent_rotates` | is an expired access token replaced? (fails) | 2 pods, 1 cluster, 2 handlers, no fault |

`LocalPodsRecover` is about pods of the hub's own cluster, which prove who they are
with their service account, and excuses a pod once the token it has read is out of
date: from then on TokenReview refuses it, the hub answers `sa_invalid`
(`agent_register.go:109-113`), and the pod tries for ever with the same token. A pod
with a bootstrap token does not recover either, see *Disagreements*.

The hub answers every access token it cannot verify with `access_invalid`; the
agent refreshes on `access_expired` only, so against this hub no agent ever
refreshes, and `agent_rotates` fails. The refresh handler and the agent's branch for
it are code all the same, so with `NamesExpiry` the hub may answer
`access_expired`, too, as the one of the agent's tests does (`loop_test.go:43`); the
safety properties of `agent_recover` hold against both hubs at once. `agent_rolling`
and `agent_rotates` take this repository's.

Two handlers are enough for any pair of statements to interleave, and no
statement looks at more than one other row. `MaxFaults` bounds crashes and losses
in a behaviour; `MaxSerial` stops clocks once so many tokens are out, so that
expiry happens and the state space ends. Tokens that a bounded clock has not
expired simply stay valid. The symmetry used is that of the handler slots.

`RotatedOutNotAcked` speaks of heartbeats sent after the newer grant: the hub checks
the epoch one statement before it writes the row, so a heartbeat under way during
a rotation may still be acknowledged, and nothing here says otherwise.

**Fairness.** Every pod and handler that can take its next step eventually takes
it (`WF`), faults are never forced. The code justifies it: handlers are
goroutines, the pod's loop retries with a timer and has no exit.

**Refinement.** `KeepsPromise` says that the tables, under all interleavings,
behave as `CredentialAuthority`, whose variables are a subset of `AgentTrust`'s.

## One cluster in the hub: `ClusterSessions`

**State.** `row` is the cluster's row; `pool` is `s.clients[id]`; `entry` is the
lifecycle entry; `cache` the overview cache's informer manager; `live` the
managers that run and `clientOf` what each watches through. `failCache` and
`leader` are the negative cache and the singleflight call. `pc`, `cl` and `ended`
describe goroutines: where each is, the client it has in hand, whether its
context is over.

**Actions.** A step ends at a database call, a network call or the release of a
lock: `ReconnectCluster` is nine of them, `GetOrReconnectClient` four before it
joins the reconnect, `GetCluster` five, `RemoveCluster` four,
`addClusterWithSource` five, the startup load three; `EnsureActive`,
`Reconnected`, `Remove` and one visit of the sweep are atomic because the code
holds the entry's lock across them. Around them a context ends, the entry grows
idle, the negative cache expires, the process restarts and keeps only the row.

Cluster ids are UUIDs and never reused, and no modelled code relates two
clusters, so one cluster stands for all. Clients and managers are identities that
are reused once nothing refers to them: with N goroutines at most N + 1 clients
are referred to when another is made, so N + 2 never run out. They are
interchangeable, hence the symmetry (not used under liveness).

| Run | Question | Bound |
|---|---|---|
| `sessions_every` | do entry, cache and running informers agree, who buries an entry, and what parts informers from the pool's client? | 2 goroutines, all 7 operations, contexts end |
| `sessions_quiet` | is what a removal leaves always somebody's to clean, do removals end quiet, and do idle informers stop? (liveness) | 2 goroutines, in-cluster row |

`BuriedForCause` states what the tombstone is worth: it is put on a cluster whose row
is deleted, or by a reconnect that was itself cut short before it looked the row up
(`cluster_service.go:1167` takes any error of that lookup for "no such row"), and by
nobody else. The second case buries a registered cluster, and the code can meet it:
the lazy path runs under a timeout of three seconds.

`InformersFollowPool` is an action property: informers that watch through the pool's
client, or are about to be moved to it (`Following`), are parted from it only while
some goroutine is a stray, one that still holds a client which another has replaced
in the pool, or that stores a client without touching the informers
(`addClusterWithSource`). Strays do occur: two explicit reconnects that store their
clients in one order and restart the informers in the other leave the informers on
the older client for good, see *Disagreements*.

**Assumptions.** A goroutine that has read the pool calls `EnsureActive` within
the idle time (ten minutes), so the sweep does not run in between (`GoesIdle`).
`sessions_quiet` takes requests that outlive their work (`CtxMayEnd = FALSE`) and
leaves out `GetCluster`, whose own reconnect may bring a removed cluster back: adding
"view" to its operations makes `CleanupOwed` fail. That `CleanupOwed` holds for any
number of goroutines, also when contexts end, is the theorem `NothingIsForgotten`,
under the assumption `Narrow`: nobody runs `GetCluster`, registers or loads.

**Fairness.** `FairSpec`: a goroutine that has begun proceeds, and the sweep's
ticker keeps ticking. Nothing is assumed about requests arriving.

## The breaker: `CircuitBreaker`

`Execute` is two critical sections: `Enter` admits a call, and `Fail`, `Refuse`
or `Succeed` records its end. `cooled` says that `openDuration` has passed since
the last failure. Nothing bounds a call: `GetServerVersion` passes no context to
the request (`client.go:287-288`) and a client's `Timeout` may be 0, so calls of
before outlast the open time, and end while the circuit is half open or closed
again. `older` is history: the calls under way at the last failure. A call fails
whether or not the server answers, since a cancelled context counts, too
(`circuit_breaker.go:192`). `failureCount` stops at the threshold, since only
reaching it is tested.

| Run | Question | Bound |
|---|---|---|
| `breaker_closes` | how many calls does a half-open circuit admit, is a closed one short of its threshold, and does it close once calls have stopped failing? (liveness) | 4 callers, threshold 5, 2 probes |

`HalfOpenExclusive` counts the calls that have entered since the failure that opened
the circuit. All calls under way may be more, by those that are older: the counter
knows nothing of them, although `halfOpenMaxCalls` is introduced as "Max calls
allowed in half-open state" (`circuit_breaker.go:36`).

`breaker_closes` takes a server that answers no half-open call with 4xx. With
`MayRefuseProbes = TRUE` one such answer keeps the only slot, every later call is
refused although the server is back, and `Recovers` fails.

Fairness: callers keep calling, calls end (however late), time passes. Nobody is
assumed to press reconnect.

## The blast-radius engine: `GraphEngine`

**State.** `world` is what the cluster holds of each kind, as a version number;
`seen` and `synced` are the informers' caches, `pending` the notifications on
their way to the handlers. `timer`, `pc`, `got` and `snapshot` are the debounce
timer, the rebuilds under way, what each has listed, and the graph. `phase` is
the manager's reference to the engine and `cancelled` its context. `overview` is what
the overview's informers hold; `view` and `cached` are topology requests, with what
each has read so far, and the cache that they fill; `seeded` are the requests that
read the engine's listers.

**Actions.** `Change`, `Sync`, `Update` and `Resync` are the API server and
client-go; `Notify` is `markDirty`; `TimerFires`, `Collect` (one lister each),
`Store` and `OnRebuild` are `rebuild`, which runs on the timer's goroutine beside
others; `InitialRebuild` and `InitialGivesUp` are the goroutine that waits for
the first sync. `OverviewSyncs`, `OverviewHears` and `OverviewStops` are the life of
the overview's informers. A topology request begins with `BeginBuild`, which chooses
its source, a ready engine or the overview's informers (`handler.go:2569-2573`), and
ends with `CacheBuild`; in between it reads the kinds in no order, each from what
its source holds by then (`ReadsLate`), and from the API server while the overview's
informers have not synced. One engine is modelled, from `Start` to `Stop`: what
outlives it, does so in the model too, and a new engine shares nothing with it.

| Run | Question | Bound |
|---|---|---|
| `graph_catchup` | do graph and cached topology catch up, and does a stopped engine end quiet? (liveness) | 2 kinds, 1 change each, 2 rebuilds at once, 1 request |

Two rebuilds are enough for the older to store last, two kinds for a change to
fall between two listers, and one change to make a graph stale. A kind whose list
fails is left out of the topology with a warning (`recordFailure`); such a topology
is cached as any other, is as stale as its age, and is not modelled.

**Fairness.** Informers (the overview's once they have synced), rebuilds and
requests proceed, the resync of five
minutes ticks, entries grow old. The timer fires: in a cluster that comes to
rest, two seconds without a notification pass. In one that never rests they may
not, since each notification puts the rebuild off again without a limit, and
nothing is claimed about it. The resync is needed: when of two rebuilds the older
stores last, nothing is dirty any more, and the graph stays stale until the next
resync notifies.

## The topology canvas: `LayoutEngine`, `LatestPicture`

**State.** `topology` is what was rendered last, a shape (ids and view mode, the
fingerprint) with a version (all the rest); `gen`, `worker`, `cachedShape` and
`pending` are the hook's refs, a pending request with the topology its closure
has; `armed` are the hard timers; `alive` the workers neither terminated nor
collected; `shown` the topology whose nodes are positioned.

**Actions.** A JavaScript handler runs to its end, with the continuations of the
promises it settles: `Render` (with its cache hit `RenderCached` and its request
`RenderAsked`), `Reply`, `Crash`, `HardTimeout`, `Unmount`. `Settle` is what
follows the `await` in `computeLayout`, with its check of the generation.

| Run | Question | Bound |
|---|---|---|
| `layout_redraws` | does the spinner stop, is what stands without a spinner current, and does the hook implement `LatestPicture`? (safety and liveness) | 3 shapes of 2 versions, 6 renders, 4 workers |

A stale closure needs three requests (one answered, one replaced, one made), and
four workers leave room for two that have erred and live on beside a current one.
An empty topology never reaches the hook, and the layout algorithm is a function.

**Fairness.** A hard timer fires. Nothing is assumed of the worker: it may never
reply. **Refinement.** `DrawsTheLatest` is `LatestPicture` with its fairness,
`asked <- topology` and `picture <- shown`.

## The clusters the page knows: `ClusterPresence`

**State.** `truth` is the snapshot the backend would serve now, `known` and
`isReady` the store, `fetches` the requests in flight (what each is for, and its
answer once the backend has given it), `retrying` the retry timer, `sse` the event
stream, `notice` an event under way, `adding` the picker's additions.

**Actions.** `Serve`, `Receive` and `Fail` for a request; `Retry` and `Poll` for
the timers; `Connect`, `StreamError`, `Reopen` and `Message` for the stream;
`PickNew`, `AddAtBackend`, `Added` and `AddFails` for the picker; around them the
backend changes, goes down and comes up, and the page is reloaded. The backend's
side is three handlers: the snapshot (`Serve`), the stream (`Connect`, and `Tell`
for its events) and the addition (`AddAtBackend`). A request fails because the
backend is down, or because a running one answers with an error or the network
loses the answer (`GoesWrong`). Which cluster is active is left out.

| Run | Question | Bound |
|---|---|---|
| `presence_converges` | do the store and the backend agree in the end, is the stream opened again and again, do the retries stay one chain, is the stream opened once? | 2 clusters, 2 requests in flight, 3 changes, outages, picks or reloads |

Two requests overtake each other, two clusters keep one apart from a change of the
other, and three disturbances combine an outage, an error, a change and a pick.
Errors of a running backend count as disturbances, since liveness asks for an end
of them.

**Fairness.** Timers fire, requests end, and an outage ends. An event may never be
sent (`AddCluster` does not call `ManualSource.NotifyAdd`, `manual_source.go:89`) or be
dropped by a full channel. It is made
good by the poll, whose mutant `PollUntilReady` shows that it is needed.

## The sockets of the page: `LiveStreams`

**State.** A *chain* is a socket, the timer that its end arms, the socket that this
opens, and so on; `phase` and `cluster` describe each. `wsRef` and `timerRef` are
the hook's references, `target` the active cluster, `hook` which of the three
hooks it is: one spec for `useOverviewStream` and the two users of
`useBackendWebSocket` (`useTopologyLiveUpdates`, a third, is used nowhere), which
differ in what the close event and the timer use.

**Actions.** `Switch` is the cleanup of an effect followed by the next effect, with
no event between; `Mount` the notifications' first effect; `Unmount` a cleanup that
no effect follows; `Opens`, `Drops` and `Closed` the browser's events of a socket;
`Fires` a timer; `Visible` the return to the tab. The properties are about a mounted
hook; what an unmounted one leaves running is under *Seen while modelling*.

| Run | Question | Bound |
|---|---|---|
| `streams_follow` | does a page that wants a socket always have one or a way to one, is `wsRef` current, does it reconnect? (liveness) | 2 clusters, 3 chains, 2 outages, each hook |
| `streams_twice` | is there one connection per cluster, as the hook says? (fails) | overview stream, 3 chains |

Three chains are there and back, with the first one's events still to come. The
page may rest for good with no cluster active, hence no check for deadlock.

**Fairness.** A socket opens or fails, events and timers come, outages end.

## What the page says of the backend: `BackendStatus`

**State.** `sent`, `good` and `bad` count the health checks under way and their
answers not yet handled; `held` is the timer in `timerRef` and `loose` count those
it has lost; `failures` and `age` are the count and the time since the first;
`circuit`, `broken` and `ready` are the circuit, a failed call whose caller has
not learnt of it, and whether the grace period of a desktop start is over;
`dismissed`, `attempts`
and `restarting` the banner. `streak` is not in the code: the time since the
first failure after the last success, which no retry makes younger.

The page may be opened offline, and then checks nothing until it is online.

**Actions.** `Interval`, `Answer`, `Succeeds`, `Fails` and `Fire` for the checks;
`Tick` for the time; `Break`, `Open`, `Expire` and `Look` for the circuit;
`Dismiss`, `Reconnect` (from the third click of an outage through a restart of the
sidecar) and `Restarted` for the banner; the browser goes offline and online, the
backend down and up.

| Run | Question | Bound |
|---|---|---|
| `status_alarm` | is the alarm never false, raised in a lasting outage, over with it, and with it what the user did? (safety and liveness) | 3 failures over 2 ticks for an alarm, 1 plain retry, 2 checks or timers besides those the interval adds, 3 outages, offline spells and clicks |

The code's 6 failures over 90 seconds become 3 over 2: what matters is that one
threshold may be reached without the other, and that failures go on after both.
The proofs hold for all thresholds.

**Fairness.** Timers fire, requests are answered and handled, time passes. Neither
the backend nor the user owes anything.

## Disagreements

Two runs are expected to fail; each shows the code do what a sentence of the
repository denies.

| Run | What happens |
|---|---|
| `agent_rotates` | the hub answers an expired access token with `access_invalid` (`agent_heartbeat.go:54-57`), the agent refreshes on `access_expired` only (`loop.go:58`) and heartbeats with the expired token for ever, although it "rotates short-lived access JWTs every hour" (`deploy/helm/kubilitics-agent/README.md:20-21`) |
| `streams_twice` | after switching from A to B and back two overview sockets to A are open, and after A to B one to A stays that nothing will close, although "a single persistent connection per cluster handles all overview consumers" (`useOverviewStream.ts:10`) |

Instances of the other modules that show one, with one constant or line changed:

* with "view" among the operations of `sessions_quiet`, `CleanupOwed` fails:
  `GetCluster` reconnects without looking its row up again
  (`cluster_service.go:508`), against "Cluster removal cannot resurrect a cluster"
  (`docs/INFORMER-LIFECYCLE-IMPLEMENTATION.md:177`);
* with `MayRefuseProbes = TRUE`, `Recovers` fails in `breaker_closes`: a half-open
  probe answered with 404 keeps the only slot (`circuit_breaker.go:147`), against
  "Please retry after 30 seconds" (`API_DOCUMENTATION.md:214`);
* with the invariant `Ready => synced = Kinds`, `graph_catchup` fails: the debounce
  timer fires before the last informer has synced, and the engine is ready with a
  part of the cluster, against the comment at `engine.go:359`;
* with the invariant `entry.removed => row = "deleted"`, `sessions_every` fails: a
  reconnect cut short before its last lookup takes the error for a deleted row and
  buries a registered cluster (`cluster_service.go:1167`), against "true once
  RemoveCluster has run" (`cluster_lifecycle.go:85`);
* with only explicit reconnects in `sessions_every`, the invariant that the informers
  watch through the pool's client when nobody is at work fails: two reconnects store
  their clients in one order and restart the informers in the other, against
  "never new client + old informers" (`cluster_lifecycle.go:173`);
* with the invariant `state = "halfOpen" => Cardinality(inFlight) <=
  HalfOpenMaxCalls`, `breaker_closes` fails: a call that entered before the failure
  outlasts the open time, against "Max calls allowed in half-open state"
  (`circuit_breaker.go:36`).

Seen while modelling, without a run, hub and agent:

* a pod told to register again presents the bootstrap token it has already spent,
  for ever (`bootstrap.go`), or the service-account token it read at boot, which has
  a term (`main.go:59`);
* a heartbeat whose `MarkClusterSuperseded` fails is answered 410 all the same
  (`agent_heartbeat.go:85`);
* the refused replay of a token has already rotated the winner's credential out,
  since the epoch is raised before the token is marked (`agent_register.go:160`);
* two registrations may read the same epoch back and both credentials stay
  current;
* a pod may delete from the Secret the fresh credential its sibling has stored;
* registering a cluster again swaps the client under running informers;
* a tombstoned cluster that reconnects runs informers that no sweep stops;
* "Restart events pipeline for the reconnected cluster" (`handler.go:994`) starts
  nothing when a pipeline runs, and the old client stays in use.

The page:

* every switch may leave one more overview socket open, also one of a resource or
  notification hook to the new cluster, and the backend refuses the eleventh
  stream of a user and cluster (`wsAcquire`), which shells count against too;
* a hook of `useBackendWebSocket` whose component is taken down closes its socket
  (`useBackendWebSocket.ts:186`), the late close event arms a timer (90-129), and
  `connectRef` opens a socket that nobody closes, again and again; an invariant of
  `streams_follow` by which no socket is open once an unmounted hook's events and
  timers have come fails;
* a batch of `useResourceLiveUpdates` armed under the old cluster is flushed after
  a switch with the old cluster's keys and the new one's pending kinds;
* retry timers of `useOfflineMode` multiply, against its "exponential backoff"
  (`useOfflineMode.ts:6`), and go on while the browser is offline;
* "Retry once silently" (`client.ts:334`) is a recursion without a bound;
* `getClusterKubeconfig` (`clusters.ts:243`) opens the circuit of the whole backend
  for one cluster's failure, and `resetBackendCircuit` with a cluster leaves it open;
* chat: a connection lost in the middle of a turn leaves it streaming, and nothing
  reconnects although the panel says 'Reconnecting…' (`ChatPanel.tsx:246`); a
  message awaited across a switch goes out over the next cluster's socket; frames
  are applied to the last turn, whichever they answer; the late close event of an
  old client sets the state of the new one;
* a simulation that ends after a switch shows its result under the new cluster
  (`SimulationPage.tsx:122`); logging out clears stores past the switch bus
  (`Header.tsx:242`);
* the picker's addition that ends late overrides a later pick.

## Proofs

All theorems hold for every value of the constants that satisfies the named
assumptions of the modules; those only give the constants their types (and say
that the callers of a breaker are finitely many).

* `AgentTrustProofs!TypeCorrect`: the type invariant, with `CredsInHand`: a pod
  past bootstrap has a credential in memory and a handler that needs one has it.
  It is inductive as it stands, one lemma per kind of step.
* `AgentTrustProofs!TokensAreSingleUse`: `SingleUse` is not inductive, since a
  handler between the mark and the insert is about to break it unless it alone
  holds the token. `GrantInv` adds that (`SpentForGrant`), and that the epoch a
  registration has read back is one its cluster has reached (`EpochReached`).
* `AgentTrustProofs!HubKeepsPromise`: every step of `AgentTrust` maps, under
  `GrantInv`, to a step of `CredentialAuthority` or leaves its variables alone.
* `AgentTrustProofs!RotationIsFinal`: `NoRevival`, an action property. Rows are
  never rewritten, so what it needs beside the types is that no statement, fault
  or restart lowers a cluster's epoch (`EpochsOnlyGrow`, one case per step).
* `AgentTrustProofs!RegistrationsRevoke`, `RotatedOutIsRefused`: proved together,
  from `RankInv`. Neither is inductive. What a registration outranks is decided by
  its upsert, long before the insert, so `Outranks` carries the claim through the
  re-read and the mark, where other registrations may raise the epoch once more;
  `RowsKnown` numbers the rows and keeps them within their cluster's epoch, and
  `SentEarlier` says that no request was sent after the last serial. Most steps
  grant nothing; `Calm` says what these have in common and is shown to keep the
  invariant once (`CalmKeeps`), so that only the four statements that grant are
  treated on their own.
* `AgentTrustProofs!CredentialsAreBacked`: `HeldCredentialsBacked`. A step either
  hands on a credential that somebody held (`OnlyHandedOn`) or is one of the two
  that make one: a registration, which writes the row it answers with
  (`InsertBacks`), and a refresh (`RefreshBacks`), which signs the cluster's epoch
  into a new access token. That the row it finds by the refresh token is the one
  that backed the agent's credential takes unique serials, from `RowsKnown`.
* `ClusterSessionsProofs!TypeCorrect`: the type invariant, with the client in hand
  where a step needs one. `EntryIsWhole`: the entry, the cache and the running
  informers agree (`NoHalfState`), inductive with the types.
* `ClusterSessionsProofs!NothingIsForgotten`: `CleanupOwed`, under `Narrow` (see
  above). It is not inductive: one must know what each step of a cleaner still
  owes. `Owed` says it: as long as the row is deleted, a client in the pool has a
  worker at a step that drops it (`DropsClient`), running informers have one at a
  step that stops them (`DropsInformers`), and an entry without tombstone has one
  who will bury it (`Buries`), or else the cluster was left by an earlier process
  (`Dead`): no client, no informers, and every worker at a step that gets no
  further than the missing row (`Harmless`).
* `ClusterSessionsProofs!GoneForGood`: the half of `RemovedGoesQuiet` that is
  about safety, for all seven operations and cancelled requests: once nobody is
  past the lookup of the row (`Restless`), and a request that still carries a
  client finds the entry buried, no operation and no restart gives the cluster a
  client or informers again (`Gone`). That `Gone` is reached is the other half,
  which needs fairness.
* `ClusterSessionsProofs!EntriesAreBuriedForCause`: `BuriedForCause`, for all seven
  operations, any number of goroutines and contexts that end at any time. A rollback
  buries an entry two steps after the lookup failed, so `Buried` says of each
  goroutine what it knows: past the first lookup the row is not unborn (`AfterRow`),
  and who is about to bury has seen it deleted (`AfterDelete`), or is a reconnect at
  its rollback whose context is over.
* `ClusterSessionsProofs!InformersFollow`: `InformersFollowPool`, for all operations,
  cut requests, sweeps and restarts. The types and `EntryIsWhole` suffice; the proof
  shows for each step that stores a client, starts informers or stops them that it
  keeps `Following` unless it is a stray's.
* `GraphEngineProofs!TypeCorrect`: the type invariant, by which a stored graph has
  one version of every kind (`Listing` is the step that completes a list).
* `GraphEngineProofs!StoppedStaysQuiet`: the half of `StopEndsQuiet` that is about
  safety. An engine that is gone is cancelled (`Ended`), so its informers notify
  no more, and what restarts the timer of a stopped engine is only what was under
  way.
* `GraphEngineProofs!NeverAhead`: what the informers, the lists under way, the
  graph, the requests and the cache hold of a kind the cluster has held before
  (`NothingAhead`, inductive with the types), however they lag behind each other.
* `CircuitBreakerProofs!ProbesAreLimited`, `ThresholdOpens`, `BreakerTypes`: from
  `Counted`. Nobody enters an open circuit that has not cooled, and a failure makes
  every call under way older, so an open circuit has no probes; once it is half open,
  each probe has been counted, while calls of before come and go uncounted, however
  long they take. `ThresholdOpens` is `ClosedIsHealthy`, for every way of closing.
* `LayoutEngineProofs!LayoutTypes`, `RequestsAreServed`, `SpinnerStops`,
  `SettledIsCurrent`: the three invariants of the hook are inductive together with
  the types and `Current`: what is pending under the latest generation was asked
  for the topology on the canvas. `HookImplementsPicture`: under the same
  invariant each step is an `Ask`, a `Draw` or a `Clear` of `LatestPicture`, or
  leaves asked and drawn alone (the fairness part of `DrawsTheLatest` is left to
  TLC).
* `ClusterPresenceProofs!RetriesDoNotMultiply`, `OneStream`: inductive together;
  `OneRetryChain` says that a chained request and the armed timer exclude each
  other, which is what keeps a failure from starting a second chain, and
  `StreamFollowsFirst` ties the closed stream to the first request.
* `LiveStreamsProofs!StaysInTouch`, `RefStaysCurrent`: each inductive with the
  types. `NeverDeaf` survives a close event because the event arms the timer of
  its own chain whatever `wsRef` holds.
* `BackendStatusProofs!AlarmIsHonest`: `NoFalseAlarm` alone is not inductive: the
  alarm is raised on the age that a retry makes younger, and `Within` says that it
  is never older than the streak. `OutageLeavesNothing`: `OutageOver` is
  inductive, since dismissals and retries need a banner. `StatusTypes`: the types,
  by which no circuit opens in the grace period, only a desktop
  application restarts its backend, and a first failure has its time only while
  there are failures (`Order`).

Every invariant and action property of the passing runs is thus a theorem,
`CleanupOwed` of `ClusterSessions` under the hypothesis named. Only model-checked is liveness
under fairness, which the prover does not reach, nor `ENABLED`:
`LocalPodsRecover`, `RemovedGoesQuiet`, `IdleStops`, `Recovers`
(of the breaker and of the page), `SnapshotCatchesUp`, `CacheCatchesUp`,
`StopEndsQuiet`, `Settles`, `DrawsTheLatest`, `Converges`, `Watches`, `Reconnects`
and `Alarms`. What a recursive definition computes for every input is out of reach
too, because the library's induction theorems take an operator as a parameter; no
module so far needs it, and none declares a RECURSIVE operator, with which the
prover would lose its SMT backend.

## Plan

1. *Done*: `AgentTrust` with `CredentialAuthority`, `ClusterSessions`,
   `CircuitBreaker`, `GraphEngine`, and their theorems.
2. *Done*: the page: `LayoutEngine` with `LatestPicture`, `ClusterPresence`,
   `LiveStreams`, `BackendStatus`, and their theorems.
3. `WebSocketHub`: loop, pumps, shutdown. A read pump that ends after the loop
   waits for ever on the unbuffered unregister channel (`client.go:106`); the
   broadcast holds the read lock while it waits for slow clients (`hub.go:93`).
4. `Chat`: one client per cluster, turns, frames.
5. `ClusterHooks`: engine manager and event pipelines over the pool of
   `ClusterSessions`. An engine may start on a client that a reconnect has replaced
   (`graph/lifecycle.go:235`); a removal that fails after its hooks leaves the
   cluster without them (`handler.go:965`); a pipeline may be installed after the
   cluster's stop (`events/manager.go:184`).
6. `ClusterRegistry`: rows, limit and duplicates, with the kubeconfig watcher as a
   second writer (`kubeconfigwatch/sync.go:118`).
7. `AddonLifecycle`: status row, operations, monitors (`state_machine.go:44`,
   `controller.go:172`, `controller.go:239`, `maintenance_window.go:93`).
8. `FileLock` and the CLI's state file, with an abstract lock it should implement
   (`filelock.go:28`, `filelock.go:68`, `namespace.go:51`); the autopilot scheduler
   (`scheduler.go:98`), the desktop sidecar, discovery.
9. Proofs: *done* for every invariant the runs check. Left: `CleanupOwed` with
   registrations that start before the removal, and the theorems of the modules
   above as they are written.
