# A TLA+ verification of bifrost-proxy

bifrost-proxy is a Kafka L7 proxy written in Go. Every business unit (BU) owns a
port and two Kafka clusters, *primary* and *secondary*, and is served in one of
three modes: `single`, `active_passive` (one cluster serves, the other stands by)
and `load_balance` (weights). This directory models the parts of it that keep
state under concurrency, checks them with TLC on small instances and proves the
most important invariants with TLAPS for every value of the constants.

Paths below are relative to the repository (`src/`).

## 1. Inventory

| Component | Source | State | Operations | Acts on |
|---|---|---|---|---|
| DR state machine | `internal/failover/state.go` | one of PRIMARIO, SECUNDARIO, DRAINING, BOTH_DOWN per BU | Initialize, State, Transition (read + validate, compare + commit, callbacks) | calls the coordinator's callback |
| Failover controller | `internal/failover/controller.go` | hysteresis per cluster, last failover, sliding window, tripped breaker, state held in BOTH_DOWN | RecordHealthResult, Evaluate, BothDownActiveCluster | Transition |
| Failover manager | `internal/failover/manager.go` | controllers, checker | sync every second, Reconfigure, SetChecker | the controllers |
| DR coordinator | `internal/proxy/dr_coordinator.go` | none of its own | two callbacks, TargetForRouting | drain manager, state machine |
| Drain manager | `internal/proxy/drain.go` | drains with their timers, registered connections, a counter | Register, Unregister, StartDrain, forceCloseOld | connections, drain-complete callback |
| Connection handler | `internal/proxy/connection.go` | one goroutine per client | route, register, dial, SASL, metadata, passthrough | coordinator, drain manager, router |
| Hot reload | `cmd/proxy/main.go`, `internal/config/reloader.go`, `watcher.go` | current configuration | debounce, load, diff, callbacks | state machine, manager, checker, listener |
| Health checker | `internal/health/` | hysteresis per endpoint | probe loop per cluster, Health | read by manager, rebalancer, HTTP |
| Connection pool | `internal/pool/pool.go` | idle channel, semaphore per broker | Get, Put, idle cleanup, health check | used by the router |
| Leader cache | `internal/pool/leader_cache.go` | leader per partition | GetLeader, Refresh, Invalidate, background refresh | used by the router |
| Router | `internal/routing/data.go` | effective weights | Route, UpdateConfig, SetEffectiveWeights | cache, pool |
| Rebalancer (load_balance) | `internal/routing/rebalance.go` | health memory, recovery flags | tick, handleDown, handleUp, UpdateConfig | router's weights |
| Legacy rebalancer | `internal/failover/rebalance.go` | endpoint states, failover history | SelectTarget, RecordSuccess, RecordFailure | connection handler |
| Listener | `internal/proxy/listener.go` | listeners, rebalancer, cache | Start, SetHealthChecker, RefreshClusters, Close | all of the above |
| Metadata | `internal/routing/metadata.go`, `synthetic_metadata.go` | none | rewrite of one response, merge of two | called by the connection handler |
| SASL | `internal/routing/sasl.go` | per connection: authenticated | relay of round trips until another frame comes | client and upstream connections |
| Codec, HTTP, dashboard, logger | `internal/protocol`, `internal/server`, `internal/logger` | none that routing depends on | encoding, reporting | – |

How they interact for an `active_passive` BU: the checker's verdicts reach the
controller once a second through `Manager.sync`; the controller (or the reload
callback, when the operator edits `active:`) asks the state machine for
DRAINING; the coordinator's callback starts a drain, whose timer later
force-closes the connections of the old cluster, removes the drain and asks for
the new state. Connection handlers read the state, the drain and the controller
without a common lock.

For a `load_balance` BU the checker's verdicts reach `routing.Rebalancer` every
second; it writes the router's effective weights, which decide where new
connections go (`selectLoadBalanceTarget`) and where the partitions of a Produce
or Fetch go (`selectClusterByWeight`). Connection handlers also report the outcome
of their dials to the legacy rebalancer, whose verdict is only asked for when the
router has no usable weights. `Route` finds the broker in the leader cache,
refreshing it on a miss, and borrows a connection from the pool. A reload replaces
checker and rebalancer and starts, stops and invalidates leader-cache loops, on a
goroutine of its own.

### What is hard in it

* `Transition` validates and commits in two critical sections, and runs its
  callback after both. Between the commit of DRAINING and `StartDrain`, and
  between the removal of a drain and the completing transition, the BU is
  DRAINING without a drain.
* `time.Timer.Stop` loses against a timer that has fired: two `forceCloseOld`
  may be under way, and each removes *whatever* drain is in the map.
* Aborting a drain (the controller goes straight back to a cluster) leaves its
  timer armed.
* A reload replaces the controllers, with their hysteresis, cooldown and breaker,
  in the middle of a round of the old ones. Its callback runs on a timer goroutine
  outside the reloader's lock, so that callbacks of two reloads overlap.
* A BU that a reload adds has no entry in the state machine; its first transition
  creates one in whatever state is asked for.
* A handler chooses its cluster before it registers with the drain manager; the
  count of connections and the map of connections change at different moments.
* The pool counts connections with one channel and stores them in another; the
  cleanup holds the mutex while it sends on the second.
* A tick of the rebalancer compares two snapshots of health: everything that
  happens between two ticks is folded into one transition, and up to four handlers
  write the weights in turn.
* `Rebalancer.Stop` waits for a goroutine that may never have been started.
* A refresh of the leader cache swaps the map long after the broker answered.
* The connection handler waits without deadlines, on two connections, two copy
  goroutines and the pool, a failed interception has already consumed bytes, and a
  panic in it ends the process.

`PROJECT.json` lists these and the other hazards at their lines, with the
properties that cover them.

### What correctness means, per component

* State machine, drains: the state follows its graph; a BU never gets stuck in
  DRAINING; every drain in the map has a timer that will remove it; connections
  are counted once and uncounted once.
* Controller: failovers are spaced by the cooldown; a tripped breaker silences it
  but cannot strand a BU in BOTH_DOWN; an outage of the primary does lead to the
  secondary.
* Reload: a change of `active:` ends on the configured cluster (which the code
  guarantees only for a BU that is settled when the callback asks); the callback
  returns; no loop is lost or left without a registration.
* Connections: a drain closes old connections only; in BOTH_DOWN traffic does not
  flap; a handler answers or closes, and gives everything back, unless a silent
  peer or a full pool holds it up.
* Pool: one slot per connection, nothing blocks on the bounded channel, and to its
  users it is a bounded pool.
* Load balance: weights follow health down at once and up only after the minimum
  uptime, return to the configured ones, and are what the split uses.
* Legacy rebalancer: bounded flapping, no ping-pong, only endpoints that are up.
* Leader cache: converges to the present leaders whatever slow fetches overwrite.
* Metadata: a merged answer is usable, complete and names only the proxy's address.

## 2. Modules

| Module | Models |
|---|---|
| `DRStates` | the vocabulary: clusters, states, `isValidTransition`, `stateToTarget` |
| `DRFailover` | one BU: state machine, controller, manager, drain timers, overlapping reload callbacks, health and time |
| `DRFailover_proofs` | its inductive invariant; drains, BOTH_DOWN, the state graph, spaced failovers |
| `DRRouting` | EXTENDS `DRFailover` with client connections: TargetForRouting, Register, Unregister, the connections a timer closes |
| `DRRouting_proofs` | the connection count, routing in BOTH_DOWN and which connections a drain closes, on top of `DRFailover_proofs` |
| `ConnectionPool` | one broker's pool: Get, Put, cleanup, health check, request handlers |
| `BoundedPool` | what a pool promises its users, without channels and goroutines; `ConnectionPool` implements it |
| `ConnectionPool_proofs` | slots, absence of blocking, and the refinement of `BoundedPool` |
| `LoadBalance` | one load_balance BU: HealthState and checker, Rebalancer, the router's weights and their split, Listener start, reload and close |
| `LoadBalance_proofs` | weights, their split, failback, and loops that one applied reload does not lose |
| `LegacyRebalancer` | `failover.Rebalancer`: endpoint states, cooldown, shared circuit breaker, SelectTarget |
| `LegacyRebalancer_proofs` | the breaker's bound, the cooldown and the choice of targets |
| `LeaderCache` | the leader cache, its loops, handlers in Route, reloads |
| `LeaderCache_proofs` | refresh loops across overlapping reloads |
| `MetadataMerge` | rewriting and merging of Metadata responses, as operators |
| `ConnectionHandler` | EXTENDS `MetadataMerge`: the life of one client connection, with SASL, interception, Route and passthrough |
| `ConnectionHandler_proofs` | its types, and the merge for responses of any length |
| `WindowLemmas` | least elements of sets of numbers, and what pruning a window of ages leaves: shared by the proofs |
| `MC…` | constants and symmetry for TLC, one per checked module |

The modules meet where the code hands over one value: `DRRouting` composes DR
state, drains and connections; `LoadBalance` composes checker, rebalancer, router
and listener; `ConnectionHandler` takes the chosen cluster, the leader and the
pooled connection as arbitrary, because `DRRouting`, `LoadBalance`, `LeaderCache`
and `ConnectionPool` say what they can be.

### DRFailover

`state` is the BU's entry in the state machine, `NoState` before it has one. `tr[g]`
is the `Transition` call goroutine `g` executes: `pc` is `read`, `commit` or
`callback`, one step each (`TransitionRead`, `TransitionCommit`, `StartDrain`). A BU
without an entry gets one in the first step, in the state asked for
(`TransitionCreate`). `drain` is the entry in
`DrainManager.drains`; `timer[t]` is where the timer function stands: `armed`,
then `close` (force-close), `delete` (remove the drain), `complete` (the
coordinator's callback). A timer can be stopped only while it is armed.

`ctrls` holds one controller per reconfiguration, because a round of the manager
may still use the one a reload has replaced (`sgen` against `installed`). A round
is `SyncRecord` (both health results), one `Evaluate…` action per outcome, the
transition it asked for and the tail after it (`BothDownReturn`,
`FailoverReturn`); the controller's mutex is held from Evaluate to the tail.
`reload[r]` is a reload callback: `ReloadBegin` (the configuration is swapped;
DRAINING is asked for if `active` changed or the BU is new, which `DiffClusters`
reports in the same way), `Reconfigure`, `SetChecker`, in the order of `main.go`,
each callback with the configuration it was called with and a `Transition` of its
own. Any number of them overlap; they share `main`'s checker variable (`newChecker`),
so that one may hand the manager the checker of another. `ReloadUnnoticed` is a
reload whose diff is empty. `NoConfig` is the configuration of a process that does
not have the BU.

Abstractions: time is a tick. The code's ages and counters only grow; the model keeps
one up to the threshold it is compared with (`UpTo`), beyond which no comparison tells
values apart, and states no property of that bound. The checker is a Boolean per
cluster that may flip between rounds and is reset to healthy by a reload
(`NewHealthState` starts healthy). Metrics and logs are left out. `MaxReloads` bounds
the number of reloads, `ReloadIds` and `TimerIds` how many callbacks and timers run
at the same time.

### DRRouting

A connection is `absent`, reads the state (`RouteRead`), then the drain or the
controller (`RouteReadDrain`, `RouteReadHold`, the latter under the controller's
mutex), is `routed`, `counted` when `Register` has incremented the counter and
`open` when it is in the tracker's map. `RForceClose` takes the old cluster's
connections out of the map in one critical section (`taken`); `CloseTaken` closes
and uncounts them one by one, while their handlers may return (`gone`).
`conn[c].after` and `held` are history: which timers were running when the
connection began to route, and where this stay in BOTH_DOWN sent its first
connection.

### ConnectionPool and BoundedPool

`idle` and `waitq` together are Go's buffered channel `bp.idle`: a send goes to the
longest waiting receiver, and to the buffer only if nobody waits. `sem` is the
number of slots taken. `pc[g]` follows the code of `Get` (`try_idle`, `try_slot`,
`block`, `wait`, `dial`, `discard`, `giveup`) and `Put` (`put`, `send`); the
cleanup goroutine has its own `cpc` and `batch` and holds the mutex unless it
sleeps. A connection is only known to be expired or not: the pool looks at nothing
else, and `Route` puts a connection back whatever happened to it. The model has
one broker; `Close`, which nothing but tests calls, is left out.

`BoundedPool` knows users with a connection (`lent`) and a number of `spare`
connections, at most `MaxSize` together. The refinement maps whoever owns a slot
to `lent` and the buffered and drained connections to `spare`.

### LoadBalance

`hs[k][c]` is the HealthState of cluster `c` in checker generation `k`: the
verdict, the streak of results against it, and the age of `upSince`. `weights` is
the router's entry for the BU. `reb[g]` is a rebalancer: `loop` is `new` (created,
not started), `starting`, `running`, `done`; `stopped` says that `stopCh` is
closed; `prev` and `recovering` are `prevHealthy` and `primaryRecovering`. One tick
is one action, as it runs under the rebalancer's mutex; its four handlers are
operators applied in the code's order. `rl[i]` follows a reload callback through
`ReplaceChecker`, `SetHealthChecker` (which may wait in `Stop`) and
`RefreshClusters` (which may too). A replaced checker stays as it is while a
rebalancer still reads it. `DiffReloads` says which reloads may report a cluster
difference; the others only swap the configuration.

Abstractions: weights are out of `Percent`; probes succeed or fail; the two
clusters are probed alternately; an unstarted rebalancer's `Stop` is the wait that
nothing ends. A `Stop` tests and closes `stopCh` in one step (see the hazards).

### LegacyRebalancer

One `endpointState` per cluster and the shared `failoverHistory`, as ages; counters
and ages are kept up to what they are compared with, as in `DRFailover`. Dials
succeed or fail by `reachable`, which the environment changes. History entries are
dropped when they leave the window instead of at the next promotion, the only
place where they are counted.

### LeaderCache

What is cached of a bootstrap address is the *version* of its leadership that a
fetch saw. A refresh is `fetchMetadata` (the broker answers) and, any time later,
`Refresh` (the map is swapped). Loops are numbered by their start; `stopped` holds
those whose channel is closed. In a `Leaderless` version the partition asked for
has no leader and is not cached, a `Garbled` version is refused as a whole, a
`Secured` cluster answers only if `ConfigureSASL` has run for it. `rl[i]` follows
the leader-cache half of `RefreshClusters`: it reads `ActiveClusters` once, starts the
loops that are missing, then stops and invalidates those of its snapshot (`drop`)
that the new configuration does not have, one by one.

### MetadataMerge and ConnectionHandler

A response is its list of brokers, its list of topics with their leaders, and how
far the code can parse it. The merge is written as the code's loop, one element
of the concatenated lists at a time (`AppendNew`), as a recursive function.

`pc` follows `handleConnection`: `register`, `dial`, `first` and `sasl` (the SASL
loop), `decide`, then one of the interceptions (`body`, `ap_write`, `ap_wait`,
`lb_wait`) and its `reply`, `forward`, or Route (`route_read` … `route_wait`,
`route_reply`), `pass` while the copies run, `return` for the deferred calls. It is
`crashed` where the handler panics, which nothing recovers from: a Metadata request
whose client id is longer than its size says (`ReadBodyPanics`) and a Produce whose
body is too short for the transactional id's length (`RouteReadPanics`). `sent` is
what the bootstrap connection has got of the first frame: `half` is a header whose
body an interception has swallowed, `again` a header after a whole frame. `unread`
says that a response of impossible size was refused and its body left on that
connection (`ApRefuses`); the copy then passes it on as a `stray` answer. `copy` has
one goroutine per direction, each in a read or a write. `client` is `gone` when the
peer has closed it, or a drain has. `Blocked` says where the handler sits in a call
that only somebody else can end.

Some definitions stand for many lines of which they keep only whether they succeed:
the probe of an endpoint (`checkEndpoint`), the SASL exchange of the leader cache
(`saslAuth`), and the parsing of responses and request bodies
(`parseMetadataResponseV0`, `TopicsParse`, `ParseRequestBody`).

## 3. Runs

| Run | Checks | Bounds | States |
|---|---|---|---|
| `dr_reload` | `TypeOK`, `DrainHasTimer`, `DrainingNotOrphaned`, `BothDownRecoverable`, `StateFollowsGraph` | a BU that the first of 2 reloads adds and the second may switch, both clusters fail at will, breaker after 1 failover, 2 timers | 2.8 million |
| `dr_live` | `FailoversSpaced`, and `DrainingEnds`, `BothDownEnds`, `FailoverHappens` under fairness | thresholds 1, cooldown 1, window 1, failback, both clusters fail at will; the breaker does not trip | 304 thousand |
| `routing_reload` | `RTypeOK`, `NewConnectionsUnaffected`, `CountExact`, `SettledSwitchTakesEffect` under fairness | BU without auto_failover switched back and forth by 3 reloads, 2 of which overlap, one connection at a time, 2 timers | 59 thousand |
| `routing_hold` | `BothDownNeverFlaps` | one connection at a time, both clusters fail at will | 1.7 million |
| `pool` | `TypeOK`, `SlotsAccounted`, `NeverStuck`, `PutReturns`, `ImplementsBoundedPool` under fairness | pool of 2, two handlers + health check + cleanup | 10.9 thousand |
| `load_balance` | `TypeOK`, `HealthyMeansConfigured`, `SplitFollowsWeights`, `NoStrayLoop`, `SlowFailback`, `WeightsReturn` under fairness | thresholds 1, uptime 1 tick, weights 7/3, one applied reload and one that only swaps the configuration, auto_rebalance on or off | 133 thousand |
| `legacy` | `TypeOK`, `FlapsBounded`, `OnlyUpSelected`, `NoPingPong`, `RecoversForGood` under fairness | thresholds 2, uptime 2, cooldown 3, window 7, 3 failovers | 67 thousand |
| `leader_cache` | `TypeOK`, `NoLeakedLoop`, `RefreshersMatchConfig`, `CacheConverges` under fairness | one bootstrap, 2 reloads that add or remove it, one handler, 2 leadership changes | 73 thousand |
| `handler` | `TypeOK`, `MergeFaithful`, `HandlerEnds`, `AnsweredOrClosed` under fairness | all modes, 2 SASL round trips, responses of 1–2 brokers and 0–2 topics with overlapping ids and names, or cut off; peers and pool may fall silent | 93 thousand |

Why these bounds are enough to be interesting: two timers are what it takes for a
stale timer to meet the drain of its successor, and a third could only repeat
that; two reloads add a BU and replace its controller under a running round, three
of which two overlap can switch, revert while draining and switch again; a cooldown
of one tick makes a failover wait for it; three users on two slots make `Get` block; one tick of uptime tells a stable primary
from one that flaps between two ticks of the rebalancer; a cooldown shorter than
half the window lets the breaker and the cooldown refuse on their own; the keys of the
leader cache do not interact, and two reloads remove and re-add one while a fetch
of the first loop is still under way; two brokers and two topics per cluster give
every overlap a merge can have. `CHECK_DEADLOCK FALSE` appears only in `handler`,
whose connection ends. The invariants proved in section 4 do not depend on the
bounds.

Two applied reloads of a load_balance BU that overlap are the subject of
`lb_reload_violation`; the invariants of `load_balance` hold for them as well (set
`DiffReloads = {1, 2}`, `SPECIFICATION Spec` and leave the liveness properties out:
1.7 million states). Three overlapping ones are a different matter, see below.

Three runs expect a violation: they state what a comment or a document of the
repository says and show that the code does otherwise.

| Run | The statement | What happens |
|---|---|---|
| `pool_wait_violation` | `pool.go:108`: Get blocks until … an idle connection is closed | closing a connection frees a slot and wakes nobody |
| `lb_reload_violation` | README: the proxy applies changes without restart | `SetHealthChecker` replaces the running rebalancer by one nobody starts; the next reload waits for ever in its `Stop` |
| `reload_lost_violation` | `README.md:268`: changing `active:` triggers a drain cycle before routing switches | changed back while the BU is DRAINING, the second transition is a self-transition and is dropped; the BU stays on the cluster that is not configured |

### Observations

Disagreements and limits met while modelling that have no run of their own:

* A reload that switches `active:` of a BU *with* auto_failover and
  recovery_threshold > 1 is undone: the new controller knows no healthy cluster,
  moves DRAINING to BOTH_DOWN, and recovery prefers the primary (README.md:268
  says the switch goes through a drain cycle). The same start-up assumption takes
  every BU through BOTH_DOWN when the process starts. `SettledSwitchTakesEffect` is
  therefore checked without auto_failover. A switch that meets BOTH_DOWN is lost too:
  DRAINING cannot be entered from there.
* `state.go:87-89` says a Transition on an uninitialised BU is a no-op; the code
  creates the entry (`state.go:146-164`). A BU that a reload adds therefore starts in
  DRAINING, with a drain from the primary to the primary whatever its `active:` says,
  ends on the primary, and the drain's timer closes the connections it has accepted in
  the meantime.
* BOTH_DOWN entered during a failback holds the cluster being drained;
  `controller.go:220` says "the destination cluster".
* The timer of an aborted drain later closes connections opened after the abort;
  `drain.go:165` says new connections are unaffected. `NewConnectionsUnaffected` is
  checked where drains are not aborted.
* A handler that chose its cluster before DRAINING and registers after the
  force-close stays on the old cluster after the switch (`state.go:7`). A
  connection routed between the commit of DRAINING and `StartDrain` is sent to the
  primary even if it is being drained.
* `Route` puts back the connection it has closed, or left in the middle of an
  answer (`data.go:613`), and `isAlive` only looks at its age;
  `docs/broker-rollout.md:53` says "Pool removes the broken connection".
* `routing/rebalance.go:6-7` says a DOWN shifts weight at once. While a recovery of
  the primary is pending it need not: lines 273-280 run after the handlers of the same
  tick and restore both configured weights, to a primary that has gone down again
  (its zero `upSince` counts as a long uptime, line 184) and to a secondary that goes
  down in the tick in which the recovery completes. The weight that returns to a
  cluster that is down stays there until its next transition. No property states the
  immediate shift, and `SlowFailback` speaks of a primary that is healthy.
* A reload that changes only weights or `health_check` is stored but not applied
  (`DiffClusters`). Switching auto_rebalance off while weights are shifted leaves
  them at 0/100. The verdict of the legacy rebalancer is asked for only when the
  router has no weights.
* `failover/rebalance.go:14-16` says that an endpoint whose breaker trips is locked in
  DOWN "until manual intervention". The code locks nothing: `promoteToUp` asks the
  breaker again on every success, and once the window has passed the endpoint comes
  up. `RecoversForGood` takes no side: it speaks of behaviours in which the breaker
  never trips.
* Two reloads that overlap may leave a configured bootstrap without a refresh loop,
  or a removed one with it (`RefreshersMatchConfig` speaks of the others). An entry
  that was invalidated comes back with a fetch under way.
* Three applied reloads that overlap may lose a running rebalancer: the first waits
  in `SetHealthChecker` for the old loop (`listener.go:153`), the second stores nil
  (`listener.go:205`), the third finds nil, creates and starts one, and the first
  then overwrites it (`listener.go:155`). The lost loop goes on writing weights. The
  attempt to prove `NoStrayLoop` for any number of reloads led to it; TLC shows it in
  16 states with three differing reloads.
* One partition whose leader is not among the brokers makes the whole refresh fail.
* When one cluster does not answer, `synthetic_metadata.go:15-16` promises the healthy
  one's response "with brokers rewritten". The code keeps that only if the primary's
  response parses: if it is missing or cut off the merge fails, and the client is sent
  the remaining response with the brokers' own addresses. A response of
  active_passive that cannot be rewritten is sent as it is. `MergeFaithful` speaks of
  merged answers; that every client is told the proxy's address is not a property the
  code has. `single` BUs are
  never rewritten; the two Metadata requests of load_balance go out on fresh,
  unauthenticated connections; only the first frame of a connection is intercepted.
* An interception that fails after reading the request forwards a header without a
  body, or the header of a frame the broker has already got; the client waits until
  one side closes. If it failed because the response was too large, the response's
  body is still on the connection (`connection.go:478-482`) and the passthrough
  copies it to the client (`connection.go:422`), unrewritten and without its size.
* `connection.go:451` and `:520` allocate the size of the frame less what the header
  took, `data.go:181` reads a length before it checks that it is there: where the
  former is negative or the latter missing the handler panics, and as nothing
  recovers, the process ends.
* A broker that keeps its connection open without answering, or a pool without a
  connection to give, holds a handler whose client has gone, with its registration
  and its connections, for as long as that lasts (`HandlerEnds` says: no longer, and
  nothing else does).
* For active_passive, `Route` goes to the configured active cluster, not to the one
  the DR state names.

### Fairness

`Fairness` of `DRFailover` is weak fairness for every goroutine's next step, for
timers and for the manager's ticker: the Go scheduler runs every runnable
goroutine, an armed timer fires, the ticker keeps ticking, and a reload callback that
has begun goes on. Time is strongly
fair (`Tick` is disabled inside a round only because ages are not read there).
Reloads and health changes carry no fairness: nobody promises them. In the pool,
mutex acquisitions are strongly fair (Go's mutex has a starvation mode), requests
end, both tickers tick, and new requests are not promised. In `LoadBalance` and
`LeaderCache` goroutines, tickers and probes run, every fetch and probe ends (both
have deadlines), and a loop whose stop channel is closed does not choose its ticker
for ever (`select` chooses at random); reloads, shutdown, requests and the network
promise nothing. In `LegacyRebalancer` connections keep being made to both
clusters: without them it learns nothing. In `ConnectionHandler` only those steps of
the handler are fair in which it is not `Blocked`, and the end of a copy whose
connection has ended. Nothing is assumed of clients, brokers and the pool: they may
be silent for ever, and the two liveness properties name that outcome.

## 4. Proofs

Every safety invariant and every action property that a passing run checks is also
a theorem, for every value of the constants (`NewConnectionsUnaffected`, `NoStrayLoop`
and `MergeFaithful` under a hypothesis). `PROJECT.json` lists them. The runs and
the proofs use the same definitions; each inductive invariant below was an invariant
of a TLC run before it was proved.

The assumptions are those the modules name and TLC evaluates: positive thresholds,
natural durations and bounds, configurations of the right type, names that do not
clash (timers and goroutines, handlers and loops), finitely many connections,
responses of the right type. Three theorems have a hypothesis of their own, because
the property is false without it: a BU without auto_failover (`NeverAuto`), at most
one applied reload (`BalanceNoStraySingle`) and `ClustersWellFormed`, explained below.

### DRFailover_proofs

`TypeCorrect`, `DrainsHaveTimers`, `NeverOrphaned`, `RecoverableFromBothDown` and the
action property `FollowsGraph`, for any thresholds, cooldown, window, number of
timers and number of overlapping reloads, also those that add the BU.

None of these is inductive alone. `IInv` adds what each goroutine may be asking
for: `CallsOK` (a pending commit is an edge of the graph, only DRAINING has a
callback, a timer asks for a cluster, a reload callback for DRAINING and only before
it reconfigures, the manager for what its round decided), `SyncOK` (a round that enters BOTH_DOWN has an untripped
controller, a round that triggered a failover does not see the BU in BOTH_DOWN)
and `GenerationsOK` (a controller a reload has just installed is not tripped).
The heart of `NeverOrphaned` is that whoever removes the drain remembers its
destination, so a stale timer that takes out its successor's drain completes it.
`RecoverableFromBothDown` rests on two facts: only a failover trips the breaker,
and a failover is triggered out of PRIMARIO or SECUNDARIO by the one goroutine
that could enter BOTH_DOWN.

`SpacedFailovers` (`FailoversSpaced`) needs a link between the two clocks of a
controller: the newest entry, as long as it is inside the window, is at least as
old as the last failover (`Spaced`). Only then does the cooldown, which looks at the
last failover, say anything about the window. Pruning the window keeps a suffix of it
(`WindowLemmas`), so spacing survives.

### DRRouting_proofs

`RoutingTypeCorrect`, `RoutingCountExact` and `RoutingNeverFlaps`, for any number of
connections, on top of the invariant of `DRFailover`, whose step lemmas are reused:
every action of the composition is a step of the core or leaves it alone.
`CountExact` is a cardinality: each action moves at most one connection into or out
of the counted ones, or some from the map to a timer's batch. `RoutingNeverFlaps`
adds to the invariant that what BOTH_DOWN's first connection was told is still what
the controller holds (`HeldOK`).

`RoutingNewUnaffected` assumes `NeverAuto`, a BU that is configured from the start, and
always without auto_failover; otherwise the property is false, as the observations on aborted drains and on added BUs say. Its invariant
(`ManualIInv`) says that the manager sleeps, and that at most one goroutine is in
charge of a drain (`OneInCharge`), whose timer points away from the cluster that new
connections are sent to.

### ConnectionPool_proofs

`PoolTypeCorrect`, `EverySlotAccounted` and `PoolNeverStuck`, for every pool size and
every finite set of handlers. The inductive invariant is `TypeOK`, `SlotsAccounted`
and `QueueOK` (the queued receivers are those that wait, each once); the last is
needed because a hand-over turns a waiting goroutine into an owner of the sender's
slot. `NeverStuck` follows by counting: who sends owns a slot, so at most
`MaxSize - 1` connections are in the buffer.

`PoolImplementsBoundedPool` is the refinement: the initial state maps to the initial
state of `BoundedPool`, and every step of the channel, the semaphore and the
goroutines maps to one of its steps or to a stutter. The bound of an abstract `Open`
comes from `SlotsAccounted`.

### LoadBalance_proofs

`BalanceTypeCorrect`, `BalanceSplit`, `BalanceRestored` and the action property
`BalanceSlowFailback`, for every pair of weights, threshold and uptime and any number
of overlapping reloads. `LBInv` adds to the types that the
reloads under way have generations left for what they may still create
(`GenerationsLeft`, a cardinality), that the weights complement each other, that a
rebalancer has seen both clusters or neither, and what generation 1 is before the
first reload.

`BalanceNoStraySingle` (`NoStrayLoop`) has at most one reload that reports a difference,
next to any number that do not, and assumes nothing about the scheduling. `NoStrayLoop`
is inductive with `WaitsForOwn` (a callback that waits in `Stop` waits for the
rebalancer the listener still holds, which has been told to stop). Another callback
that moves in the listener breaks `WaitsForOwn`: two of them do no harm in the
instance TLC explores, three break the property (section 3), so nothing is claimed
beyond one.

### LegacyRebalancer_proofs

`LegacyTypeCorrect`, `LegacyFlapsBounded`, `LegacyOnlyUpSelected` and the action property
`LegacyNoPingPong`. Part of `TypeOK` is `CountersAgree`: an endpoint's status agrees with
its streak of results, which the two thresholds maintain. The invariant adds `WeightFollowsStatus`, `UpIsCooled` (an endpoint
that is up failed a cooldown ago or never) and `HistoryOrdered`. The breaker is asked on the
way up and fed on the way down: the bound is one more than the breaker's because an
endpoint that is already up may still fail when the allowance is used up.

### LeaderCache_proofs

`CacheTypeCorrect`, `CacheNoLeakedLoop`, `CacheMatchesConfig` and `CacheRegisteredRuns`
(a registered loop is alive and has not been told to stop), for any set of clusters
and configurations and any number of overlapping reloads. The invariant adds
`JobsOK`, `StartsLeft` (each reload still has its loop numbers left) and `ReloadsOK`,
what a reload's snapshot says while no other one has interfered. The first version
of the model let a reload invalidate whatever was not configured at that moment; the
attempt to prove `ReloadsOK` exposed that the code uses the snapshot taken before,
and the model was corrected.

### ConnectionHandler_proofs

`HandlerTypeCorrect`, for any responses and any behaviour of clients, brokers and pool.
`HInv` adds to the types `Quiet`: before the first frame is dealt with nothing has been
answered and no copy runs.

`HandlerMergeFaithful` speaks of responses of any length. It assumes
`ClustersWellFormed`: what a cluster sends lists no node and no topic twice and only
leaders it lists, without which no merge could. The induction over the lists is a
least-counterexample argument (`LeastNatural`): `MergeSteps` exhibits the function
that the recursive definition describes, the sequences it yields grow by `AppendNew`,
and the smallest index at which a claim about them fails is impossible.

### What stays with TLC

The liveness properties (`DrainingEnds`, `BothDownEnds`, `FailoverHappens`,
`SettledSwitchTakesEffect`, `PutReturns`, `WeightsReturn`, `RecoversForGood`,
`CacheConverges`, `HandlerEnds`, `AnsweredOrClosed`): fairness and ENABLED are out of the
prover's reach. So are the three violations, which are counterexamples.

## 5. Plan

The safety properties of the runs are proved. What would say more:

1. The liveness arguments rest on safety facts that can be proved for every
   instance and are now only implied by the liveness runs: who makes the next step
   while a BU is DRAINING, while a `Get` waits, while weights are shifted.
2. An abstract specification of the DR switch (serving, draining, serving the
   other) that `DRFailover` implements.

## 6. Not modelled

* The byte layout of Kafka frames (`internal/protocol`, the per-version encoding in
  `metadata.go` and `synthetic_metadata.go`, request bodies in `data.go`): stateless
  conversions, abstracted to the lists they carry and to whether they parse.
* YAML decoding, defaults and validation, TLS set-up, fsnotify and the debounce of
  the watcher: run once per load or connection; a reload is an event.
* HTTP endpoints, metrics, the dashboard and logging: they only read.
* Code nothing in the program calls: `handlePlaintextConnection`,
  `HandleSASLPassthrough`, `MetadataTarget`, `TriggerRefresh`, `SetLeader` and
  `StopAllBackgroundRefreshes` of the leader cache, `Rebalancer.ResetWeights`,
  `ConfigChangeHandler`, `config.Watcher`,
  `ResetCircuitBreaker`, `StateMachine.Remove`, `ConnectionPool.Close`.
* Probe intervals, latency grades and message contents of the health checker: the
  rebalancer and the controller see its verdicts only.
