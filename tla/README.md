# Verification of kui-local-multi-exit

The repository runs up to 34 *exit slots* on one VPS. Every slot owns an OpenVPN
tunnel to a public VPN node, a policy-routing table that sends the slot's marked
traffic through that tunnel and nowhere else, and a SOCKS listener. Threads dial,
watch, redial and repair the slots while an operator stops, starts and
reconfigures them through a local HTTP API. Around this core stand a node agent
(`vps/agent.py`), a cloud API (`functions/api/[[path]].js`) and a realtime worker
(`realtime/src/index.js`) for the original control panel.

This directory holds TLA+ modules translated from that code, the TLC
configurations that check them and machine-checked proofs about them. Line
numbers below refer to the files in `src/`.

| File | What it is |
|---|---|
| `ExitSlots.tla`, `MCExitSlots.tla`, `ExitSlots*.cfg` | the slot lifecycle: workers, operator requests, watchdog, retry timers |
| `SlotLease.tla` | abstract specification: what the generation fence and the dial semaphore promise |
| `ExitLease.tla`, `MCExitLease.tla` | `ExitSlots` as an implementation of `SlotLease` |
| `HealthLoop.tla`, `PolicyRoutes.tla`, `NodePool.tla`, `SlotRecords.tla`, `ProxyListener.tla`, `RealmManager.tla`, `Startup.tla` | the rest of the manager container |
| `RealityGateway.tla`, `BridgeRefresh.tla`, `LiteManager.tla`, `TrafficReport.tla`, `EgressApply.tla`, `VpsPresence.tla`, `DashboardHub.tla` | gateway and bridge containers, bridge nodes, single-exit manager, node agent with the cloud, realtime channel |
| `ManagerSafety.tla`, `NodeSafety.tla`, `SystemLiveness.tla` | the modules above side by side, several to a run (section 5) |
| `MCManagerSafety.tla`, `MCNodeSafety.tla`, `ManagerSafety.cfg`, `NodeSafety.cfg`, `SystemLiveness.cfg` | the small instances of these |
| `ExitSlots_proofs`, `ExitDisable_proofs`, `ExitResources_proofs`, `PolicyRoutes_proofs`, `Manager_proofs`, `ManagerSuite_proofs`, `Node_proofs`, `NodeSuite_proofs` | proofs for every value of the constants (section 7) |
| `HealthLoop*.cfg`, `LiteManager.cfg`, `RealityGateway*.cfg`, `BridgeRefresh.cfg`, `EgressApply.cfg`, `RealmManagerState.cfg`, `SlotRecordsGap.cfg`, `StartupHang.cfg`, `MCHealthLoop.tla`, `MCLiteManager.tla`, `MCRealityGateway.tla`, `MCSlotRecords.tla` | counterexamples to documented behaviour, to be repeated by hand (section 6) |
| `PROJECT.json` | components, runs, mutants, the source lines of each definition, findings, hazards, theorems |

To repeat the checks: `tlc -config ManagerSafety.cfg MCManagerSafety` (likewise
`MCNodeSafety`), `tlc -config SystemLiveness.cfg SystemLiveness`,
`tlc -config ExitSlotsStart.cfg MCExitSlots` (any other `ExitSlots*.cfg`
likewise, except `ExitSlotsStop.cfg`, which belongs to `MCExitLease`), and
`tlapm` on each of the eight proof modules.

## 1. Inventory

### The multi-exit core (one process, many threads)

**Exit manager: slot lifecycle** (`vps/exit_manager.py`).
*State:* for each slot a `SlotRuntime` (stop event, worker thread, retry timer,
OpenVPN process, listener, preferred peer, heartbeats, one re-entrant lock), the
reservation map `_reserved_nodes` under a selection lock, the semaphore of
`KUI_DIAL_WORKERS` simultaneous dials, a semaphore of two health probes and a
shared cached reference probe.
*Operations:* `initialize`, `start_slot`, `stop_slot`, `redial_slot`,
`connect_slot_to_node`, `enable_slot`, `disable_slot`, `_connect_worker`,
`commit_ready`, `_health_loop`, `_handle_connection_failure`, `fail_slot`,
`_schedule_retry`, `_retry_failed_slot`, the four recovery passes of
`_recovery_loop`, `refresh_nodes`, `shutdown`.
*Interacts with* the store for every decision (the row's `generation` is the
fence between old and new runs), with routing, the listener and the node pool.
*Hard:* at least four kinds of thread act on a slot; the lock is taken and left
several times in each operation; a join gives up after 3 s; the final clause of a
worker runs without a lock.
*Correct when* at most one worker acts for a slot, no leftover of an old run
touches its successor's node, routes or process, nothing is left open or running
without an owner, the fail-closed rule is there whenever the port is, every
semaphore is returned, and an enabled slot is always eventually attended to.

**Slot store** (`vps/store.py`, `models.py`, `slot_config.py`).
*State:* an SQLite file: slots, cached VPN nodes, check results, events,
settings, VPS, nodes, users, third-party lists; one process-wide lock.
*Operations:* `update_slot`, `enable_slot`, `record_failure`, `set_runtime`,
`set_runtime_if_generation`, `touch_slot`, `replace_vpn_nodes`, CRUD.
*Hard:* `update_slot` reads in one transaction and writes in another.
*Correct when* generation only grows, a fenced write never lands in another
generation, and failure streak, reason and `enabled` agree.

**Policy routing** (`vps/routing.py`).
*State:* kernel: an `ip rule` per mark, a table per slot with the default route
through the tunnel and a `prohibit` route of larger metric (fail closed).
*Operations:* `install`, `cleanup`, `is_installed`, source rule.
*Hard:* several commands, each of which may fail; `install` cleans up on error.
*Correct when* marked traffic never leaves by the main route while a listener
accepts clients.

**SOCKS listener** (`vps/proxy_server.py`).
*State:* bound socket, accept thread, set of client sockets, a process-wide
connection semaphore, DNS cache.
*Operations:* `start`, `stop`, `serve_forever`, `_proxy_client`, relay, UDP relay.
*Hard:* `stop()` races `accept`; the semaphore is taken in one thread and
returned in another.
*Correct when* a stopped listener has no port and no client, and the number of
permits out equals the number of clients served.

**Node pool** (`vps/vpngate.py`).
*State:* candidates, penalties and pauses (120 s) per address, under one lock.
*Operations:* `replace`, `penalize`, `select`, `get`, `list_nodes`; also fetching
and parsing of the VPN Gate list and the probes of an egress.
*Correct when* a selected node is eligible, not excluded and not paused, and the
best one by priority.

**Local API** (`vps/local_api.py`).
*State:* sessions, rate limits; otherwise it calls the manager and the store from
one thread per request. *Operations on slots:* redial, connect to a node, enable,
disable, change of country or port (a `PUT`: stop, update, start).
*Correct when* it publishes only exits that are ready, enabled and listening, and
a request leaves the slot in the state it was asked for.

**Realm manager** (`vps/realm_manager.py`): one child process and its
configuration under a re-entrant lock; `configure`, `start`, `stop`, `restart`
(stop then start with the lock released in between), `status`. *Correct when* at
most one child runs and a stop is not undone by a restart under way.

**Runtime profile** (`vps/runtime_profile.py`): slot count, dial workers and
connection limit from the memory limit and environment overrides. *Correct when*
every combination it accepts is one the manager's constructor accepts.

**Entry point** (`vps/entrypoint.py`), **internal proxy credentials**
(`vps/internal_proxy.py`): assembly, signal handling and shutdown; one credential
file. *Correct when* shutdown runs once and stops every slot.

**Reality gateway** (`vps/reality_gateway.py`): public identities per slot, a
sing-box configuration, and a loop that checks a new configuration before it
replaces the running process. *Correct when* a configuration that fails its check
never replaces one that works, and identities are stable.

**Bridge node cache** (`vps/bridge_nodes.py`): parses lists of proxies, checks
them in parallel, caches results by key with an age, refreshes in the background.
*Correct when* a round that fails does not destroy a usable cache.

**Subscriptions and OpenVPN sources** (`vps/subscriptions.py`,
`openvpn_sources.py`, `socks5_bridge.py`): formats and parsers, HTTP downloads.

### The control-panel side (several processes and hosts)

**Single-exit manager** (`vps/lite_manager.py`): two tunnels, main and hot
standby, a configuration generation, penalties; threads fetch nodes, watch
health, switch countries and promote the standby. *Correct when* a superseded
connection attempt never becomes the main tunnel.

**Node agent** (`vps/agent.py`): reports status and traffic deltas (with a report
identifier, kept on disk until acknowledged), fetches configurations, applies an
egress change with roll-back and retry. *Correct when* every byte counted is
applied exactly once across lost answers and restarts, and a failed change ends
in the previous working configuration.

**Cloud API** (`functions/api/[[path]].js`): receives reports (a receipt per
`report_id` makes them idempotent), users, nodes, subscriptions over D1.

**Realtime client** (`vps/realtime_client.py`) and **realtime worker**
(`realtime/src/index.js`): a websocket per VPS and role to a durable object
`VpsPresence`, which drops messages by sequence number per boot, survives
hibernation and feeds `DashboardHub`. *Correct when* an old message never
overwrites a newer state and the close of a replaced socket does not mark its
successor offline.

**Dashboard, installers, container files**: user interface and deployment.

### What is hard to test

`PROJECT.json` lists 40 hazards at their lines with the properties that catch
them. Those of the slots are of five kinds: the generation is read in one step
and acted upon in a later one (`exit_manager.py:1025`, `:651`, `:435`, `:277`,
`store.py:373`); the order of closing the port and removing the fail-closed rule
(`:441`); timeouts that give up on a thread that goes on (`:375`, `:544`); a
permit that has to come back from every early return (`:1019`); states only the
watchdog gets a slot out of (`:228`, `:322`). Elsewhere they are limits shared
between threads (health permits, SOCKS connections), requests that are repeated
or overtaken (traffic reports, egress results, realtime messages, notices of
viewers), files that several containers write one after the other and die in
between, and retries that may exhaust what there is to try.

Hazards the code also has, which no property here covers: a report made with an
empty list of nodes drops all baselines once it is answered (`agent.py:1077`;
`NothingLost` is stated without nodes leaving the list); receipts are deleted
after seven days, so a report repeated later would be billed again
(`[[path]].js:1169`); after a crash between the new configuration and the restart
of sing-box a mode is reported as applied while the one before it runs, if it has
no check of its data plane (`agent.py:1038`) or one that the mode before passes,
too (`agent.py:257`, `:278`; section 6); a kicked tunnel keeps its claim, and with
one fitting node nothing is left to dial (`lite_manager.py:601`; section 6); a late
failure of a revision whose mode equals the applied one turns its status to failed
(`[[path]].js:1254`); the roll-back of a changed SOCKS5 egress uses the address
just fetched (`agent.py:1300`; modes have no parameters in the model); a
subscription that cannot be fetched counts as empty and replaces the last good
nodes (`bridge_nodes.py:796`); a dial of the single-exit manager that raises may
leave its OpenVPN process behind (`lite_manager.py:446`).

## 2. Plan

The order was that of importance: the slots and their fence, with the proofs and
the refinement; then what the slots depend on (health loop, routes, node pool,
rows, listener); then what crosses process and network borders (traffic, egress,
realtime channel, containers and their files); then the parts with threads of
their own (Realm, single-exit manager, bridge nodes, start and shutdown). All
modules planned at the beginning exist. Three planned abstractions became plain
properties, because a second specification would have said no more: the counting
semaphore of the listener (`PermitsConserved`), the counter each report is added
to once (`NeverOverbilled`, `OneContent`, `NothingLost`) and the cache of bridge
nodes (`ChainPublished`).

What would add most next, in this order:

1. `ExitSlots` composed with `PolicyRoutes` and `HealthLoop`, whose variables it
   shares in the code. Each is checked with the other at the level of whole
   steps: `ExitSlots` takes an installation as one step and a probe as one
   outcome; the other two take a slot with one worker at a time.
2. Proofs beyond the properties the runs check (section 7): the refinement of
   `SlotLease` extended by the nodes' reservations, and the weaker forms of
   `ReservationHeld` and `PublishedFailClosed` that hold in the presence of
   operator requests.
3. The tickets, rate limits and snapshot cache of the realtime worker, and the
   users, quotas and receipts' deletion of the cloud API.

## 3. `ExitSlots`: correspondence with the code

### State

| Variable | Code |
|---|---|
| `row[s]` | the lifecycle columns of `exit_slots`: `enabled`, `state`, `disabled_reason`, `failure_streak`, `entry_ip` |
| `fresh` | `generation`: the code compares it only for equality with a value recorded before, so the model keeps the set of those (workers, retry timers, threads) whose recorded value is still current; `generation + 1` is `Bumped(s)` |
| `rt[s]` | `SlotRuntime`: stop event, worker, retry timer, process, listener, `preferred_entry_ip`, dialling flag (a dial start time is set), lock holder |
| `reserved` | `_reserved_nodes` |
| `cooling` | nodes whose 120 s pause after a penalty has not passed |
| `permits` | `_dial_slots` |
| `worker[w]` | a connection thread: program counter, slot, node |
| `proc[w]` | the OpenVPN process spawned by `w`: none, starting, tunnel up |
| `port[s]` | which listener has the slot's port bound |
| `routes[s]` | the default route of the slot's table and the fail-closed rule |
| `thread[t]` | operator requests and the watchdog: program counter, operation, what it read |

### Actions

| Actions | Code |
|---|---|
| `DialCheck` … `Publish` | `_connect_worker`: semaphore, node, process, tunnel, routes, egress checks, prepared listener, `commit_ready` in its three separate parts (check, write of the row, publication under the lock) |
| `HealthCheck`, `ProbeOutcome` | `_health_loop`, `_verify_client_path`, `_diagnose_client_failure` |
| `ExceptHandler`, `HandleFailure`, `RecordFailure`, `Teardown`, `ScheduleRetry` | the `except` clause, `_handle_connection_failure`, `record_failure`, `fail_slot`, `_schedule_retry` |
| `Finally`, `Cleanup`, `Reclaim`, `Disown` | the `finally` clause: one read of the generation, then the branch it chose |
| `Request*` | `do_POST` and `do_PUT` on `/api/exits/...` |
| `StopLock`, `StopBump`, `StopClose`, `StopRoute`, `StopJoin` | `stop_slot` |
| `RedialDecide`, `ConnectDecide`, `EnableWrite`, `DisableWrite`, `ConfigureRead`, `ConfigureWrite` | what each request does between stop and start |
| `Start`, `StartLock`, `StartLaunch` | `start_slot`: test, join, test again under the lock, launch |
| `RecoverIdle` | `_try_recover_idle_slots` |
| `RecoverStale`, `Inspect`, `Repair`, `ConfirmRedial` | `_try_recover_stale_slots`, `_repair_listener`, the automatic redial |
| `ReviveScan`, `Revive` | `_try_recover_auto_disabled_slots` |
| `RetryFires` | `_retry_failed_slot` |
| `ProcessDies`, `ListenerDies`, `CoolDown` | the environment |

A step of the model is what the code does between two points at which another
thread can get in with an effect: a lock taken or released, a row read or
written, a process or socket created. Sections under one lock are split where
another thread that does not take the lock (a `finally` clause, `disable_slot`)
can act in between; that is why `stop_slot` is five steps and `fail_slot` three. What
`record_failure` returned is a snapshot that the last of these still acts on
(`exit_manager.py:526`): the program counter keeps it, `teardown` for a retry,
`retire` for a slot that reached its limit.

### What is coarser than the code

* The retry timer's callback is one step. While the failed worker still lives the
  code arms the timer again, which changes nothing in the model's state.
* The health semaphore, backoff and consecutive-failure counts are those of
  `HealthLoop`: here a probe has any of its outcomes at any time, and the shared
  reference probe is one of those outcomes.
* The single `ip` commands are those of `PolicyRoutes`, merged into install and
  cleanup.
* `update_slot` inside `stop_slot` is one step; the same function is split into
  read and write where a lock does not cover it (`Configure*`).
* `ConnectDecide` merges the write of the row with the preferred peer; `Revive`
  merges the check and `enable_slot`, which the code does under the runtime lock.
* `ReviveScan` handles one slot at a time; the code excludes in one pass the nodes
  it picked for earlier slots, which here are separate passes.
* Countries, ports and users are not data of the model: every node is eligible for
  every slot, so competition between slots is at its strongest.
* `initialize()` leaves rows and runtimes as `Init` says; the start of enabled
  slots is left to `RecoverIdle`, which takes the same steps.
* `refresh_nodes` and the recovery of the last peer are `NodePool`, `shutdown()` is
  `Startup`, the reads of `initialize()` are `SlotRecords`; statistics are left out.

Bounds, all constants: `Workers` (threads that exist at the same time; a launch
waits for one that is `Unborn`), `FailureLimit` (5 for a slot of a country,
`COUNTRY_SLOT_FAILURE_LIMIT`, 3 for one of country `ANY`, `exit_manager.py:583`), `DialPermits`,
`Stalls` (worker steps that may outlast `join(timeout=3)`: those that wait on the
network for longer), `Faults`, `Operations`, `Users`. A failure streak stops
counting at `FailureLimit`, where the code only compares with `>=`.

### The abstract specification and the refinement

`SlotLease` knows no thread, lock, process or route. Each slot has at most one
holder; `Grant` gives a free slot to a worker that holds nothing and does not
dial; `Withdraw` and `Forget` take a lease back and clear the entry; `Admit` and
`Return` move a worker into and out of the dial section, with at most
`DialPermits` inside; `Commit` writes a slot's entry and needs its holder to be
dialling. `ExitLease` maps

| `SlotLease` | `ExitSlots` |
|---|---|
| `holders[s]` | `Owners(s)`: the workers whose recorded generation is the row's |
| `dialing` | `Dialing`: the workers between acquire and release of the semaphore |
| `entry[s]` | `row[s].entry` |

`StartLaunch` and `RetryFires` are `Grant`; every bump of a generation,
`Teardown` for a retry and `Disown` are `Withdraw` or stutter; `StopRoute` is
`Forget`; a fenced `CommitWrite` is `Commit`; the permits' actions are `Admit` and
`Return`; all others stutter. What this adds to `OneOwner`: ownership never
passes from one worker to another in one step, an entry reaches a row only through
the worker that holds the lease at that moment, and never more than
`DialPermits` workers dial. `SlotLease` does not say that a worker still holds
its lease when it gets its permit (`Admit` may come too late: the code tests the
generation before and after, not while it waits).

## 4. The other modules: correspondence with the code

Every module begins with what it models and comments each variable and action
with what it stands for in the code; `PROJECT.json` names the lines of each
definition. This section says where the steps are cut and what is coarser than
the code.

### In the manager's process

| Module | Code | State | Where another thread or a failure gets in |
|---|---|---|---|
| `HealthLoop` | `_health_loop`, `_update_health`, `_handle_probe_failure`, `_repair_listener` | loop, permits of `_health_slots`, shared reference, request of a repair | around each probe, between the new listener and the request for a check |
| `PolicyRoutes` | `routing.install`, `cleanup`, `is_installed`, `fail_slot`, `stop_slot` | table and rules of one mark, port, worker, stop event | between any two `ip` commands, each of which may be refused |
| `NodePool` | `NodePool`, `refresh_nodes`, `_reserve_node`, `commit_ready`, `initialize` | pool, penalties, pauses, rows of nodes, entry and event of each slot | between the row and the event of a commit; failed providers and writes in a refresh; crash or shutdown anywhere |
| `SlotRecords` | `LocalStore.initialize`, `validate_slot_update`, `update_slot`, `ExitManager.__init__` | columns, rows, managed slots, what a request has validated | after each `ALTER TABLE`, between validation and write of a request |
| `ProxyListener` | `ProxyListener.start`, `stop`, `serve_forever`, `_proxy_client` | events, sockets, `_servers`, `_clients`, connections, permits of `CONNECTION_SLOTS` | between each two of accept, permit, set of clients and thread; between the look at `_stop` and `accept` |
| `RealmManager` | `configure`, `start`, `stop`, `restart`, `status` | stored version, `_process`, `_state`, lock, children of the operating system | between stop and start of a restart, while `stop` waits with the lock held |
| `Startup` | `resolve_runtime_profile`, `Application`, `main` | where main and signal thread are, lock, `_stopped`, manager, server | between any two steps of the two threads |

*Coarser than the code.* `HealthLoop` counts time in ticks of 15 s and at most
`MaxFaults` faults of the environment; the two targets of a probe are one
outcome; a dial is one step (`Serve`), because `ExitSlots` has its inside; an
interruption (`stop_slot`, an error of the store) may come at any point.
`PolicyRoutes` has one worker at a time and publishes its listener in one step:
overlapping workers and unpublished listeners are `ExitSlots`'. `NodePool` takes
an arbitrary subset of nodes for the answer of a provider, counts ages and pauses
only up to the values the code tells apart, and keeps penalties in thousands,
up to a bound. In `SlotRecords` slot `i` is born with port `i`. `ProxyListener` takes
a negotiation for one step with any outcome, and the SOCKS, HTTP and datagram
formats, credentials and name resolution for none. `RealmManager` replaces a
configuration by its version number. `Startup` takes the memory limit as given.

### Containers, agent and cloud

| Module | Code | State | Where a crash, a loss or another process gets in |
|---|---|---|---|
| `RealityGateway` | `reality_gateway.py`, `socks5_bridge.py`, `internal_proxy.py`, restart and dependencies of `compose.yaml` | identities, configurations, manifest and credentials on disk; what each process has read | between any two steps of each of the three containers; recreation with other settings |
| `BridgeRefresh` | `bridge_nodes.py` (refresh loop, pool of tests), `LocalAPI._bridge_nodes` | cache and its age, candidates, what each worker does, who listens at each port | between the choice of a port, the bind by sing-box and the readiness test; a killed process that lingers |
| `LiteManager` | `lite_manager.py`: `maintain_pool`, `connect_node`, `health_check_loop`, `update_config_loop`, `vpngate_fetch_loop` | the two tunnels, target, `config_generation`, `dead_ips`, reservoir, processes, threads | between any two lock sections of the five threads; processes end at any time |
| `TrafficReport` | `report_status` and its state file; the report handler of `[[path]].js` | counters, globals of the agent, file, requests under way, receipts, billed bytes | before and after each write of the file, request, answer, receipt check and batch |
| `EgressApply` | `fetch_and_apply_configs`, `build_singbox_config`, `_verify_*`, `_post_warp_result`; `egress_result` of `[[path]].js` | wanted and applied mode of the cloud, state file, configuration file, running sing-box, late results | between any two commands; answers lost, results handled late |
| `VpsPresence` | `VpsPresence` of `realtime/src/index.js`, `RealtimeChannel` | channel, messages per connection, sockets, attachments, memory and storage of the object, what is shown | between `/ws` and the answer of the hub; replaced sockets go on delivering; eviction between two events |
| `DashboardHub` | `DashboardHub` of the same file, activity of `VpsPresence` | viewers, leases, notices and answers under way | notices and answers in any order; eviction of either object |

*Coarser than the code.* In `RealityGateway` a random value is any unused member
of a small set, the check of sing-box accepts or the process dies, and the
WebSocket inbound, the public address and the text of links are left out.
`BridgeRefresh` takes any subset of the nodes for what the subscriptions name and
counts time in ticks. In `LiteManager` the order of candidates is any order of
those the filters let through, and the three failed probes in a row are one
failure. `TrafficReport` counts a few bytes per node; the name of a report is any
one that nothing remembers, chosen canonically, so its runs use no symmetry (the
same for the identities of `LiteManager`'s processes). In `EgressApply` a
configuration is the mode it was built for, and `Passes` says which running mode
passes whose check: a WARP mode wants `warp=on` for each of its families, a residential
one any IPv4 that is not the host's, and a SOCKS5 proxy given by hand may lead
anywhere, into WARP, too. `VpsPresence` has one role of one VPS;
`getWebSockets` may list any socket first and lists closing ones; display limits
decide nondeterministically whether a status is broadcast. `DashboardHub` counts
in ticks of 30 s and has no limits on viewers and no tickets.

## 5. Runs

### Several modules in one run

The three suites put modules side by side that share no variable. The variable
`focus`, chosen once by the initial state and never changed, is the part that
moves; all others stay in one initial state. Nothing is lost by that: the steps
of two parts without a common variable commute, and no property relates two of them. A part
that may come to rest (a listener that is stopped, containers that run, a channel
whose connections are used up) may stutter; in all others the deadlock check is
on and meant. A property of a suite that says `focus = "x" => X!P` holds of that
instance only; the others are stated over whatever instance shares the variables.

`system_liveness` states a property `P` of a part as `X!Fairness => X!P`, so each
assumes the fairness of its own threads and nothing of the others.

| Run | Distinct states | What it shows |
|---|---|---|
| `slots_auto` | 64 thousand | 1 slot, 1 node, 2 workers, limit 2, both faults, no requests, `FairSpec`: `ReservationHeld`, `PublishedFailClosed`, `NoLostProcess` (no leftover of an old run releases its successor's node, routes or process, wherever OpenVPN or a listener dies); `EventuallyAttended`, `StaleWorkersEnd`, `AutoDisabledRevived` |
| `slots_pair` | 434 thousand | 2 slots, 2 nodes, 1 permit, 2 workers: `DistinctEntries`, `DialPermitsBalanced` |
| `slots_stop` | 2.4 million | 1 slot, 1 user, redial and disable, limit 2: `OneOwner`, and `LeaseKept` (`ExitSlots` implements `SlotLease`); no deadlock |
| `slots_start` | 4.0 million | 1 slot, 1 user, connect, enable, configure: `NoLostListener`, no deadlock |
| `manager_safety` | 591 thousand | `HealthLoop`: `PermitsConserved`, `RepairWakes`, `OutageKeepsTunnels`; `RealmManager`: `OneForwarder`, `RestartApplies`; `ProxyListener`: `ClientsAccounted`; `Startup`: `CleanExit`; `NodePool`: `PeersChosen`; `SlotRecords`: `RecordsSound` |
| `node_safety` | 2.2 million | `VpsPresence`: `NothingFreshDropped`; `TrafficReport`: `BilledOnce`, `NothingLost`; `EgressApply`: `CloudFollowsAgent`, `ReportedModeRuns`, `VerifiedWhenSaved`; `RealityGateway`: `FilesAgree`, `UuidsKept`; `BridgeRefresh`: `ChainPublished`; `LiteManager`: `TunnelsInOrder` |
| `system_liveness` | 226 thousand | `PolicyRoutes`: `ClosedWhileOpen`; and in the end: `Converges` (dashboards show the truth), `PaceSettles` (reports at the viewers' pace), `EveryByteBilled`, `DeadExitLeft`, `MainDials`, `AllUp` |
| `manual_disable`, `open_window`, `open_leak`, `orphan_process`, `twin_entries` | violations | findings 1 to 5 |

### Bounds

*Slots.* The fence distinguishes a current worker from a superseded one, so two
workers of a slot are the interesting case, and two exist in every run; a third
(a stale one that stalls while two more are launched) needs two joins to time out
and is covered by the proof of `OneOwner`, which has no bound. Every hazard of one
slot needs one operator request at a time next to the watchdog, the retry timer
and the workers; requests of two operators only differ in the order of their
locks. `FailureLimit = 2` gives a failure that retries and one that disables; `1`
only the second. One node makes every reservation contended; two nodes and two
slots let both dial. With one permit a lost permit is a deadlock of the dial
section, and a doubled one two dialling workers. Under operator requests
that launch a worker `ReservationHeld` and `PublishedFailClosed` do *not* hold, for
the reasons the findings give; they are stated where the code keeps them, and
`slots_auto` has no user (section 7 has the proof with users who disable). `slots_auto` and `slots_pair` do not check deadlock: a system whose slots
are all disabled by hand has nothing to do.

*Manager.* Two health loops over one permit contend for it at every round; two
faults are enough for an outage that begins and ends, or for a lost path next to
a dead listener. Two Realm requests overlap in every way, two children let one
outlive the other, two versions tell an old configuration from a new one. Three
clients over one permit are one served, one turned away and one late. The node
pool has two nodes and two providers, once with penalties and once with a slot of
any country; the records four slots, three counts and three databases an earlier
version may have left: with three slots a slot that is skipped always ends the
start, with four it may also shift what the manager takes. The start is checked
for eight memory limits on both sides of every threshold and six values of each
override.

*Containers, agent and cloud.* `node_safety` holds several instances of a module
where its faults would multiply. `traffic` has two inbounds that only grow, with
failing writes, `restarts` lets counters restart, `removed` drops an inbound and
takes it back; each has crashes, four names and two handlers, so that a
repetition meets its own first copy. `NothingLost` is stated for `traffic` only: a
restarted counter or a removed inbound loses what was not reported yet, by
design. `egress` has two changes among five modes and crashes everywhere, `steady` two
changes and no crash between the new file and the restart; `ReportedModeRuns` is
stated for `steady` only, since after that crash the next pass takes the file for
what runs. The checks of the data plane catch this only where the mode that still
runs does not pass them: `VerifiedWhenSaved` states what they can tell (never
native where a tunnel was asked for, no family without WARP), and that the saved
mode itself runs, `SavedModeRuns`, is false (section 6). The gateway starts from
five identity files of earlier versions under three deployments and one crash or
change. `bridge` refreshes
without errors and with the default deployment's equality of interval and validity
(both 300 s): an entry expires just when the next refresh starts, so nodes are out
of the list while each refresh runs, which the docstring (`local_api.py:1193`)
allows, and `ChainPublished` says that it is only then; `raises` has tests that
raise: such a refresh fails as a whole and outlasts the cache, which is why `ChainPublished` is stated for `bridge`.
`lite` has one node, a switch at any moment and processes that end, `spares` two
nodes and failing probes, `broken` dials that raise, stale nodes and partial
snapshots; a dial that raises may leave its process behind, so `broken` is held
to `TunnelsInOrder` without `NoStrayProcess`. Three sockets of two channel objects are
one replaced, one closing and one new.

*Liveness.* The instances of `system_liveness` are smaller: a counterexample is a
cycle, and two of each kind of thing (sockets, health loops, tunnels,
deployments) with one or two faults are enough for one to wait on the other.
`routes` allows three refused commands and three stops. The hub has two cases: one
viewer with evictions of either object, and two viewers of different pace, an
administrator and a visitor, without evictions. `lite` there has two nodes that
fit; with a single one a kicked standby keeps it and `MainDials` is false
(section 6).

Symmetry over workers, nodes and slots is used in `slots_pair`, `slots_stop`,
`slots_start` and the violations; runs with liveness properties use none.

### Fairness

* `ExitSlots!FairSpec`: a thread that can take its next step does (strong fairness
  for the steps that need a lock other threads keep taking: they hold it for
  bounded work, and the watchdog sleeps 15 s between passes), a watchdog pass
  reaches each slot (`_recovery_loop` runs all passes over all slots), an armed
  timer fires, a pause of 120 s ends. Nothing is assumed of what fails.
* `HealthLoop`: threads take their steps, time passes, and a loop gets a permit
  that is given back again and again (it polls each second). Nothing of faults.
* `LiteManager`: its threads run on, dials and probes end (they have timeouts),
  and nodes are found. Probes may fail every time.
* `RealityGateway`: processes run on and Docker restarts and recreates
  (`restart: unless-stopped`, `docker compose up -d`). Crashes are bounded.
* `VpsPresence`: handlers run, what is on the way arrives or its connection ends,
  an open dashboard asks again. Connections are bounded.
* `DashboardHub`: time passes, notices and answers arrive, the agent reports.
  Nothing of the viewers, who may stay or go.
* `TrafficReport!EveryByteBilled` assumes in its own statement that answers keep
  arriving, and nothing else.
* `Startup`: its two threads run.

## 6. Findings

Five disagreements between the code and what its documents or comments say, each
with a run whose counterexample shows it (quotations in `PROJECT.json`):

1. `stop_slot` writes `enabled=True` back from a row it read earlier, while
   `disable_slot` writes outside the runtime lock: a watchdog redial between the
   two revives a slot that was disabled by hand (`exit_manager.py:435`).
2. `stop_slot` closes the runtime's listener before it removes the fail-closed
   rule, but a worker's prepared listener is not in the runtime yet (`:446`).
3. `commit_ready` does not test stop event and generation again when it takes the
   lock to publish, so a stop in between leaves an open port without a
   fail-closed rule and without a thread that would close it (`:651`).
4. A `PUT` on a slot read as disabled bumps the generation of a worker the
   watchdog started meanwhile without stopping it; its process can be left without
   any reference (`local_api.py:2137`).
5. The `finally` clause acts on a generation it read before: it can release the
   node its successor has reserved, and two slots become ready on one entry
   (`:1030`).

### Further divergences

Each of these can be repeated with `tlc -config <cfg> <module>`, which ends with a
counterexample:

| Configuration, module | Property | What happens, and what the repository says |
|---|---|---|
| `RealmManagerState`, `RealmManager` | `ReportsRealState` | `status()` falls back to `_state`, which nothing resets when the process ends by itself: state `running` next to running `false` (`realm_manager.py:85`); the rework plan asks for "real process state" |
| `LiteManager`, `MCLiteManager` | `MainDials` | a kicked standby keeps its claim on the only node of the country: neither tunnel is dialled again (`lite_manager.py:601`; the comment at `:561` names this exclusion as what must not happen) |
| `LiteManager` (its comment), `MCLiteManager` | `EndNoticed` | a standby whose OpenVPN ends by itself stays ready and is never filled again (`:575`, same comment) |
| `LiteManager` (its comment), `MCLiteManager` | `DistinctNodes` | the generation for a dial is read after the lock that claimed its entry was released; a switch in between lets the other tunnel take the same node (`:709`, comment at `:708`) |
| `RealityGatewayPort`, `MCRealityGateway` | `ReachesOwnExit` | the gateway computes a slot's port from its number, while a slot may be given another port (`reality_gateway.py:208`, `README.md:8`) |
| `RealityGatewayLinks`, `MCRealityGateway` | `LinksPreserved` | migrating per-slot keys gives every slot those of the first: links of the others no longer match (`:118`, docstring at `:109`) |
| `SlotRecordsGap`, `MCSlotRecords` | `BeginsWithFirst` | `INSERT OR IGNORE` skips a new slot whose port another slot was given (`store.py:277`); a start with that count is refused, and one with a smaller count manages slots 1, 2 and 4 as its first three (`exit_manager.py:89`) while gateway and bridge take 1 to 3 (`README.local.md:26`: only the first N are managed) |
| `StartupHang`, `Startup` | `ShutdownReturns` | after an `initialize()` that raises, `server.shutdown()` waits for a `serve_forever` that never began (`entrypoint.py:51`, `tests/test_entrypoint.py:57`) |
| `BridgeRefresh`, `BridgeRefresh` | `ChainPublished` | with a refresh interval above 300 s the cached nodes vanish between refreshes, not only during them (`local_api.py:1202`, docstring at `:1193`) |
| `BridgeRefresh` (its comment), `BridgeRefresh` | `ReachedItself` | two tests may pick the same port, and one candidate passes through the other's sing-box (`bridge_nodes.py:536`, docstring at `:530`) |
| `EgressApply`, `EgressApply` | `SavedModeRuns` | the agent dies between the new file and the restart (`agent.py:1021`, `:1026`); the next pass finds the file as wanted, `systemctl start` does nothing, and the old process passes the check of the new mode (`warp_dual` that of `warp_ipv4`, a SOCKS5 exit or WARP for IPv4 that of `residential`), which is saved at `:1281` (the comment at `:937` wants no traffic to fall through to another exit) |
| `HealthLoopReady`, `MCHealthLoop` | `ReadyVerified` | a probe through the dead listener that is still in flight marks the repaired slot ready (`exit_manager.py:1227`, `README.md:133`) |
| `HealthLoopOutage`, `MCHealthLoop` | `NotEveryTunnel` | an outage that ends between the probe of the tunnel and that of the reference costs every tunnel whose probe failed in it (`:1052`, docstring at `:1048`) |

And some that need no run:

* With `KUI_SLOT_COUNT=1` the automatic two or four dial workers are rejected by
  the manager at every start (`runtime_profile.py:150`, `exit_manager.py:101`;
  `README.md:32` allows 1). `WorkersOf` and `Accepted` of `Startup` are these two
  formulas.
* The `connected` event a slot's last peer is recovered from is pruned after seven
  days, also for a slot connected for longer (`exit_manager.py:178`,
  `README.md:135`); `EntryRecovered` is therefore stated for entries a row or an
  event still names.
* A slot of country `ANY` never commits: its country is compared with the node's
  (`exit_manager.py:615`, `store.py:370`); the action is `Refuse` of `NodePool`.
* A row left over from a larger slot count whose country is not allowed makes every
  start reset the countries of all managed slots (`store.py:285`).
* A round without a listener counts as a failed round: one failed SOCKS request
  may then be diagnosed (`exit_manager.py:1144`, `README.md:131` says two).

## 7. Proofs

Every safety property of a passing run has a theorem. The parts that
`ManagerSafety` and `NodeSafety` compose share no state, so `Manager_proofs` and
`Node_proofs` prove each property of the specification of one part (`Realm!Spec`,
`Traffic!Spec`), for all values of its constants, and `ManagerSuite_proofs` and
`NodeSuite_proofs` carry them over to the specification the run checks. What a theorem assumes is the `ASSUME` of its
module and the hypotheses named below, each of which the run of that property
meets.

### The slots, under any mix of requests

Proved from `ExitSlotsAssumption` alone (finitely many workers; the kinds of
identifiers are disjoint; limits are positive), for any number of slots, nodes,
workers and users:

* **`TypeCorrect`**: `Spec => []TypeOK`. `TypeOK` is inductive together with
  `Placed` (a thread or worker under way acts for a slot). One lemma per group of
  actions, small lemmas for the updates they share.
* **`OneOwnerAlways`**: `Spec => []OneOwner`: however requests, retries and the
  watchdog overlap, a slot never has two workers that the fence lets act.
  `OneOwner` is not inductive: a launch adds an owner without looking for
  another one. The strengthening is

      OwnerInv == TypeOK /\ Placed /\ LockHeld /\ OwnerAttends /\ LockExcludesOwners

  `OwnerAttends` says that an owner is the runtime's worker and that `start_slot`
  can see that the slot is attended: row in a live state, stop event clear, unless
  someone who is about to bump the generation has set it. `LockHeld` says that who
  is between taking and releasing a runtime lock is its holder, so nobody can set
  the stop event between the second test of `start_slot` and its launch.
  `LockExcludesOwners` says that between the bump of a stop and its release, and
  before a launch, the slot has no owner; nor has it one while a failure that
  disabled it is about to tear it down (`RetiredAlone`: `record_failure`
  raised the generation, and a launch needs the lock the failure still holds). `OneOwner` then follows because two
  owners would both be the runtime's worker. Each part fails without the others.
* **`DialPermitsAlways`** (`ExitResources_proofs`): `Spec => []DialPermitsBalanced`:
  permits left plus workers in the dial section equal `KUI_DIAL_WORKERS`. Every
  step is one of three (`Keeps`, `Enters`, `Leaves`): it leaves permits and
  dialling workers alone, takes one permit for one worker, or returns it.
* **`ListenerNeverLost`** (`ExitResources_proofs`): `Spec => []NoLostListener`. The
  invariant is `OwnerInv` with `PortHeld` (whoever bound the port is the runtime's
  listener, a worker between `listen` and `publish`, or the watchdog in a repair)
  and `RepairFirst` (during a repair the runtime has no listener). The second part
  is what a publishing worker needs, so that it does not overwrite a listener that
  nobody else knows; it holds because repair and publishing take the runtime lock.
* **`LeaseImplemented`** (`ExitResources_proofs`): `Spec => LeaseKept`. The invariant
  is `OwnerInv`, `DialPermitsBalanced` and `NodeChosen` (a worker past the
  selection has a node). Each step is shown to have one of a few effects on owners
  and entries (`OwnersKept`, `OwnersLost`, `OwnerGained`, `Committed`), and each
  effect to be a step of `SlotLease` or a stutter. `OwnerInv` gives what the
  guards of `SlotLease` need: no owner before a launch or behind a stop's lock, a
  single owner at a commit, and a launched worker that owned nothing.

### The slots, as long as operators only disable them

`ExitDisable_proofs` proves four properties under

    DisablesOnly == Operations \subseteq {"disable"}
                    /\ Stalls \subseteq {"verify", "probe", "probing"}

**`NodeStaysReserved`** (`ReservationHeld`), **`PublishedStaysFailClosed`**,
**`ProcessNeverLost`** and **`EntriesDistinct`**, for any number of slots, nodes,
workers, retries and operators. The hypothesis is not a convenience, it is where
the line runs: with one user who may do any one of the other requests (`connect`,
`redial`, `enable`, `configure`) TLC finds `ReservationHeld` and
`PublishedFailClosed` violated, and the runs `open_window`, `open_leak`,
`orphan_process` and `twin_entries` show what that leads to. All of these launch a
worker where the old one may still be at work. A disable launches
nothing: it stops the slot and then writes the row, and a worker that comes to a
test of the row or of its generation after that turns back. Only a redial of the
watchdog may launch one afterwards, which has read the slot as enabled and writes
that over the disable (finding 1); before it launches it waits for the old
worker itself. The join of 3 s in `stop_slot` is outlasted only by steps that
wait for an answer from the network (`Stalls` names them). The runs of these
properties (`slots_auto`, `slots_pair`) have no user, since `AutoDisabledRevived`
is false once somebody disables the slot for good; the theorems include them and
the disables.

The invariant is `DisableInv == OwnerInv /\ ReasonInv /\ SlotsInv`, where `SlotsInv`
has one part for each thing a leftover of an ended run could spoil:

* `Employed`: the runtime's worker has not ended, and only it records a failure;
* `Left`: a worker that is no longer current is past its last write to node,
  routes or row (`LateSteps`), or the thread that stops it is still after it
  (`Pursued`), or its slot was disabled over its head (`Abandoned`) and stays so
  until a redial that turns it on again is after the worker;
* `Fenced`: an owner's slot is enabled, or the owner is about to end; a slot that
  was read as disabled by the thread that holds it for a stop still is;
* `Failing`: `teardown` and `retire` run only where the slot has no owner and does not serve;
* `Window`: between the bump of its stop and its own launch the watchdog finds no
  owner, and nobody launches one behind its back: the lock is free in between,
  and a disable that slips in only disables;
* `Unserved`, `Inspected`: a worker that dials or cleans up does not find its slot
  published, and what the watchdog read of a published row is still true, unless
  the stop event tells it otherwise;
* `Guarded`: the fail-closed rule is there from `install` on, and as long as the row
  serves;
* `Registered`: a process that runs is the runtime's or about to be adopted, and
  someone who will terminate it is at work;
* `Held`: an owner that holds a node is the slot that reserved it.

`EntriesDistinct` adds that reserved and recorded entries of two slots differ,
which selection under `_reservation_lock` and the release in `finally` keep only
because of `Left` and `Held`.

### Health loops and routes

* **`HealthLoop`** (in `Manager_proofs`), for any number of slots, permits and
  faults and any delays: `HealthTypeCorrect`, **`PermitsKept`**
  (`PermitsConserved`) and **`RepairsNoticed`** (`RepairWakes`), by

      HealthInv == HealthTyped /\ PermitsConserved /\ Noticed

  The permit equation is preserved because each step is one of three for the set
  of loops that work: it stays, one loop enters and a permit goes, or one leaves
  and a permit comes back (`Stays`, `Enters`, `Leaves`). `RepairWakes` speaks of
  waiting loops only and is not inductive: a loop may go back to its wait from
  any point of a round. `Noticed` says the same of every point at which a probe
  through the new listener is not ahead anyway.
* **`OutageKept`**: `Validity <= Retry => (Spec => OutageKeepsTunnels)`. The
  hypothesis is that of the code (a reference is valid for 15 s, the first retry
  comes after 30 s). `OutageInv == HealthInv /\ Rest /\ \A s : Excuse(s)`: while the
  failures of a loop are excused, the host is down and what is left of an old
  good reference is no more than the delay to the second round, so every verdict
  is made with a reference taken during the outage. With a longer validity the
  second failed round could be judged by a reference from before it.
* **`PolicyRoutes_proofs`**, for any numbers of refused commands and stops:
  `TypeCorrect`, **`PortFailsClosed`** (`ClosedWhileOpen`), **`NothingSwallowed`**
  (`InstalledWhole`: a worker past its installation that is not stopped has both
  rules and the route to its endpoint) and **`CleanStart`** (`NoCollision`: no
  leftover makes a command of an installation fail). The invariant is

      IInv == TypeOK /\ Owned /\ Removed /\ Installed /\ InstalledWhole

  `Owned` ties the port to a worker that serves and keeps it apart from a stop that
  cleans up; `Removed` and `Installed` say what each command of cleanup and
  install finds. A stop on the other thread only removes, hence the `~stop` where
  something must be present and no such condition where something must be gone.

### The other parts of the manager container (`Manager_proofs`)

* **`ProxyClientsAccounted`** (`ProxyListener`, any number of listeners, clients and
  permits). `ProxyInv == TypeOK /\ Handed /\ PermitsConserved` and, for each
  listener, `Phased` (how far its thread may be in each phase of its owner) and
  `Followed`: before `stop()` shuts the clients down all that it must find are
  tracked; afterwards the clients it missed are at most one, the one its thread
  was handing over.
* **`RealmOneForwarder`**, **`RealmRestartApplies`** (`RealmManager`). `RealmLocked`:
  who waits for a signalled process holds the lock and nothing is recorded
  meanwhile. `RealmFresh`: a restart past its stop finds recorded only what was
  started with the setting it saw or a later one. The lock is free between stop
  and start, and another request may start first; it then reads the setting
  later, which is why the property still holds.
* **`ExitIsClean`** (`Startup`): `ShutdownInv` says that `_stopped` means someone is
  at work inside the lock or has finished it, for both threads that call it.
  **`EntryTypeCorrect`** is the type of the same part.
* **`PeersAlwaysChosen`** (`NodePool`, any pool, penalties and cooldown).
  `PoolInv == Known /\ Paused /\ Remembering`; `Paused` is the equation that pause
  left and time since the last blame make up the cooldown, over refreshes,
  crashes and restarts of the process. **`PoolTypeCorrect`** is proved apart: what a
  start loads, merges and prunes stays a set of typed records.
* **`RecordsAlwaysSound`** (`SlotRecords`, any number of slots, counts and
  databases). `RecordsInv == TypeOK /\ DistinctPorts /\ FullyMigrated`, and between
  the insertion of missing slots and the check of their number `Filled`: a slot
  that is still missing has lost its port to another row. That the slots managed
  are the first ones needs a count: as many rows with numbers from 1 on as there
  are numbers up to the count, where none is missing.

The attempt to prove the last one corrected the model's claim. `SlotRecords` used
to say that the slots managed are always the first ones, and TLC agreed on three
slots. On four it is false: a slot skipped for its port, then a smaller count,
and the slots managed are 1, 2 and 4 (`SlotRecordsGap.cfg`, section 6).
`BeginsStrict` now states the exception, and `ManagerSafety` checks four slots.

### The parts around the manager (`Node_proofs`)

* **`FreshKept`** (`VpsPresence`, any number of connections, channel objects and
  messages), with `TypeCorrect`. `PresenceInv == TypeOK /\ AllBehind /\ Greets`.
  `AllBehind`: whatever a record of the object (in memory, in storage or attached
  to a socket) claims to have seen has been accepted. This is what must survive an
  eviction or a close, after which the object adopts one of these records. With
  it a message dropped as a duplicate is one that is not newer than all accepted
  ones. `Greets` (a connection that is not online has its hello ahead, and a
  number left for it) is what the type of the sequence number needs.
* **`TrafficBilledOnce`**, **`TrafficNothingLost`** (`TrafficReport`). `TrafficInv`
  says of both ledgers, the agent's and the state file's: what they would still
  bill, together with what is billed, was served (`Covered`); a report without a
  number was never sent (`Named`); what is sent and not applied is in both
  (`Requested`). The second theorem assumes
  `GrowsOnly == TrafficFaults \cap {"reset", "delist"} = {}`: sing-box that restarts with a
  counter that is not read yet, or an inbound that is removed, loses bytes by
  design of the agent. `ExactInv` turns the inequalities into equations there.
* **`EgressFollowed`**, **`EgressVerified`**, **`EgressReported`** (`EgressApply`).
  `EgressInv`: every result under way or late names a revision the state file has,
  with its mode (`Vouched`); a pass that has read the cloud knows it is not ahead
  of the file (`Read`), and the mode it builds is new or the file's own (`Builds`).
  `EgressVerified` speaks of the check, not of the mode: it has no hypothesis, and
  allows that another mode runs which passes the same check (`SavedModeRuns`,
  section 6, is the stronger claim and false).
  `EgressReported` assumes that the agent does not die between the new file and
  the restart of sing-box (`"crashMid" \notin EgressFaults`); otherwise the next pass finds
  the file as wanted and reports it while the old mode runs.
* **`BridgePublished`** (`BridgeRefresh`): with `Interval <= MaxAge` (the default has
  300 s for both) and no test that raises, age and rest of the refresher's sleep
  add up to at most the interval, so an entry expires no earlier than the sleep
  ends. A longer interval breaks it (`BridgeRefresh.cfg`, section 6), and so does
  a test that raises, as the whole refresh fails then.
  **`BridgeTypeCorrect`** needs to know who owns which port: a worker that calls a
  sing-box its own has one that listens and was not killed (`Owned`), at a port no
  other worker calls its own (`Apart`), and its node, port and step fit together
  (`Fits`). Workers may still choose the same port, and one of them then finds
  the other's.
* **`GatewayFilesAgree`**, **`GatewayKeepsUuids`** (`RealityGateway`).
  `GatewayInv == Placed /\ LoggedIn /\ Loaded`: a process past its start has the
  credentials that everyone reads from then on, so the two that start without
  them cannot end with different ones; what a start has loaded has distinct
  uuids and one key, and is what its configuration is built from.
  **`GatewayTypeCorrect`** adds `LoadedWhole`: from the save on, what the gateway has
  loaded has a complete identity for each managed slot, so configuration and
  links lack nothing. The attempt to prove the type corrected it: `TypeOK` used to
  say that every loaded identity is complete, and TLC agreed on its files. A
  record of a slot that is not managed is kept as it is, and may lack its keys; only
  what is published is complete.
* **`LiteClaimed`** (`LiteManager`, all faults, any number of nodes, dials and
  switches): a ready tunnel is of the target country, no entry is claimed twice,
  no tunnel has two dials. `LiteInv` adds to these that a dial acts for a tunnel
  that waits for it (`Dialling`) and that nobody claims what `maintain_pool` is
  about to claim (`Chosen`). **`LiteInOrder`** (`Lite!TunnelsInOrder`: no process is
  left behind, none shares its device) needs `"raise" \notin LiteFaults`, since a dial
  that raises leaves its process; `ProcessInv` says who owns each process at each
  step of a dial, a switch and a health check.

The types of the traffic report, of egress changes and of the single-exit
manager are part of the invariants above (`TrafficTypeCorrect`,
`EgressTypeCorrect`, `LiteTypeCorrect`).

### The compositions (`ManagerSuite_proofs`, `NodeSuite_proofs`)

A lemma per part says that the composed specification implies the part's own:
`ManagerSpec => Realm!Spec`, and for parts whose variables serve several cases,
`NodeSpec /\ OnSpares => Spares!Spec`, as `focus` never changes. A case of its own is
the main instance of the part with other constants. So the whole module of proofs
is instantiated with those constants (`Any`, `Second`, `Third`), the assumptions it
makes are shown to be those of the case (`SecondAssumed`), the two instances of the
specification to be the same formula (`SparesIsSecond`), and its theorems are cited
(`Second!LiteInOrder`). Nothing is proved twice.

* **`ManagerTyped`**, **`NodeTyped`**: `AllTyped` of each composition.
* **`ManagerSafe`**, **`ManagerActs`**, **`ManagerOutage`**: the invariants and action
  properties `manager_safety` checks; only the last has a hypothesis (that of
  `OutageKept`).
* **`NodeSafe`**, **`NodeActs`**: those of `node_safety`. `ReportedModeRuns` needs no
  hypothesis here, since the case it is stated for has no crash in the middle of a
  change. **`NodeNothingLost`**, **`NodePublished`** and **`NodeTunnelsInOrder`** keep
  the hypotheses of `TrafficNothingLost`, `BridgePublished` and `LiteInOrder`.

`NodeTunnelsInOrder` corrected a property: `TunnelsInOrder` took the countries of the
main case for the spare nodes, too, and left out `ReadyIsWanted` where dials raise.
It now speaks of each case with its own constants.

### Assumptions on the constants

Beyond types they are: `TrafficReport`: a report number that is not in use can
always be drawn (it is a random 128-bit number); `RealityGateway`: stored
identities have distinct uuids and typed records, and a port a slot is moved to is
one of those the store gives out (`store.py:348`); `BridgeRefresh`: there are
finitely many candidates; `SlotRecords`: a database has no columns but those
of the table, typed rows and distinct ports (its `UNIQUE` constraint);
`LiteManager`: there are two tunnels (the code's `tun0`, `tun1`).

### Only model-checked

All liveness properties (fairness and `ENABLED` are out of the prover's reach),
hence all of `DashboardHub`, and the absence of deadlock. What the
`ExitSlots` properties under `DisablesOnly` become under the other requests is
shown by the runs that expect a violation, and by what the `slots_*` runs check
with users in their instances.

## 8. Not modelled

* **Parsers, formats and downloads**: links, subscriptions and lists of nodes
  (`subscriptions.py`, most of `bridge_nodes.py` and `openvpn_sources.py`), YAML and
  JSON output, OpenVPN profiles. They compute a value from a value; where the
  result decides something it is an arbitrary member of a small set.
* **Accounts and requests of the local API and the cloud API** other than slots,
  Realm, reports and egress: single statements over a database, without a second
  step another request could get between. Deletion of receipts, quotas and expiry
  of users belong to the same code and are left out with it.
* **Of the realtime worker** tickets, authentication, rate limits and the cache of
  snapshots; **of its client** the back-off and the fallback to HTTP.
* **Ages of heartbeats and dials** in the watchdog: in `ExitSlots` a dial may be
  found too old at any time.
* **Statistics, logs, the dashboard, installers and container files**, except for
  the restart and dependency rules of `compose.yaml`, which are part of
  `RealityGateway` and `Startup`.
