# A TLA+ development for xjp-deploy-agent

The agent (Rust, tokio, axum) runs on a build or production host. It takes
`POST /trigger/:project` requests from a Deploy Center, runs the project's
deployment (script, docker build, docker compose, xiaojincut), streams its log,
and keeps the accepted tasks in `queue.json` so that they survive a restart. Beside
that it is one end of a WebSocket tunnel, supervises two helper processes,
updates itself, reports its own log, and takes part in service discovery.

Paths below are relative to the repository's `src/` crate directory.

## Inventory

| Part | State | Operations | What is hard | What makes it correct |
|---|---|---|---|---|
| Deploy engine: `api/deploy.rs`, `services/deploy/{mod,context}.rs`, `state/app_state.rs` | `running_deploys`, `deploy_queue` (one lock each), a handler per request, a driver per directly started or recovered deployment | `trigger_deploy`, `execute`, `execute_single`, `process_queue`, `finish`, queue cleanup | check and act under different locks, two `unregister` calls per deployment, callers that hang up, crashes | an accepted task is never lost, has one place, ends, and ends once; a busy project has an owner and becomes free |
| Queue persistence: `services/queue_persistence.rs` | in-memory list, `queue.json` | `add_task`, `remove_task`, `update_task_status`, `save`, `load` | saves that fail, crashes between memory, file and engine | the file has every accepted task that has not run |
| Task store, log hub: `state/{task_store,log_hub}.rs` | active map, bounded history, log channels | `create`, `update_status`, `finish`, `cleanup_stale`; `create`, `finish`, `cleanup_expired` | `finish` takes two locks | what is shown is what the engine does; nothing leaks |
| Recovery: `lib.rs` | - | `recover_persisted_tasks`, then cleanup loop and HTTP server | recovered drivers run while recovery goes on | every recorded task is brought back and runs |
| Strategies, command runner, Deploy Center client | stages, child process, retries | `execute` of each strategy, `finish` on every exit | timeout, cancellation, notifications that fail, deployments that meet in Docker | every exit finishes the task once with stages that fit; no unverified image goes into service |
| Log stream: `api/deploy.rs`, `state/log_hub.rs` | broadcast channel, its senders and readers | subscribe, lag, close | output tasks and readers outlive the deployment | lines in order, streams that end |
| Tunnel server: `services/tunnel/server.rs`, `state/tunnel_state.rs`, `state/port_listener_manager.rs` | client map, listeners, port bindings, connections, pending HTTP requests | Config, Takeover, cleanup, bind, unbind, switch, proxy | sessions of one client overlap; cleanup by client id; bounded channels under locks | no binding outlives its session; a live client keeps its ports |
| Tunnel client: `services/tunnel/client.rs` | connection, local connections | connect loop, takeover | reconnects, takeover during update | a client is reachable again after a loss |
| Auto update, restart: `services/{autoupdate,restart}.rs` | pending update, in-progress flag | check, defer, download, canary, restart with takeover | races with deployments | no deployment is killed by an update; a pending update happens |
| NFA and FRP supervisors: `services/{nfa,frp}.rs` | desired state, child, restart count | start, stop, restart, supervise | stop during the back-off | no process is lost; a wanted service runs in the end |
| Mesh, LAN discovery, router: `services/{mesh,service_router}.rs`, `services/lan_discovery` | peers, endpoint caches | register, heartbeat, resolve, expire | stale caches, two looks at one table | an endpoint handed out was confirmed within the timeouts on its way; a steady peer is used |
| Log reporter: `services/log_reporter.rs` | time of the last report | report | batches, failed reports, whole seconds | no line falls between two reports |
| SSH server, Windows service, configuration, authentication, query API | little or none | - | - | not modelled, see `PROJECT.json` |

How they interact: the handler, the drivers, the cleanup loop and recovery share
the maps of `AppState`; each call takes one map's lock and releases it before the
next call, and no lock spans two maps. Drivers are `tokio::spawn`ed; handlers are
futures of the HTTP server, dropped when their caller goes away. A driver that
finishes tells the Deploy Center and drains its project's queue; the last one of
all may trigger a pending update. Tunnel sessions share the client map and the
listeners in the same style.

`PROJECT.json` lists the hazards at their lines; each names the properties that
would catch it, or says why none does.

## Modules

| Module | Models |
|---|---|
| `Retain` | `Vec::retain` / `VecDeque::retain`, by rank instead of recursion, so that it can be proved about |
| `QueuePersistence` | the persisted list and its operations |
| `TaskStore` | the active map and the history |
| `DeployEngine` | handlers, drivers, cleanup, crash and recovery over these |
| `DeployEngineInv` | the inductive invariants of the proofs |
| `MCDeploy` | instances for TLC |
| `DeployEngineProofs` | theorems: the filter `Retained`, types, registrations, durability |
| `DeployTaskProofs` | theorems: what becomes of one task, in the queue, the records, the store and the history |
| `TunnelServer`, `MCTunnel`, `TunnelServerProofs` | tunnel sessions, client map and port bindings; instances; theorems |
| `AutoUpdate`, `MCUpdate`, `AutoUpdateProofs` | check, deferral, download, verification, replacement, restart and takeover, against deployments, crashes and releases; instances; theorems |
| `DeployContext` | what the strategies share: stages, cancel token, `finish`, `do_notify` |
| `ComposeStrategy`, `BuildStrategy`, `Strategies` | each extends the one before: the blue-green compose deployment and the Docker daemon; the image build and the registry; script, xiaojincut and the composition of all four |
| `StrategiesProofs` | theorems about all four strategies |
| `LogStream` | a deployment's log channel and its SSE readers |
| `NfaSupervisor` | the supervised process, the loop and the API calls |
| `LogReporter` | the reports of the agent's journal |
| `MCAgent` | one run of `Strategies`, `LogStream`, `NfaSupervisor`, `LogReporter` |
| `Pipe` | abstract specification: what one direction of a tunnelled connection promises |
| `TunnelLink` | connections and proxied requests through server, WebSocket and client, with bounded channels and locks; implements `Pipe` twice |
| `TunnelLinkInv`, `TunnelLinkProofs`, `TunnelPipeProofs` | its inductive invariants; theorems about its entries; the refinement of `Pipe` |
| `ServiceDiscovery` | LAN peers, mesh cache and service router |
| `ServicesProofs` | theorems about `LogStream`, `NfaSupervisor`, `LogReporter` and `ServiceDiscovery` |
| `MCLink` | one run of `TunnelLink` and `ServiceDiscovery` |

**DeployEngine.** `pc[r]` is the position of the handler of request `r`, `drv[d]`
that of the driver which `d`'s handler (or recovered record) spawned, `cur[d]` the
request it is deploying. `running`, `queue`, `tasks`, `history`, `channels`, `mem`
and `disk` are the shared maps and the file. A step is one call on one shared map;
calls on a task's own entry (no other actor reads or writes it at that point) are
joined to a neighbouring step. A strategy's work is the single step `FinishTask`,
which ends in success or failure: every exit of the four strategies calls
`DeployContext::finish` once. `TriggerDropped*` is the caller's hang-up at each
await of the handler, `Crash` the death of the process at any moment, `RecoverSkip`
a project whose configuration cannot be fetched. `finished`, `expired`, `skipped`
are history variables. The file is replaced by a rename, so a save either happens
or not; that the operating system may lose a completed write is not modelled. A file
that cannot be read or parsed counts as empty and is overwritten by the next save, as in
`load` (`LoadMayFail`). The daily cleanup drops any log channel: `LogHub::cleanup_expired`
asks for age and for subscribers, not for the deployment, and nothing bounds how long a
deployment lasts.

**TunnelServer.** `pc[s]` is the position of `run_server` of session `s`; a session
also stands for its message channel, so `clients[c]` and `bound[p]` hold the session
whose `ws_tx` is stored. `left[s]` is the rest of the port loop the session is in.
The read lock that the switch and unbind loops hold on the map of listeners is
modelled (`ListenersReadLocked`); message channels are unbounded here. `met` is a
history variable. Connections on the ports are in `TunnelLink`;
`clear_all_connections` is not modelled.

**AutoUpdate.** An element of `Updaters` is an execution of the update code: `upd[u]` is
its step (`at`), what began it (`kind`), its version (`goal`) and its `current_binary`
(`path`). `disk` has the binary at each path: the installed one, its backup, and the odd name
that Linux gives to the image of a process whose file was removed. `img` is where the
running image is. `current_exe` is asked anew by every update: Linux follows the image when it is
renamed, Windows keeps the name and protects the file (`InUse`). A file is a version and
what its bytes are worth: `good`, `corrupt` for bytes that are not the published ones but
come up, or bytes that do not come up. `mode` is the host's way to restart, `relaunch` what
will start the agent when it is down, or `None` where only a person can: a console agent that
has crashed. Each restart method is an operator from the set of platform tools that work
to its outcome, so that every fallback is taken; `wmic` and `cmd` stand for the two ways
to start the helper script, and the three calls of schtasks are one tool.

`child` is the second process: the canary, or the one that takes over. Both are the ordinary
agent and recover their `queue.json` before they serve (`lib.rs`, l. 126). Without
`XJP_DATA_DIR` that file lies beside the binary (`queue_persistence.rs`, l. 16-30), and the
canary, which is started from the temporary directory, has another one; with it
(`DataDir`) it is the agent's own. The process that takes over runs the installed binary and always
shares the file. `ChildEnds` is what such a process does to the records. `task`, `registered`
and `records` are the deployments, the entry of `running_deploys` and the file: each await
of `finish`, `execute_single` and `process_queue` that an update can fall between is a step, and a
queue file that fails is left to `DeployEngine`. `restore` ignores its own failure,
as the code does; that this rename fails too, right after the other one, is not modelled.
A crash ends the canary as well, as under systemd. `pending` and `inProgress` are the fields of
`AutoUpdateState`. A version is the sequence of its parts, a part that does not parse being odd.

**DeployContext, ComposeStrategy, BuildStrategy, Strategies.** `pc[d]` is the command or
await where the strategy of deployment `d` is; a command ends in any way Docker, git or
the script may, at the price of one of `MaxFaults` when nothing was wrong with its
input. `canary`, `live`, `local`, `registry` are containers, services and images, with the
port and name conflicts the code has to meet. `stages[d]`, `outcome[d]` and `center[d]` are
what is shown, stored and known at the Deploy Center. The detached sweep of stale
canaries is an actor of its own, and an earlier agent may have left a canary behind, running
or stopped (`leftover`). Somebody else may push to the registry at any time (`Publish`), so that
the image `docker compose pull` brings need not be the one the canary tested. A log that `docker logs`
cannot read counts as clean (`logsOk`), and an inspection of a container without a
HEALTHCHECK may fail (`InspectsBare`), as the template the code uses does with some versions of Docker.

A commit is named by the image that a build of it makes. `head` is what each working tree has checked out,
`named` and `shipped` what each tag names on this host and in the registry. A push sends
whatever its tag names at that moment, which is why two builds of one image name, or in one
working tree, can meet. The select between a build and the token is over when the command has ended:
the tasks that copy its output are then waited for whatever the token says (`output`). The
removal of zombie and hung docker processes before a build is left out; what it can do to
another deployment is a command that fails.

**LogStream.** Line `n` is the n-th broadcast; a reader has the number it receives next.
The channel closes when the hub's sender, the context and the output tasks' clones
are gone (`Closed`), which is what ends a stream.

**NfaSupervisor.** A task is a caller or the loop; `at[t]` its await. The mutex on the child
is held over the health check and over the wait of `stop`; `alive` are the processes of
the operating system, `child` the handle. A hang-up drops a call where it waits.

**LogReporter.** Time is in parts of a second. `Since` is the instant journalctl takes the text of a
position for: the code writes UTC without a zone, journalctl reads the host's local
time, which is ahead by `UtcOffset`. `journal` has the time of each line,
`report` the report under way. `from`, `passedOver` are history variables.

**TunnelLink.** A message passes a channel, the wire and a loop each way; the loops handle
one message at a time and wait for room. `srv[c]` and `tun[c]` are the tasks of connection
`c` at the server and at the client, `user[c]` and `svc[c]` the ends, whose chunks are
numbered. Waiting for room in the session's channel holds a read lock, as in the code.
The refinement mapping to `Pipe` takes the chunks written at one end and those that
came out at the other, so `Pipe` must hold through loss, reconnection and either close.

**ServiceDiscovery.** `discovered_peers`, `mesh_cache`, `cache` are the three tables, each with
its times; `lookup[u]` is a `get_endpoint` under way, one step per table it asks. Time passes
(`Elapse`) only while everyone waits. `verified`, `moved`, `steady`, `known` and `age` are
history: when an address last passed the health check, whether the last packet had
another one, which peers have been healthy since the lookup began.

`MCAgent` and `MCLink` put parts that share no state in one run: a behaviour chooses the
part it looks at (`focus`) at the start and takes steps of that part only.

The operators called `X_Something` at the head of a module are slips a programmer
could make in operation `X`. They are used by no specification; putting one in the
place of `X` makes the property named with it in `PROJECT.json` fail, which shows
that the property depends on that code.

## Runs

| Run | Question | Bounds | Result |
|---|---|---|---|
| `deploy_safety` | Is an accepted task ever lost, doubled, or shown wrongly? | 3 requests for one remote project, queue limit 1, history limit 2, hang-ups, 1 crash | holds, 1.0 M states (up to renaming requests) |
| `deploy_faults` | What if the file cannot be written or read, and projects are independent? | 2 + 1 requests for 2 projects, failing saves and loads, 1 crash | holds, 3.8 M states |
| `deploy_liveness` | Does every accepted task end, every project become free, but for deployments that hang? | 2 requests for one remote project, 2 crashes | holds, 41 k states |
| `deploy_mutex` | One deployment per project? | 3 requests, no crash | violated |
| `deploy_recovered` | Does a recovered queued task run? | 2 requests, 1 crash | violated |
| `deploy_restarted` | Is a final state final? | 2 requests, 1 crash | violated |
| `deploy_hangup` | Does a registration keep an owner when callers hang up? | 3 requests, hang-ups, no crash | violated |
| `tunnel_sessions` | Does a binding or a client entry outlive its session? Does a lone session keep its ports? | 3 sessions of one client (one takeover), 1 of another; 3 ports, one shared, one that may be refused | holds, 2.2 M states |
| `tunnel_takeover` | Does a takeover keep the ports? | old and new session, no connection loss | violated |
| `update` | Can an update leave the host without a working agent, run what was not verified, go back, never happen, or lose a task? | 1 updater, 2 deployments, 3 versions (1 broken, 1 with a checksum), all 5 ways to restart, 1 release or forced update, 1 fault or crash | holds, 0.75 M states |
| `agent_work` | Do stages, services, images and the Deploy Center agree with how a deployment ended? Do streams keep order and end? Is a process or a line lost? | 5 pairs of strategies, 1 failing command, 1 timeout, 3 kinds of image, and for a deployment alone any stale canary or one push by others; 2 readers, 2 output tasks, 3 lines over a channel of 2; 1 caller and the loop, 1 exit, 1 failed spawn; 5 parts of time, batches of 1 | holds, 0.44 M states |
| `tunnel_traffic` | Is the tunnel a pipe, do its entries have owners? Are endpoints fresh and steady peers used? | 1 connection, 1 proxied request, channels of 1, 2 chunks each way, 1 loss; 2 peers, 2 users, 4 units of time, 3 events, timeouts of 1 and 2 | holds, 4.3 M states |

Why the bounds are enough: the interesting cases need a deployment that ends, a
queued one that it starts, and a third request that meets both (three requests);
a queue limit of one makes the refusal and the overfull queue happen; a second
crash repeats recovery on a file that recovery itself left (liveness run). A
project is touched only by its own requests and drivers, so two projects show
the independence. For the tunnel, three sessions of one client let a
session be displaced while a third cleans up after a first. For updates, one task runs
while the other is queued, which is what deferral, draining and the restart have to
agree on; one order is enough, since a release between check, deferral and restart, and a
forced update, are each met from the start of an update on. Two deployments meet in every pair
of strategies that share a container name, a port or a tag; two builds have working trees of their own.
What a deployment that has Docker to itself may find there (a stale canary, any image in the registry, a
push by others) is varied where the other one does not use Docker. A log channel of two with three lines makes a reader lag and
still leaves lines to keep. A connection that shares channels of one message with a
request makes every wait of the two loops happen; two chunks can overtake each other.
Timeouts of one and two units over four let an entry go through all three tables and
expire. `SteadyPeerIsUsed` needs a second peer that changes while the first does not.

### What the violated properties show

* `OneDeployPerProject`: `has_running_deploy` (l. 137) and `register_running_deploy`
  (l. 209) are separate; two triggers deploy one project at the same time.
* `RecoveredTaskRuns`: a recovered queued task has no driver unless its project
  also has a recovered running task. It expires after ten minutes.
* `SettledTaskNeverRestarts`: the record is removed after the Deploy Center has
  been told, and never for an expired task; a crash in between repeats the
  deployment.
* `RegistrationHasOwner` with hang-ups: dropped between registration and spawn, the
  handler leaves the project busy until the agent is restarted.
* `TakeoverKeepsPorts`: the old session's cleanup goes by client id and unbinds the
  new session's ports, on every successful takeover.

### Further questions

Seven properties that documents state are violated too; their configurations are kept
beside the runs, for `tlc -config <cfg> <module>`:

* `CanaryConflict.cfg` (`MCAgent`), `ConcurrentDeploysDoNotConflict`: canary names are unique
  so that deployments may run concurrently (`docker_compose.rs`, `canary_container_name`),
  but all canaries take port 19999 and the sweep removes every one by prefix: a good
  image fails because another project is being deployed.
* `StreamOutcome.cfg` (`MCAgent`), `StreamTellsOutcome`: the stream is to send a `complete` event
  (`log_hub.rs`, `finish`), but looks the task up in the active map, which the task has
  left before the channel closes.
* `TunnelUnbind.cfg` (`MCLink`), `LostSessionUnbinds`: a session that loses its WebSocket while
  its channel is full waits for a write lock; the task that holds the read lock waits
  for room in that channel. The port stays bound to the dead session.
* `UpdateTakeover.cfg` (`MCUpdate`), `UpdateTakesEffect`: the child of a takeover cannot bind the
  HTTP port while its parent lives, and ends; the new version need never serve.

* `UpdateRace.cfg` (`MCUpdate`), `AgentCanStart` with two updates at a time: "on failure keep the
  current version" (`autoupdate.rs`, header). `POST /update` may begin while the loop's own
  update runs. One removes the backup after it has installed its file, while the other has
  just renamed that file away: for a moment there is no binary, and if the second rename
  then fails, none to restore. The runs and theorems about the binary take one at a time.

* `UpdateDataDir.cfg` (`MCUpdate`), `TaskSurvivesUpdate` on a host with `XJP_DATA_DIR`: the update is to
  wait for deployments and a task recorded in `queue.json` is to be recovered after a restart
  (`DESIGN-TASK-RECOVERY.md`), but the canary recovers the same file in a second process: it
  runs what is recorded there a second time, and saves a list without it while the agent's own
  deployment goes on. If the process then ends, nothing of that deployment is left to recover.

* `ReporterWest.cfg` (`MCAgent`), `JournalIsReported` on a host west of UTC: the reporter is to get
  the lines after a given time (`log_reporter.rs`, l. 180), but the text it passes to `--since` is UTC and is read as local
  time: it lies in the future, every report is empty, and the position moves on.

And one that `EndpointIsFresh` names as its exception: `handle_discovery` verifies the
address in the packet, but an existing entry keeps the address it had
(`lan_discovery/mod.rs`, l. 417-422), so a peer that came back elsewhere is handed out as
healthy at the address it left. Without the exception TLC finds it in a few steps.

### Fairness

`FairSpec` has weak fairness for every handler that has been entered, for every driver
between two deployments (`DriverGoesOn`), the cleanup loop and recovery: tokio polls every
future that is ready, calls to the Deploy Center time out, the supervisor (systemd, the Windows
service manager, docker) starts the process again, the cleanup loop ticks
each minute and queued items only get older. That a deployment ends is not assumed:
`DEPLOY_TIMEOUT_SECS` cancels a token that compose commands, git pulls and pushes never look at.
Instead the properties say what a deployment that hangs may hold up.
`AckedTaskSettles` promises an end to every accepted task whose own deployment does not hang
(`DeploymentEnds`): one that waits behind a hanging one expires. `ProjectBecomesFree` asks
that no deployment of the same project hangs (`DriversGoOn`); others may. Requests need not come and
the process need not die. No strong fairness is assumed. `AckedTaskSettles` counts an expired
task and one whose configuration cannot be fetched after a restart as settled.

`AutoUpdate!FairSpec` has weak fairness for the updater's next step, the hourly check, the
drivers between deployments, and for the start of the agent where something will start it:
a service manager, a script that waits, `exec`. Nobody promises that a person
starts a console agent that has crashed, or that a host whose binary is gone gets
another one: `StaysDown` is the exception of both liveness properties. The hosts that restart by takeover are
left to `UpdateTakeover.cfg`. `RestartTakesEffect` excepts also Windows after a restart that has failed,
where the backup is the running image and cannot be replaced.
`MCAgent!FairSpec` has weak fairness for the
agent's steps of a deployment (not for commands: a hanging command may hang for ever,
which is what `TimeoutEndsCommand` is about), for the log tasks and streams, for the
supervisor's loop and the calls, and for the death of a process that was killed.
`tunnel_traffic` checks safety and a refinement of safety, and assumes no fairness;
`TunnelUnbind.cfg` uses `LinkFairness` (every task of both processes is polled).

## Proofs

All constants are arbitrary; the assumptions are the named `ASSUME`s of the modules
(types of the constants, `NoRequest` not a request, `None` and `Old` not deployments) and
those in the statements. Every invariant below that is not itself a checked property was
checked by TLC on the instances of the runs before it was proved. Each proof has one step
per action of the next-state relation, and effect lemmas that say what an action does to
each map, so that a preservation proof need not expand the actions.

The hypotheses that occur:

| Hypothesis | Why it is needed | Where it holds |
|---|---|---|
| `UniqueTaskIds` | two requests with one `deploy_log_id` share a record, a store entry and a channel | the Deploy Center numbers its logs |
| `~SaveMayFail` | a record that is not on disk is lost by a crash | a file system that has room |
| `~LoadMayFail` | a file that cannot be read or parsed counts as empty, and is overwritten | a file only the agent writes |
| `~CallersMayLeave` | a hang-up between registration and spawn leaves both (`deploy_hangup`) | callers that wait |
| `OneUpdater` | overlapping updates remove each other's backup (`UpdateRace.cfg`) | nobody posts `/update` while the agent updates itself |
| `Releases` | `is_newer_version` drops what it cannot parse | numeric versions |
| `UtcOffset >= 0` (in the property) | `--since` is read as local time (`ReporterWest.cfg`) | hosts at UTC or east of it |
| `OwnTrees` (in the property) | two builds in one tree: the second pull moves the HEAD the first has named | a `work_dir` per project |
| `Tag[d] \notin published` (in the properties) | the image that is pulled for the swap may be newer than the one tested | nobody else pushes meanwhile |

### Deploy engine

* `TypeCorrect`: `Spec => []TypeOK`. Inductive with `HolderHasRequest` (a driver that
  holds a task holds a request), without which `TaskOf[cur[d]]` has no type.
* `RegistrationOwned`: `RegistrationHasOwner` if `~CallersMayLeave`. The project's owner may
  change when two deployments race, but whoever unregistered one leaves nothing registered.
* `Durability`: `AckedTaskIsDurable` if `~SaveMayFail`, `~LoadMayFail` and `UniqueTaskIds`. `DurableInv` adds
  that a handler past its save is recorded as well, that memory and file both have the
  record while the process runs, that a driver removes only the record of a task that has
  finished, and that a dead process has no handlers or drivers.
* `OnePlace`: `TaskHasOnePlace` with no further assumption. `PlaceInv` adds that a request
  whose handler has not placed it is in no queue and with no driver, that the records in
  memory, file and recovery's list are of distinct requests, and that what recovery has
  not looked at yet is in no place.
* The next five follow one task. They share `HandsInv`, which is `PlaceInv` with: a driver
  that works on nothing has let its request go, and no driver has been spawned for a
  request whose handler or record may still spawn one. `Hands(r)` is where the drivers of
  `r` are (at most one), so that each invariant speaks of a task's place and not of a
  driver's name.
  - `NoTaskIsLost`: `AckedTaskIsHeld` if `~SaveMayFail`, `~LoadMayFail` and `UniqueTaskIds`. `EnqueuedIsHeld`
    says it of recovery too, and of a handler that has not answered yet; it takes
    `Durability`'s invariant to survive a crash.
  - `HeldIsRecorded`: `HeldTaskIsRecorded` if `UniqueTaskIds`, whether or not saves fail: memory
    keeps what the file may have lost. `PlacedIsRecorded` begins at a handler's `add_task`.
  - `StoreAgrees`: `StoreAgreesWithEngine` if `UniqueTaskIds`. `StoreFollowsTask` says what the
    store shows at each point of a task's way, between two steps of a driver as well.
  - `SettlesOnce`: `TaskSettlesOnce` if `UniqueTaskIds`. `HistoryIsPast` says that a task in the
    history is with no handler, queue or record of recovery that could deploy it again
    in this life of the process (`deploy_restarted` shows that the next life does).
  - `NothingLeftBehind`: `QuietIsClean` if `~CallersMayLeave` and `UniqueTaskIds`, from
    `RegistrationOwned`'s invariant, `ChannelHasOwner` and `ActiveTaskHasOwner`.
* `RetainedType`, `RetainedElements`, `RetainedDistinct`, `RetainedInOrder`: what the
  filter returns. They are proved by cardinality arguments on the ranks.

### Tunnel

* `PortBindingsOwned`: inductive with `BoundIsMapped` (a bound port has a listener and is
  mapped by its client: a failed takeover has then bound nothing, and a cleanup visits
  every bound port) and `LeftIsMapped`. `ClientEntriesOwned` and `TunnelTyped` are inductive
  with the types.
* `SoloReachable`: `SoloSessionIsReachable`. `SoloInv` says that two sessions of a client that
  are connected at a time have both met another one, and follows a session that met none
  from its first message (`Reachable`): its entry, and the ports its loop has come to. The
  step then is that a session of another client touches no entry but its client's, and
  no port but those its client maps or had.
* `RequestsAreAwaited`, `EntriesAreOwned`, `OpenConnectionsStay`. The invariants are `LoopsInv`
  (an ended loop holds nothing, and both loops have noticed a loss before there is another
  WebSocket), `ServerLife` and `ClientLife` (what the positions of a connection's tasks imply
  at either end), `ConnectInv` (one `Connect` at most is on its way), `ToldInv` (what is true of
  the sender of each message under way), and `EndInv` (why an end stopped forwarding).
* `EachWayIsAPipe`: `LinkSpec => TunnelIsAPipe`, that is, each step of `TunnelLink` is a step of
  both `Pipe`s of every connection or leaves them alone. Induction over a queue's contents
  is avoided by saying where the numbered chunks are: `Carries(q, c, lo, hi)` holds of a
  queue whose chunks of `c` are those numbered `lo + 1` to `hi`, in order. The chunks under way
  are then a chain of intervals from what the peer has got, over its channel, the
  receiving loop, the wire and the sending loop, to what was read (`DownInv`, `UpInv`); a step
  moves one boundary. A link that is cut keeps the beginning of the chain, which is
  why a prefix, and no more, comes out.

### Update

* `AgentStarts`, `BinaryIsKept`, `OnlyVerifiedIsInstalled` from `UpdateInv`, under `OneUpdater`. It
  says what each finished step has established of the temporary file (checksum, canary),
  that without a file in place the backup is sound and, unless the process has died,
  the updater that moved it is there to put it back, and that the running image is a file that
  is there or is gone: an update that begins with an image under the name of the backup moves
  nothing that is needed.
* `NeverDowngrades`: the action property `NoDowngrade` under `Releases`, for any number of
  updates at a time, on every way into a download but the forced one. The versions that updates
  have found, that are pending and that are being rechecked are newer than the running one by
  `is_newer_version`, which is shown not to call an older version newer; a new process begins with none.

### Strategies

`StrategiesTyped`, `StagesAgree`, `CenterLearns`, `BuildsArePushed`, `CanariesAreRemoved`,
`SwapsAreVerified`, `GoodImagesDeploy`: for any number of deployments that share one Docker
daemon, any strategies, images, tags, ports and bounds, and no hypothesis beyond those
in the properties (a fault spent, a deployment with Docker to itself). `ContextInv` gives the
stages at each place of a strategy and ties an outcome to the end of it; `HostInv` says that
what a step takes from the host is there. To these come:

* for builds, `TrueNames` and `TrueBuild`: a tag that names a commit, here or in the registry, names the image
  of that commit whoever wrote it last, since each build checks out, names and builds in a tree
  of its own; and `LoneBuild` for latest.
* for a service, what has been established of the image at each place of a deployment that is alone
  and that the image it pulls for the swap is the one its canary ran.
* for canaries: without a fault, a canary belongs to a deployment that has still to
  remove it, or is due to every sweep that has begun. The canary of a deployment that is
  alone is its own; its sweep, which lists containers older than itself, can only have listed
  the stopped one of an earlier agent, whose name is another.

### Services

* `StreamsKeepOrder`: `StreamInv` says what a reader has been sent so far and that it ended after
  the last line there will ever be.
* `NoStray`: inductive with `Numbered` (processes are numbered as they are spawned, and the
  handle is of one of them).
* `EndpointsAreFresh`, for any timeouts with the health check's no longer than the peers'. The age
  of an endpoint adds up along its way: `FreshInv` says that no wait is longer than its
  timeout, that an entry's cleanup is due within `PEER_TIMEOUT + CLEANUP_INTERVAL` of its
  last packet and its check came after that packet, that the mesh cache was filled within
  `MESH_TIMEOUT` of the registry's answer, and that what is found or cached was fresh when
  it was.
* `SteadyPeersAreUsed`: inductive with: the peers counted as steady are healthy now.
* `NoLineIsMissed`: `ReporterInv` adds that nothing is ahead of the clock, that a report begins
  where the last one ended, and that the batch and its rest are all the lines there were
  before its `now`; at UTC and east of it, the instant that `--since` means is never later than
  the one it was written for.

### Only model-checked

Every invariant and every action property of the passing runs is proved, and so is the
refinement of `Pipe`. What stays with TLC are the liveness properties, whose fairness is
outside the prover (`AckedTaskSettles`, `ProjectBecomesFree`, `RestartTakesEffect`,
`TaskSurvivesUpdate`, `TimeoutEndsCommand`, `StreamEnds`, `WantedServiceRuns`), and the
counterexamples of the runs that expect a violation.

## Not modelled

* FRP manager: the supervising loop of `services/nfa.rs` again, with a fixed back-off
  and without readiness checks and alignments; the same questions, answered there.
* Mesh registration, heartbeats and zone detection, the Deploy Center's heartbeats and
  the tunnel's pings: they send what the agent knows and change nothing another part
  reads.
* Traffic during a takeover (`clear_all_connections`, answers of a displaced session):
  `TunnelServer` has the sessions without traffic, `TunnelLink` traffic with one session.
* SSH server: bookkeeping around a library. Windows service control: platform calls.
* Configuration, authentication, error table, and the query, container, image and
  database endpoints: no state of the agent changes.
* First-in-first-out order between a new trigger and queued tasks: nothing in the
  repository promises it.

## What could follow

A durable task queue as an abstract specification that `DeployEngine` is proved to
implement; the theorems about the binary without `OneUpdater`, should the code come to
keep updates apart; the safety half of the liveness properties (what a step towards
them may not undo) as theorems.
