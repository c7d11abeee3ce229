# QUIC Diver in TLA+

QUIC Diver is a VPN over HTTP/3: a Windows (or Android) client captures flows and carries them in QUIC
streams to one of several server nodes, which let them out into the world or pass them on to each other. The nodes
form a network with one master, which owns the database of users and nodes; the others replicate it.

This directory holds TLA+ modules of the parts of the system where state is shared, replicated, or
outlives a failure, the TLC configurations that check them on small instances, and the modules of proofs that TLAPS
checks for every value of the constants. `PROJECT.json` names, for every definition, the source
lines it models; for every property, a mutation of the model that violates it; and for every hazard, the
properties that watch it. Paths below are relative to `src/internal/` unless they start with `cmd/`.

To run: `tlc -config <run>.cfg MC<Module>` for a check, `tlapm <Name>_proofs.tla` for a proof; section 5 says which module of proofs has which component.

Contents: 1 the system · 2 the modules · 3 the runs · 4 fairness · 5 what is proved ·
6 where the code and its comments part ways · 7 what is not modelled · 8 plan

## 1. The system

### 1.1 Server

**Cluster membership and replication** (`server/heartbeat.go`, `replica.go`, `db/cluster.go`,
`admin_cluster.go`). State: in each node's database one row *cluster* (epoch, master); in memory the replicator and
the beater. Operations: an administrator promotes a node through the API of any node (`Promote`: read the epoch,
write epoch + 1); a replica beats its master every minute and adopts a newer row (`AdoptCluster`: read,
compare, write); a replica pulls a snapshot of the whole database every 15 minutes, compares the epoch in the header with
the one it had when it asked, and swaps the file in. There is no consensus: the epoch is a number, and
nothing compares rows but the two checks named. Correct when: no two nodes write under one epoch; a node never goes
back unless a snapshot of its master takes it there; a promotion reaches everyone; replicas keep receiving.

**Database file** (`db/swap.go`, `local.go`, `backup.go`, `sqlite.go`, `server/store.go`, `admin_power.go`). State: files
`base`, `base.g1`, `base.g2`, ..., a staged `.restore` beside one of them, and the live pointer. A snapshot becomes the next generation:
rename, carry the node's own rows table by table, open, switch the pointer, close and remove the old file after a grace
period. A start applies a staged restore to the base and opens the newest generation. Handlers take the database
at their start and use it after a swap. Correct when: no file disappears under its users, no acknowledged row is lost
but in windows one can name, a crash at any step leaves something at least as new to open.

**Traffic of the network** (`db/net_traffic.go`, `local.go`, `server/heartbeat.go`). State: on every node the bytes its
own sessions passed, per user; on the master a table of what each node reported. Reports are absolute and only sent when
changed. Correct when: the sum over nodes converges to what passed, whatever is lost, repeated or late.

**Traffic limits** (`db/quota.go`, the quota's part of `node.go`). State: in the row of a user a limit, the length of a
period, the total at its start and its deadline. Nothing runs when a period ends: whoever asks next starts the new one.
Correct when: nobody over the limit is let in, deadlines lie ahead, and whoever was cut off gets back in.

**Flows between nodes** (`server/node.go`, `connectudp.go`, `route_decide.go`, `links.go`, `chain/chain.go`,
`routing/routing.go`). State: per node a copy of the registry of nodes, at most one link per neighbour, raised by the
first flow that needs it outside the lock, and a cooldown after a failed dial. A flow carries a label (a node,
`auto:<tag>`, or direct) and a hop count. Correct when: a label is honoured, circles end, no connection leaks, none outlives its
entry in the registry.

**Choice under `auto:<tag>`** (`server/balance.go`, `links.go`). State: per tag the choice, when it was made, a
challenger and its wins; per node the last measurement. Correct when: moves are earned over time (hysteresis), and a node that left,
or of which nothing is heard, is left.

**Sessions and accounting** (`server/accounting.go`, `db/accounting.go`, `db/sqlite.go`, `auth/`, `admin_users.go`). State:
devices, sessions and assigned addresses, all rows of one node, and the tokens, which are replicated; per tunnel an accountant that
writes down every interval what went through. A handler counts rows, and later inserts its own; the address is the one thing given out in a
transaction. Correct when: limits hold but for reasons one can name, every unit of traffic is counted once or known to be forgotten, a
row goes with its tunnel, an edit is not undone by another.

**Node DNS** (`server/dns/`, `admin.go`). State: a cache ordered by freshness, its size and lifetime, and the upstream, all of which an administrator may change while
queries wait for an answer. Correct when: what an earlier upstream said is forgotten.

**Netstack** (`server/netstack`), gVisor terminating the flows of tunnels, on nodes and, within the engine, on clients;
**subscription, panel, decoy site, installer**: answers computed from rows, and files.

### 1.2 Client

**Uplink** (`uplink/quicconn`, `client/supervisor`, `client/netwatch`). State: one QUIC connection, the socket it uses, the
sockets it used before; the supervisor's budget of repairs. A change of network or silence of the path migrates the connection to a new
socket, by two goroutines that know nothing of each other. Correct when: no socket is lost, the supervisor follows the machine's address, a lost
NAT mapping is survived, and a path that stays silent ends the session.

**Service and session** (`client/service`, `cmd/qd-client/main.go`, `run_windows.go`). State: what the service says of itself, the
context of its loop, how far a session has come. A session is one call that takes the machine's settings over step by
step and gives them back by what it deferred; when it fails the loop begins another after a pause. Correct when: a session that is wanted comes
up in the end; when the service says it is off, nothing of ours is left in the system.

**Settings and control** (`client/config`, `service`, `subscribe`, `control`, `api`). State: the file of settings and its copy in memory, edited by the panel and
by the subscription that polls the node; the lazily raised link that polls and requests of the panel share. Correct when: the file is always one
whole save, no link is lost, and the subscription goes on arriving.

**FakeIP and NAT46** (`client/fakeip`, `client/nat46`). Pools of fictitious addresses with an index each way and expiry; a program is told such
an address in the place of the real one, and its flow is recognised by it. Correct when: a flow goes to the name its program asked for.

**System DNS and proxy** (`client/sysdns`, `client/sysproxy`, `client/dnsproxy`): settings of the operating
system. What they were is kept in memory and in one file each, and the next session heals from the file. Correct when: at every
step of every session and healing the user's settings are in place or in the file, also if the process dies or the network changes there.

**Engine** (`engine/hybrid`, `packet`, `server/netstack`). State: five goroutines between the capture, the tunnel and the stack, their queues, one pool of
buffers, one channel of errors. Correct when: a buffer has one owner, flows do not keep each other waiting, and all goroutines end with the session.

**Routing** (`client/routing`, `routeclient`), rules as a function of a flow.

**Mobile library** (`mobile`, `engine/connectip`, `pkg/android`). State: the adapter that calls find, each with a context, the descriptor of a TUN device, a
worker that dials a node or falls back to a netstack, and four to six goroutines. Nobody waits for any of them. Correct when: an engine that was stopped or
replaced gives everything back.

**User interface, tools.** What the panel does to settings is in Settings.

### 1.3 How the parts meet

```
   client --streams--> node ==links==> node --> world        FlowRoute, Balance
                        |  \
                 rows of |   \ heartbeat: (epoch, master), traffic counts
                 sessions|    \-----------------------> master   Cluster, TrafficReport
                        v                                 |
                    database  <---- snapshot of the whole file        Cluster, HotSwap
                        |
                   verdict of authorize: limits, devices, sessions, addresses     Quota, Accounts

   panel, subscription --> file of settings, link to the node           Settings
   panel, tray --> service --> session (run) --> DNS, proxy of the machine, two files   ClientSession
                                  |   ^
     capture <--> engine <--------+   |                                  DataPath, ClientRun
       ^            |                 |
    programs      uplink <------ supervisor <-- watcher of the network   Uplink
       |            |
       +--- names --+--> resolver of the node                            Names, FakePool
```

The snapshot is what couples everything: it replaces the cluster row (Cluster), the file (HotSwap), the traffic rows
(TrafficReport), the quota row (Quota) and the registry (FlowRoute, Balance) of a replica, at a moment that none of these parts
choose. Each module has the swap as an action that falls between the steps of its own handlers.

## 2. The modules

| module | models | state of the model | code |
|---|---|---|---|
| `Cluster` | epochs and masters | `row` and `old` (the live cluster row, and the one of the database retired last), `pull`, `beat`, `admin`: the operation each node has in flight, with what it read | `db/cluster.go`, `heartbeat.go`, `replica.go`, `admin_cluster.go`, `cmd/qd-server/main.go` |
| `Masters` | what a network promises about its master | `row`, `issued`, `asked` | abstract |
| `HotSwap` | files of one node | `disk`, `staged`, `cur`, `retired`, `swap`, `phase`, handlers | `db/swap.go`, `local.go`, `backup.go`, `store.go`, `admin_power.go` |
| `TrafficReport` | how traffic is added up | `traffic`, `table`, `sent`, a report and a snapshot in flight per node | `db/accounting.go`, `net_traffic.go`, `local.go`, `heartbeat.go` |
| `FlowRoute` | flows through nodes | `reg`, `known`, `link`, `failed`, every connection ever raised, every flow's position | `node.go`, `connectudp.go`, `route_decide.go`, `links.go`, `chain.go`, `routing.go`, `admin_nodes.go`, `db/nodes.go` |
| `Balance` | the choice of one tag | `sample`, `choice`, `since`, `challenger`, `wins`, the flows that are picking | `balance.go`, `links.go` |
| `Quota` | the limit of one user | `total`, `row`, every call of `QuotaOf` and of `ResetTraffic` under way | `db/quota.go`, `node.go` |
| `Accounts` | who is let in, and what is counted | tables `token`, `devices`, `sessions`, `traffic`, `assign`; `conn`: every handler and accountant; `admin`: every call of the API | `node.go`, `accounting.go`, `admin_users.go`, `db/accounting.go`, `db/sqlite.go` |
| `Uplink` | one QUIC session and what keeps it alive | `sock`, `active`, `cur`, `prev`, `ids` (connection); `silent`, `tries`, `ch`, `mig` (supervisor); the network around them | `quicconn/conn.go`, `supervisor`, `netwatch` |
| `Settings` | settings and the control channel | `file`, `earlier`, `mem`, `ctl`, `link`, `links`, `op`: what each caller is doing | `config`, `service.go`, `subscribe`, `control`, `api`, `server/subscription.go` |
| `Register` | what a file of settings promises | `value`, `earlier`, `writing` | abstract |
| `FakePool` | the pool of fakeip | `owner`, `reals`, `life`, `byDomain`, `next` | `fakeip/pool.go` |
| `Leases` | what such a pool promises | `holder` | abstract |
| `Names` | finding one's way by name; extends `FakePool` | `table` (nat46), `cache`, `upstream`, `ttl`, `size` (node), `prog`: what each program does | `dnsproxy`, `fakeip`, `nat46`, `routeclient`, `routing`, `server/dns`, `admin.go` |
| `ClientSession` | what a client does to its machine | `state`, `loop`, `cancelled` (service), `pc` (session), `dns`, `proxy` (the machine), `stash`, `pstash` (files), `saved`, `psaved` (memory), `port`, `sup` | `client/service`, `sysdns`, `sysproxy`, `supervisor`, `netwatch`, `dnsproxy`, `cmd/qd-client` |
| `DataPath` | the engine of a session | `go`, `open`, `done`, `errc`, the queues `ch`, `out`, `batch`, `inq`, `free`, `flow` | `engine/hybrid`, `netstack`, `windivert`, `connectudp` |
| `ClientRun` | a session with its engine: composes `ClientSession` and `DataPath` | theirs, and `traced` | `run_windows.go`, `service.go` |
| `Mobile` | the client on Android | `globalAdapter`, `call`, `ad`: every adapter with its worker, its tunnel and its goroutines | `mobile`, `engine/connectip`, `netstack` |

The `MC` modules give each its model values. Every module is a state machine with one action per statement or critical
section that other goroutines can get in front of: a handler that reads, waits for the network and writes is three actions, and
what it read is kept in its record. What runs under one lock, or is one SQL statement, is one action.

### 2.1 What corresponds to what

*Cluster.* `AdminPromote` and `AdminWrite` are the read and the write of `Promote` (the PUT of `admin_cluster.go` reads once
more: `AdminRebroadcast`, `AdminRead`). `BeatStart`, `BeatServe`, `BeatCheck`, `BeatAdopt` are `beat`, `serveHeartbeat` and the
two statements of `AdoptCluster`; `PullStart`, `PullHeader`, `PullBackup`, `PullInstall` / `PullRefuse` are `pull` and
`serveReplica`, whose header and body are read at different moments. A handler that holds the database through a swap works
on the retired one (`old`), and on a closed one after the next swap: `Retired` says what becomes of it. `Start` is `BootstrapMaster`.
`Discipline` says what the administrator does, since the code leaves it free: "any" is the API as it is, "latest" one promotion at
a time at a node that knows the newest epoch, "acting" at the acting master, "none" never. The restrictions of "latest" and "acting" are assumptions about people, which `MayPromote` states with the
history of promotions and no line of the code checks; what the API lets happen without them is the run `promote`.

*HotSwap.* `SwapRename`, `SwapCarry` (one table each), `SwapStore` or `SwapFail`, and `Retire` are `SwapFile` and the goroutine it
leaves behind; `ApplyMove`, `ApplyRename`, `Open` are a start; `Take`, `StoreRow`, `StoreClosed` a handler that takes the live
database and writes later; `UploadStart`, `StageRestore` the upload of a restore. `Crash` may fall between any two of them.
`exposed` collects the rows that may be lost for a reason: stored during a swap or through a retired handle, being
carried when the process died, or of a token that the snapshot does not have (`gone`), whose rows `carryLocal` drops.

*TrafficReport.* `BeatStart` marks a count as sent and sends it, `BeatServe` replaces the row on the receiver; `PullSnapshot` and
`PullInstall` take the master's rows over with `carryLocal`'s MAX; `Pass` is `TouchSession`.

*FlowRoute.* A flow moves through `DecideExit` / `DecideLink` / `DecideDial` (`routeFlow` and `NodeLinks.Dialer` up to
the dial), `DialDone` / `DialFail`, `StoreSecond` / `StoreFirst` (the lock taken again: was another connection stored meanwhile?),
`OpenStream` / `OpenFail` (`chain`), `Leave`. `Reload`, `Change` (the node handlers of the API), `Restart` (with the registry that is in the node's own file) and `Break` fall in between.

*Balance.* `Tick` copies the links as `sampleOnce` does and lets samples age; `Observe` is one `Observe`; `Gather` is
`NodeLinks.Dialer` collecting candidates; `Pick` is `Pick` under its lock, with one disjunct per way out of it; `Reread` is `Reload`, which closes the link of
a node that was deleted, disabled or moved, and forgets the measurement of a deleted one only; a moved one can be dialled again.

*Quota.* `ReadRow`, `ReadTotal`, `WriteDip`, `WritePeriod`, `Verdict` are the statements of `QuotaOf` and the verdict
of `quotaExceeded`; `ResetRead`, `ResetDays`, `ResetWrite` those of `ResetTraffic`. Deadlines are ticks left, so that time
needs no bound. `Tick`, `Reported`, `Dip` and `SwapFile` are the surroundings.

*ClientSession.* `Connect`, `Disconnect` and `LoopSession` to `LoopExit` are the service. `pc` walks through `run`: `Recover*` is `recoverDNS`;
`ProxyHeal*`, `ProxySave`, `ProxyOff` are `sysproxy.Disable`; `DialOk` the capture, the tunnel and its addresses; `Listen`, `Apply`, `Stash` are `startDNS`;
`Ends` is the wait for engine and supervisor; `DnsBack` to `ProxyDrop` are the deferred calls, last first. A failure on the way joins them at the place
that has been deferred so far. `PortFree` is the listener's goroutine, `Move` to `SupStash` (the file emptied, then written) is the supervisor, whose goroutines end with
the loop's context and so may outlive `run`. `exposed` collects the settings that may be lost for a reason: the process died between the registry and
the file, a write failed, or a change of the network brought an adapter whose settings `OnNetworkChange` drops.

*Accounts.* A handler goes through `Connection.st`: `Authorize`, `checkDevice` in two statements, `AllocateAddress` in one, `OpenSession` in two, the tunnel; the accountant takes what was
counted and adds it in two steps, of which the second may fail. An administrator's call reads the row and writes it (`patchUser`, `revokeUser`, the device handlers). `Sweep`, `FallsSilent`, `Snapshot`
and `Crash` fall in between. `over`, `forgotten`, `clash` and `want` are histories that say why a limit is exceeded, a unit not counted, an edit undone.

*Uplink.* `Migrate(g)` is `Conn.Migrate` for each of the two goroutines in its steps (socket opened, path probed, switched, list changed, old path retired, or abandoned); `WatchPath` one reading of `watchPath`,
`Watch` and `Notify` the watcher and its send, `Handle` and `RunReturns` the select of `Run`. `Tick` is time, and may only pass when what takes no time is done.

*Settings.* Each caller walks through its handler: a save is `save`, `written`, `synced` and the rename, then the copy in memory; a request is the lookup of the link, one dial per
entry point, the store, the request itself and, if its body was kept to send it again (the panel's proxied requests; not the list of exits and not the subscription), the retry. `Publish`, `NodeDown`, `NodeUp` and `Crash` are the surroundings. A rename is not flushed (the directory is not): `Crash` may bring back any of the contents that were renamed over (`earlier`).
`Saves` maps the file to `Register`: what a reader would find, what a loss of power may bring back, and the saves in progress.

*Names.* `FakePool!Assign` is `Pool.Assign` with `alloc`, under the pool's lock. A program's query goes through the decorator of its mode, the node's cache and, if that has nothing, the upstream
(`Resolving`, `Answering`: the answer is stored in a step after it was asked for); its flow asks the pool for the name and for the real address in two steps (`Dialling`). The administrator sets the upstream, the
lifetime or the size, and flushes in a step of its own. `Leased` maps the pool to `Leases`: an address is held as long as its entry lives.

*DataPath, ClientRun.* One goroutine of `go` per goroutine of `Engine.Run`, one action per receive or send on a channel; `ReadPacket` to `DialEnds` are `ingress`, which dials a flow's UDP itself; `Emit` and the injector bring
buffers back. `ClientRun` starts the engine when `ClientSession` reaches "run", lets `run` return when the engine has or when the session failed, and closes the capture when `run` does.

*Mobile.* `StartEngine` reads `running` without the adapter's lock, `StartStops` is what it does if that was true, `StartRefused` and `StartMakes` its ways out; `Stopped` is what `stopEngineLocked` makes of an
adapter. `WorkerBegins` to `WorkerEnds` are `runEngineWorker` (`EngineOnNode` hands the client over, perhaps too late for a stop to see it), and each goroutine of `connectip` and the netstack has its receive, its send and
its end.

Definitions whose name ends in what is wrong with them (after a comment `Wrong:`) are mutations: plausible slips in the
place of the definition that follows. They are used by no action; they show that the properties notice them.

### 2.2 What is abstracted

Rows and payloads are reduced to what the properties distinguish: a cluster row is a pair, a local row is a model value with a table, bytes in
and out are one small number, a path is a cost, an address is the number of times it was changed. In `TrafficReport` and
`Quota` a swap is one step, since HotSwap takes it apart; in `FlowRoute` the pick among tagged neighbours is left open,
since Balance is about it, which in turn knows one tag. `HotSwap` leaves out refused snapshots and the journals
of SQLite, and takes a validated file to stay valid. In `ClientSession` a setting is the user's or ours, the settings of all adapters are written in one step,
and one entry stands for an adapter's settings in both families; the proxy is the user's or off. In `Accounts`
a token is its limits and whether it is revoked, a machine is known by the connection it comes from, and traffic is a number of units. In `Uplink` a tick is about five seconds, what takes less
comes before the next tick, and a path works when its socket is bound to the machine's address, has a mapping and the link is up. `Settings` keeps of the
settings the entry points and the token, and of a node whether it answers. In `Names` an answer is what a table says of a name. In `DataPath` a packet is the flow it belongs to, and a full queue out of
the stack drops a packet, which leaves the state as it was; `ClientRun` looks into at most one engine of a behaviour (`traced`), and lets the others be what `ClientSession` says of them. In `Mobile` packets are counted.

## 3. The runs

| run | module, shape of the instance | properties | states | shows |
|---|---|---|---|---|
| `cluster` | Cluster, fair; 2 nodes, "acting", epochs to 3, 3 operations at once | `KeepsItsMasters` `ReplicasSync` `PromotionSpreads` | 105,431 | the network implements `Masters`: no snapshot takes a node below what it knew when it asked; once the first master is declared, replicas receive snapshots for ever and rows agree in the end, unless the acting master is taken back |
| `promote` | Cluster; 2 nodes, "any", epochs to 2 | `OneWriterPerEpoch` | violated | the API as it is: two promotions at two nodes make two masters under one number (section 6) |
| `nodedata` | HotSwap with 2 rows of different tables, 3 swaps, 2 crashes, 2 restores; TrafficReport, fair, with 2 nodes, 2 units, one lost report, promotion and restart | `LiveFilesStay` `LossesExplained` `RestartNotOlder` `ReportsConverge` | 1,529,631 | no live file disappears; rows are only lost for a reason; no crash takes a node back; without losses the master's sums catch up |
| `exits` | FlowRoute, fair, with 2 nodes, 2 flows, one change, break or restart; Balance, fair, with 2 candidates, 2 flows picking, 2 costs, one break | `NoLeakedConn` `LinksFollowRegistry` `LabelHonoured` `ReplicasDropDisabled` `LeavesLost` | 309,475 | two flows that dial one neighbour while the registry is reread leak nothing, and go where the registry says unless it was reread under the dial; labels are honoured; connections to disabled nodes go; nodes that are gone or silent are left |
| `windows` | Balance; as in `exits` | `WindowsInARow` | violated | a challenger's wins are counted in picks and not in windows (section 6) |
| `quota` | Quota, fair; master and replica, 2 units, one call, one change, reset, dip or failure | `OverrunRefused` `PeriodAhead` `Reopens` | 266,835 | the master admits nobody over the limit; deadlines lie ahead; nobody stays out for ever |
| `accounts` | Accounts, fair; 2 clients, 2 connections, 2 calls of administrators | `TrafficAccounted` `LimitKept` `AddressesKept` `EditsKept` `SlotsReturn` | 346,913 | what passed is counted once or forgotten for a reason; limits are exceeded only by what the code leaves open; a tunnel's address is not given away on its node; an edit is undone only by one that read before it; rows of dead sessions go |
| `uplink` | Uplink, fair; 2 addresses, 6 sockets, 3 connection ids | `SocketsHeld` `MappingLossHealed` `SettlesOnAddress` `SilenceEnds` | 432,734 | two goroutines that migrate one connection lose no socket; the session follows the machine's address, survives a lost mapping, and ends when the path stays silent |
| `settings` | Settings, fair; 2 nodes | `LinksHeld` `FileIsRegister` `SubscriptionArrives` | 206,805 | no link is lost by parallel dials; the file of settings implements `Register` through failing writes, crashes and losses of power; the subscription goes on arriving |
| `names` | Names, fair; 2 programs, 2 names, a pool of 1 address, a cache of 1 or 2, one call of an administrator | `FlowsGoWhereAsked` `UpstreamTakesOver` `LeasesKept` | 430,158 | a flow goes to the name its program asked for, as long as the answer lives; answers of an earlier upstream are forgotten; the pool implements `Leases` |
| `session` | ClientRun, fair; 2 adapters, 2 crashes or failed writes, one change of the network; a TCP and a UDP flow, 3 buffers, queues of 1 | `SettingsRecoverable` `QuietWhenStopped` `BuffersKept` `GoroutinesEnd` `FlowsGetThrough` `Reconnects` | 239,322 | the user's settings are always in place or in a file, and back when the service says "stopped"; the engine keeps its buffers apart and ends with the session; one that is wanted comes up |
| `mobile` | Mobile, fair; one engine with 3 packets and a failure, or two of which the second may take the first's place | `StopReleases` | 79,209 | an engine stopped or replaced at any moment gives back all it took, unless it had ended by itself |

Three runs show refinements: `KeepsItsMasters` that Cluster implements `Masters`, `FileIsRegister` that Settings implements `Register`, `LeasesKept` that the pool in Names implements `Leases`. Two runs check compositions: `names`
(a pool under the programs, the node's cache and the administrator) and `session` (a session and the engine it starts). In `nodedata` and in `exits` two modules share a run and nothing else: they have no variable in common, a behaviour is of the one or of the other from its first state on (`part`), and the fairness is that of
both; `NodeData_proofs` and `FlowRoute_proofs` have the same pairs. `MCBalance` has Balance alone. Each module has a `TypeOK` besides, which was
checked with the same constants, and which the proofs of section 5 establish where there are any.

### 3.1 Bounds, and why they are enough

*Budgets.* In Accounts, Uplink, Settings and Mobile one of a few budgets is chosen at the start, which says how many events of each kind there may be: the cases that combine (an edit with a crash, a
change of the address with a failing link) are one budget, those that do not are others. `MC<Module>` lists them.

*Nodes.* Two in `Cluster`: every exchange is between a replica and its master, and the two sides of a promotion (the
one that issues it and the one named by it) are the two nodes; the proofs of section 5 remove this bound for all safety
properties of the module. `TrafficReport`, `FlowRoute`, `Balance`, `Settings` and `Quota` are likewise proved for any number. The run of `Quota` has a master and
one replica: replicas do not talk to each other; and one call of `QuotaOf` at a time, which its theorems do without (two calls at one node were checked, too: 470,030 states).

*Epochs* (`MaxEpoch` 3) let two promotions follow the declaration of the first master. With them a snapshot that was asked for before the first and put in place after the second takes back the acting master (`OneWriter`, section 6), after which rows need not
agree again: that is why the two properties of liveness except it (`TakenBack`), by its outcome and not by the bound. "latest" was checked for safety (294,687 states), and the theorems hold for any number.

*Operations at once* (`MaxBusy` 3): half of what two nodes can have in flight (a pull, a beat and a promotion each); three different ones, at one node or at two, is what the overlap of `OneWriter` takes.

*Generations, crashes, restores* (3, 2, 2): the third swap closes what the first retired; two crashes interrupt a swap and the start that follows;
the second restore is uploaded over one that is staged. Two rows of the first and the last table carried reach both orders of a write against the carry of its table.

*Units of traffic* (2): a report that is older than another, and a limit of one that is passed. *One loss, promotion, restart* reaches each
of them between any two steps; two of a kind are proved not to matter to safety.

*Connections, events in flows* (2, 1): both flows dial before either stores. Two events at once were explored for safety
without an error.

*Costs* (20, 50 ms): the gain is worth a move. With a third (24), whose gain is not (`MinGain`, and a fifth of the cost), the run has 454,073 states and passes, too. Three windows of hold are the
code's own number.

*Deadlines* (`MaxLate` 2): a period of one tick may be missed twice, which is the case the division in `NextLeft` is for. Safety was explored with two events as well
(1.7 million states).

*Clients, connections, addresses* (2, 2, 2): two handlers of one client are needed to exceed its limits, two clients to take an address from each other. A snapshot takes an assignment away while a
tunnel holds it. The four safety properties are proved for any number of each.

*Ticks of the uplink* (silence 4, idle 9, a migration 2, repairs 1 apart): the code's 20, 45, 10 and 3 seconds in ticks of about five. A watcher that is told three addresses, of which the first comes back,
reaches a notice that is stale when it is taken. Three ids are two repairs and one to spare.

*Settings*: two edits beside a request and a change of the network; an edit with a failing disk and a crash; two failures of the network. Two nodes, one of which is in the build.

*Names* (pool 1, cache 1 or 2, two names): the second name takes the first's address as soon as it may, which is the case to be afraid of. The lifetimes (3 ticks of the pool, 2 of an answer) leave a tick
in which a lease is past its answer.

*Adapters, crashes, changes of the network* (2, 2, 1): an adapter that is taken over beside one that is down; a crash of a session and one of the healing after it, in
the same or another part, each perhaps a write or a list of adapters that fails instead; a change handled by the supervisor while the session works, and one whose Apply comes after the session has ended.

*Engine* (two packets, queues of 1, 3 buffers): with one place in every queue each goroutine finds it full and finds it empty; the code's pool makes buffers as they are asked for, and three are as many as the queues hold. With a third packet, which alone can wait behind a flow that waits
for a stream, the run has 590,893 states and passes, too.

*Starts* (2): a third finds what the second found.

Deadlock is checked where the system never stops (Cluster). The others end when their bounds are used up, and say so in the configuration.

## 4. Fairness

*Cluster*: nodes that stopped are started again (systemd); an API call that was accepted is finished; beats and pulls run on tickers for
ever, and each gets its turn though operations compete for the bound on how many are in flight (strong fairness of the two starts); and from some point on nothing fails. The last is what
"a promotion reaches everyone" has to assume: with failures for ever it does not.

*TrafficReport*: both tickers run for ever; losses are bounded, and the property is about behaviours without them.

*FlowRoute*: a handler goes on and a dial ends (it has a timeout, and `DialFail` is one way to end); replicas reread the registry after each pull, which
`ReplicasSync` justifies. Nothing is assumed of the master.

*Balance*: `PollStats` ticks, observes each link it copied, and flows with the label keep coming: without flows nobody asks for a choice.

*Quota*: time passes, snapshots are pulled, calls end, and the client knocks again and again at every node (strong fairness, since a
call under way disables the next).

*Accounts*: the sweep runs on a ticker, a row nobody refreshes falls silent, and a handler whose connection is gone closes its session. No call of an administrator and no traffic is owed.

*Uplink*: time passes, the watcher and the supervisor's loop go on, a migration ends one way or the other (it has a timeout). The network owes nothing: no link comes back because it must.

*Settings*: a call goes on, the poll of the subscription runs for ever and applies what it got, the pause after a failure ends. `SubscriptionArrives` is about behaviours in which some entry point stays up from a moment on.

*Names*: time passes, the administrator's call is finished (the flush after the change of the upstream), and the cache drops what has expired on its ticker. No program need ask.

*ClientSession*: the loop, `run`, what it deferred and the listener's goroutine go on, and the pause between sessions ends; a session that works ends when its context is
cancelled, but otherwise only perhaps. The node that is asked again and again answers some time, and so do the steps before it succeed (strong
fairness of `DialOk`, `ProxyHeal`, `ProxySave`, `ProxyOff`, `Listen`): "comes up" cannot be had from a node that never answers. What the property
adds is that nothing the client does itself keeps it from coming up, above all a port its own listener still holds.

*ClientRun*: that of ClientSession; `run` returns when its engine has, and the goroutines of the engine go on as far as they can (`Proceed`); packets need not come.

*Mobile*: a call that has begun returns, a dial ends, goroutines go on; packets need not come, nothing need fail, and the app owes no call.

## 5. What is proved

For every number of nodes, clients, flows, names, every bound and every other constant, from the named assumptions of the module alone:

| theorem | says |
|---|---|
| `Cluster_proofs!TypeCorrect` | `TypeOK`, under every discipline |
| `Cluster_proofs!Invariant` | `Inv`, if `Discipline # "any"` |
| `Cluster_proofs!SnapshotsFresh`, `NothingElseRollsBack` | `SnapshotNotBelowRequest` and `OnlySnapshotsRollBack`, which no run lists, if `Discipline # "any"` |
| `Cluster_proofs!ImplementsMasters` | Cluster implements `Masters`, which is `KeepsItsMasters`, if `Discipline # "any"` |
| `NodeData_proofs!FilesTyped`, `LiveFiles`, `RowsKept`, `RestartsForward` | `TypeOK`, `LiveFilesStay`, `LossesExplained`, `RestartNotOlder` of HotSwap |
| `NodeData_proofs!SwapCarries`, `RestoreApplied` | `SwapKeepsWhatItSaw`, `RestoreAppliedToBase` of HotSwap, which no run lists |
| `NodeData_proofs!ReportTypeCorrect`, `CountsCover`, `ReportsBehind` | `ReportTypeOK`, `CountCoversTraffic`, `ReportsNeverAhead` of TrafficReport, of which no run lists the last two |
| `NodeData_proofs!NothingForgotten` | `SentArrives`, `RestIsAgreement`: the safety half of `ReportsConverge` |
| `FlowRoute_proofs!TypeCorrect`, `NoLeak`, `LinksFollow`, `Streams`, `LabelsHonoured` | `TypeOK`, `NoLeakedConn`, `LinksFollowRegistry`, `StreamsBounded`, `LabelHonoured` |
| `FlowRoute_proofs!BalanceTyped`, `WinsReal`, `MovesEarned` | `BalanceTypeOK`, `WinsAreReal`, `SwitchesEarned` of Balance, which no run lists: wins in a row, counted in picks as the code does |
| `Accounts_proofs!TypeCorrect`, `TrafficIsAccounted`, `LimitsAreKept`, `AddressesAreKept`, `EditsAreKept` | `TypeOK`, `TrafficAccounted`, `LimitKept`, `AddressesKept`, `EditsKept` of Accounts |
| `Accounts_proofs!AbandonedRowsStay` | `AbandonedStays`: the safety half of `SlotsReturn` |
| `Accounts_proofs!QuotaTyped`, `OverrunsRefused`, `DeadlinesAhead` | `QuotaTypeOK`, `OverrunRefused`, `PeriodAhead` of Quota |
| `Uplink_proofs!TypeCorrect`, `NoSocketLost` | `TypeOK`, `SocketsHeld` |
| `Uplink_proofs!AddressNotLost` | `AddressOnItsWay`: the safety half of `SettlesOnAddress` |
| `Uplink_proofs!LossHealed` | `MappingLossHealed`, if `RoomForRepair` |
| `ClientRun_proofs!SettingsSurvive`, `StoppedIsQuiet`, `OneOwnerPerBuffer` | `SettingsRecoverable`, `QuietWhenStopped`, `BuffersKept`, of the session with its engine |
| `ClientRun_proofs!EngineEnds`, `PacketsPass`, `RunsDown` | `GoroutinesEnd`, `FlowsGetThrough`; `EngineRunsDown`, which no run lists |
| `SettingsMobile_proofs!MobileTyped`, `EngineNotStuck`, `MobileEngineEnds` | `MobileTypeOK`; `NothingStuck` and `MobileRunsDown`, which are what `StopReleases` says but for the fairness |
| `Names_proofs!PoolCorrect`, `PoolLeases`, `NamesLeases` | the indexes of the pool agree; the pool implements `Leases`, alone and in Names, which is `LeasesKept` |
| `Names_proofs!NamesTyped`, `FlowsGo` | `TypeOK`, `FlowsGoWhereAsked` of Names |
| `Names_proofs!StaleAnswersFade` | `StaleFades`: the safety half of `UpstreamTakesOver` |
| `SettingsMobile_proofs!LinksHeldAlways`, `FileRegister` | `LinksHeld`; the file of settings implements `Register`, which is `FileIsRegister` |

The assumptions say what kind of thing each constant is, and little else: that a budget, a limit or a timeout is a natural number (`IdleTimeout` is positive, for a connection that may not be idle at all
is never up), that the sets counted in are finite (connections and rows in Accounts, buffers in DataPath), and that `None` is none of the values it stands beside. Two relate constants, both in Names: an answer of fakeip does not outlive its address in the pool
(60 s against an hour, `fakeip/resolver.go:105`, `fakeip/pool.go:29`), and no name resolves to an address of the pool's own range (198.18.0.0/15 is not routed; the code does not look). TLC evaluates them in every run. `LossHealed` has a hypothesis about times besides (`RoomForRepair`, below), which `MCUplink` assumes, so that TLC evaluates it for the instance it checks.

*Cluster.* A refinement needs to know that two rows of one epoch are the same row, because each was issued, and each number was issued once: which, as no line of the code sees to it, is assumed of the administrator (`Discipline # "any"`, one promotion at a
time at a node that knows the newest epoch). What the theorems show is that beats, pulls, swaps under handlers and crashes keep what such promotions begin. The
invariant follows every copy of a row (live, retired, in an answer, in a snapshot) back to the promotions (`OnlyIssuedRows`,
`IssuedOnce`), and needs to know of a promotion about to be written that its number is new (`PromotionsFresh`), which holds because the row it was read from
knew the newest epoch and nothing overwrites that row in between: a beat cannot adopt over it (`BeatsGoForward`: what it is about to write is newer than what it overwrites,
and nothing is newer), and a swap moves promotion and row together into the retired database. `SnapshotsMatchHeaders` (the body of a
snapshot is not older than its header) is what `SnapshotsFresh` rests on. With "any" the argument fails at its first step (run `promote`).
For `ImplementsMasters` `promoted` is the set of declarations, the live row of a node what it knows, and the number a pull was started with what it had asked for; besides `Inv` the mapping needs that declarations name nodes and that who pulls knows one (`Named`).
The write of `Promote` is `Declare`: into the live row, or into a database that was retired since, whose declaration nobody reads. `AdoptCluster` is `Follow`, or nothing if its database was retired; a start is `Join`; a pull is `Ask` until it ends in `Replace` or `GiveUp`. The
reads are stutters: what the proof says of them is that they may be as old as they like.

*HotSwap.* That the live database has every acknowledged row is about one moment; the invariant `IInv` follows the rows from file to file. `Carrying`: while a swap runs, what it saw is in the old file still, and in
the new one for each table that is done (that every row belongs to a table of `carryLocal` is an assumption of the module). `FilesInOrder`: nothing lies above the live generation but the file of a running swap, and retired ones lie below.
`LiveRows` and `RestingRows` say the same of the two halves of a node's life: of the file that is served, and of the file that the next start will open (`Top`), wherever the process died. `BaseThere` is the crash in the
middle of a restore: the base is missing only while the staged file is there to become it. `RestoreApplied` needs besides (`PromiseInv`) that a handler that is uploading took the database before the swaps that followed.

*TrafficReport.* Counts only grow (`CountsGrow`), so it is enough that what is in flight was true when it left (`InFlightBehind`). `NothingForgotten` says what makes the master's sums right without a word about time: `sent` is set before the report leaves (`heartbeat.go` `report`), so the
invariant (`ReportsInOrder`) says of each report under way that it carries what its node remembers, or nothing because the master has it, and that it goes to the master, which for its part puts no snapshot in place (`MasterPullsNothing`). Its hypothesis,
that no report is lost and nobody promoted, is that of `ReportsConverge`.

*Accounts.* `AddressesKept` and `EditsKept` are nearly inductive. For `LimitKept` the invariant says what a handler that is about to insert knows: while its reading is `fresh`, there is room (`RoomRead`); a second handler that
inserts first makes it stale. `TrafficAccounted` is an equation between sums over connections: the module sums with a fold, and the proofs need that a sum changes by what its one changed term does (`OneTerm`). Since induction over
sets is out of the provers' reach, the sum is shown to exist by a smallest counterexample (`SmallestThere`, `OneLess`), from the well-founded order of the natural numbers. `Tallied` says of every connection what it may have counted at
its stage: nothing before the tunnel is up, nothing left when its row is to go. `AbandonedStays` is about the rows nobody holds: a connection keeps the row it has or loses it (`Detached`), a new one takes a number that no row has, and only its own accountant touches a row. So the sweep
may count on what it sees, and what is left of `SlotsReturn` is that time passes and the sweep runs.

*Quota.* `RowIsPeriod`: while nobody has written over what he had not read, the row of the master is the period that the property speaks of. `BaseRead`: a call at the master counts from a base not above that of the period, unless another writer of
the row came in between. `OverrunRefused` then compares what the call read with the period. `PeriodAhead` rests on a lemma on division (`NextAhead`).

*Uplink.* A socket is lost if it leaves the list while nobody else names it. `MoversInv` has what the two migrations know of each other: the one that is about to retire a socket has put it on the list under the lock before, and one that rests
names the first socket, which is always listed. `AwakeInv` (a session that lives has not been idle too long) is what the types need.
`MappingLossHealed` is about time. While the machine keeps the address and the link of the last packet it received (`Steady`), either a probe is under way that the node answers before another tick (`Awaited`), or two things hold. `Clocks`: the
silence that `watchPath` counts is not far behind the time since that packet. A PING is sent by `KeepAlive`, a migration that keeps `watchPath` from its reading ends by `MigrateTimeout`, and from the later of the two (`Noticed`) every reading counts.
`Ready`: a repair can begin when it is due, as a connection id is spare, the pause since the last one is over and none has been tried since the packet. So the silence is over its limit, and the probe sent, before the idle timeout, if the times leave
room: `RoomForRepair`, the hypothesis of the theorem, which 15 s of keep-alive, 20 of silence, 3 between repairs, 10 for a migration, 45 of idleness and quic-go's four connection ids meet. The times can hardly be tighter: with a keep-alive
and a silence that add up to the idle timeout (5, 4 and 9 ticks) TLC finds a session that dies, as it does with one connection id. Three ids are what the argument wants, so that two migrations at once leave one to spare, by a count of those who
hold one (`TwoMovers`); with two TLC found no session that dies, for the times it tried.
`AddressOnItsWay` follows the machine's address from the watcher to the supervisor. It needs `NewestWaits`, that what the watcher saw last is the newest of what waits to be sent, is in the channel or was tried: the watcher empties the channel of its
older notice before it sends (`netwatch.go:85-93`), between which the supervisor may take one.

*ClientSession, DataPath, ClientRun.* The theorems are about the composition. For the settings the invariant says where the user's are at every step of `run`, of a healing and after a crash: in place, in the file (`DnsLeft`, with nobody on
the port who would keep a session from healing), in memory (`DnsTaken`), or in both (`DnsFiled`), and likewise of the proxy by the phases of `run` (`ProxyInv`). `QuietWhenStopped` is what is left of it when the loop has ended. For the buffers it
says that the pool, the two queues and the batch are a partition, with no buffer twice in a queue; that the pool is not empty when a queue has room follows by counting (`RoomLeavesBuffer`), as there are as many buffers as places.
`EngineEnds` and `PacketsPass` are about an engine that can take no further step: then all that may be left of it is left. That each goroutine got away is a matter of room for its error, so the invariant counts errors against the goroutines that have ended (`ErrorsInv`), and of
reasons: ingress ends only when the context is done, dials one UDP flow at a time, and the inbound pump ends after its reader or the context (`ReasonsInv`). `RunsDown` says that an engine comes to such a state, unless packets from outside keep
it busy: each step that needs nobody else lowers `Left`, which weighs a packet by the queues it has before it, a flow by its stages and a goroutine by its turns. Together they are what a proof of liveness would need besides fairness.

*Mobile.* An adapter is described by itself (`Sound`) and by its place among the others (`MobileInv`: one that calls do not work on was cancelled or has ended). `Sound` had to say more than was thought at first. That an engine which has ended holds no tunnel needs
that a tunnel is open only where its worker will close it (dialled, running, closing), and that a goroutine runs only over a tunnel; a worker that had dialled could else be cancelled with nothing said of what it held. `EngineNotStuck` then is that an
engine that was let go has given all back or has a step that needs no packet, no node and no failure; `MobileEngineEnds` that it has but so many of them. `StopReleases` follows with the fairness of section 4, a step that TLC checks and TLAPS cannot take.

*FlowRoute.* Connections are numbered and a flow holds the number it dialled until it is stored: `ViaInv` and `LinkInv` say which numbers those are and that no two flows hold the same,
`FreshInv` that a connection raised before a reread is marked late; `LabelInv` and `PathInv` relate a flow's label to where it has been and its depth to its hops.

*Balance.* Besides `WinsAreReal` the proof carries `CoolInv` (no wins are counted before the cooldown is over). That the best candidate exists
(`Least`) is taken from the well-founded order of the natural numbers.

*FakePool.* The pool is proved as a machine of its own, whose steps are those that Names takes with it (`PoolTakesItsSteps`). That both indexes agree (a name's address is owned by the name) is inductive as it stands; with it a step of the pool that gives a name
an address is one of `Leases` that does, since an address is only taken from a name whose time is over, and every other step lets leases end or leaves them.

*Names.* The invariant is what an answer is worth (`Promises`): while a program may use an address, the pool has it for the name that was asked for, for at least as many ticks as the program will keep it, with real addresses that some upstream gives
that name; and once its flow knows the name, it is that one. For NAT46 it is the same of the table, whose way back must lead to a mapping of the same address (`TableInv`), or a prolonged mapping would be somebody else's. That an assignment takes no
address that anybody may still use is `Assigned` and `Remapped`. The answers themselves are right because those in the cache are some upstream's. That the cache is a sequence within its size is the one place where induction over data is needed: `OnlyRemains` gets it, once more, from
a smallest counterexample, and `Only` is written as a function for it.
`StaleFades` compares the cache with the one before: what is in it came from there with no longer life (`CacheFades`), or from a query that finished; one that finds an earlier upstream's answer had asked before the change, and nobody becomes such a query while the upstream
stays (`LateFewer`).

*Settings.* `LinksInv` adds to `LinksHeld` that a closed link leads to no node, so that a node that stops breaks no link that nobody answers for, and that number 0, "no link", is never
one. A dial makes a link only its caller holds, a store hands it over or closes it, and every other step leaves links alone or closes the one in use: that no two calls hold the same link
is not needed. For `FileRegister` a step is `Begin` (an edit, a bundle, entry points that differ), `Commit` (the rename), `Abandon` (a failing disk) or `Crash` (which may bring back an `earlier` content), and leaves the
register alone otherwise; `SavesInv` carries that what is being saved are settings, which no save in progress could be mistaken for having none, and that the file has reached the disk.

Only checked by TLC: the thirteen properties of liveness (`ReplicasSync`, `PromotionSpreads`, `ReportsConverge`, `SlotsReturn`, `ReplicasDropDisabled`, `SettlesOnAddress`, `SilenceEnds`, `LeavesLost`, `SubscriptionArrives`, `Reopens`, `UpstreamTakesOver`, `Reconnects`, `StopReleases`), as fairness
is out of the prover's reach. Of five of them the table has the safety half. `ENABLED` is out of its reach, too: `GoroutinesEnd`, `FlowsGetThrough` and `NothingStuck` are
therefore stated with the guards written out (`CanProceed`, `CanGo`), and that these are the guards of the actions (`GuardsExact`, which has `ENABLED`) was checked by TLC with the constants of the runs. The types of Settings are checked
and not proved: `applyEntries` reorders its list with `SelectSeq`, whose definition recurs over its argument. That a queue's or a list's contents are folded right over any length is induction over data, and is left to TLC wherever no smallest counterexample does in its place.

## 6. Where the code and its comments part ways

Stated in the modules as properties, and refuted by TLC. The constants are those of the configuration that has the module unless others are given.
The first two are the runs `promote` and `windows`, whose traces are short; the others can be had by naming the property in that configuration:

* `Cluster!OneWriterPerEpoch` (`db/cluster.go:53`, against `:46-47`): the epoch grows in the row of the node that is asked, any node may be asked, and two that are asked before they hear of each other
  become masters with one number.
* `Balance!WindowsInARow` (`balance.go:153`, against `:45-47`, `links.go:214` and `balance_test.go:108-110`): a challenger should win `HoldWindows` windows in a row. `Pick` counts the flows that ask, so that several flows on one window
  are enough, and with no flows no window counts. `SwitchesEarned` says what is true.
* `Cluster!OneWriter` (`replica.go:209-210`, against `:206-207` and `admin_cluster.go:66`): with two promotions, both asked of the acting master, a snapshot that was asked for before the first is installed after the second, and makes a node
  master again that had handed over. "acting", `MaxEpoch` 3, `MaxBusy` 3.
* `Accounts!NewRowsWithinLimit` (`db/accounting.go:49`, `:145`): the count and the insert are two statements, so that two handlers of one client pass one limit together.
* `Accounts!AddressOfOneClient` (`db/sqlite.go:304-306`): a replica's assignment goes with the next snapshot while the tunnel lives, and the address goes to another client.
* `Accounts!NoEditLost` (`admin_users.go:241`): a row is read, changed and written whole; of two edits the later undoes the earlier.
* `FlowRoute!LinksMoveOn` (`server/links.go:88-95`, against `:68-69`): `Reload` compares the entry with the one it read before. A connection raised for the old address while the registry was reread is stored after that, and no later `Reload` drops it.
  Fair.
* `ClientSession!DnsOnDisk` (`sysdns_windows.go:80-85`): the comment promises that whoever kills the client the next second finds the old DNS on disk; the file is written after the settings, and truncated first.
* `ClientRun!FlowsPassFullNode` (`connectudp/dial.go:45`): a UDP flow waits without a deadline for a node that allows no more streams, and every flow waits behind it. `MaxPackets` 3.

* `Cluster!FreshReplicaSyncs` (`replica.go:210`): a replica installed with `-master` starts at epoch 1, the first master serves epoch 0 until somebody promotes it, and
  the replica refuses all its snapshots. `db/cluster.go:90-91` says that it learns everything from them. Fair, "none", `MaxBusy` 4.
* `TrafficReport!SharesAddUp` (`db/local.go:82`; `net_traffic.go:68-69`): the master's own count comes with its snapshot, `carryLocal` keeps the larger of it and the replica's own, and the replica reports it as its own.
* `FlowRoute!FlowsGetOut` (`route_decide.go:56`, against `:20-21`): `auto:<tag>` is passed on unresolved, and a node that carries the tag leaves itself out: with two such nodes the flow goes back and forth until
  its hops are used up. 3 nodes of which 2 carry the tag.
* `Quota!OverrunRefusedAnywhere` (`db/quota.go:93`, against `node.go:478-480`, `db/quota.go:40-42`): a period that a replica starts is wiped by the next snapshot, and started anew with nothing spent.
* `HotSwap!RestoreTakesEffect`: a restore accepted after the first hot swap is staged beside a generation, where no start looks for it (`db/backup.go:87`, `admin_power.go:111`).
* `HotSwap!RestartKeepsRows`, `SwapKeepsAcked`: a crash between the rename of a generation and the carry loses local rows; so does a write during the carry (`db/local.go:15`). `LossesExplained` is what is true.
* `FlowRoute!DisabledDropped`: the master never rereads its registry, so it keeps links to nodes that were disabled (`cmd/qd-server/main.go:289`).
* `Cluster!EpochNeverRollsBack` (`replica.go:208`): a snapshot asked for before a beat brought a newer row is installed after it. "latest", `MaxEpoch` 3, `MaxBusy` 2.
* `Cluster!OldMasterStepsDown` (`db/sqlite.go:65`): a replaced master asks nobody, so it is never told, unless the promotion was made through it. Fair, "latest", `MaxEpoch` 2, `MaxBusy` 4.
* `Balance!LeavesDead` (`server/links.go:248`): `sampleOnce` asks every stored connection for its `Stats`, and neither asks whether it lives (`transport/cip/client.go:198`), so a dead connection
  is measured on with the last round trip it knew and its node remains the choice; `balance.go:188` relies on the opposite. One picker, `HoldWindows` 2.
* `ClientSession!QuietWhereverMoved` (`cmd/qd-client/run_windows.go:207`): the supervisor may still be in `OnNetworkChange` when the session has given the DNS back, and takes it over again; and what its Apply
  returns is dropped, while its file replaces the session's, so that an adapter the change brought in is never given back. `service.go:9-11` promises the original state.
* `ClientSession!ConnectedMeansSo` (`client/service/service.go:149`): a session is said to be connected before it has begun, where `:30` says that traffic goes through the node.
* `TrafficReport!ReportsConvergeAfterBreaks` (`heartbeat.go:77`, `:237`): a lost report is not repeated until the count changes. `MaxLoss` 1 or `MaxPromote` 1.
* `Mobile!StopFrees` (`mobile/mobile.go:164-168`, against `:153`): of an engine that ended by itself (the node closed the tunnel) `StopEngine` and `StartEngine` find the state "stopped" and give it up as it is: its context is
  not cancelled, the descriptor stays open, and its pump goes on taking packets from the device and losing them.

Met while modelling, each visible as a step or a choice of the module named, or left out of it as said:

* *Cluster.* A node may be promoted through itself without being in the registry (`admin_cluster.go:76`). Every node that is told looks its master up (`replica.go:179`, `heartbeat.go:166`) and fails, beat after beat, until a node that knows
  it is promoted; in the model every node is registered. Beats and pulls likewise need the asker's token on the master's side, which the model has.
* *TrafficReport.* A report replaces the row of its node, so one that arrives after a newer one takes the count back until the next report. In the model one report of a node is under way at a time, as one loop sends them: that it overtakes
  the next takes a request whose answer timed out and which the master handles later, and that is not modelled.
* *Accounts.* `PutToken` writes the row with `revoked = 0`, so that an edit of a label lifts a revocation (`db/sqlite.go:242`; `admin_users.go:310-311`). `revokeUser` closes rows, not connections (`admin_users.go:322`).
  `TokenRow.Expired` is called by nothing (`db/sqlite.go:181`). A session refused by its limit runs on uncounted (`db/accounting.go:145-147`). The comment on `AllocateAddress` overlooks that replicas allocate (`db/sqlite.go:304-306`). When the
  tunnel fails to start, its row stays until the sweep.
* *Quota.* Two calls of `QuotaOf` for one client overlap as any two handlers may: one that has read the row goes on with the base it read after the other has brought it down for a history that was lost (`db/quota.go:63-71`), and
  lets in what the lower base would not; the next call sees it. A check that overlaps an administrator's reset or change of plan writes its older row over it (`lost`), and what it says is excepted. The proof of `OverrunRefused` failed on this with two calls, where the run has one, and the property now says so.
* *Uplink.* `Close` takes the list of sockets once, and misses one that a migration opens after that (`quicconn/conn.go:206`). With two migrations at once `c.tr` may not be the path in use (`:56`). The watcher and `watchPath`
  outlive `Run` when the session dies (`supervisor.go:141-142`). A repair without a local address is counted as one (`health.go:91`, `:99-101`). `netwatch.go:10` says idle after 30 s, the connection says 45.
* *Settings.* A dial that began before `SetNode` stores its link to the old node after it (`control.go:215`, against `:74-75`). `applyEntries` saves over an edit made since it read (`subscribe.go:176-201`). The file is written outside of the lock that
  its copy in memory is set under (`service.go:24-28`, `:39-47`). After a subscription the control channel is not told of the new entries, and a session uses the first only (`service.go:84-87`, against `config.go:50`). `Do` does not
  repeat what has no body (`control.go:96-98`, against `:112`). Copies of clients' settings stored on a replica are lost with its next snapshot (`db/local.go:48-85`).
* *Names.* A query that asked the old upstream stores its answer after the change and the flush (`dns/resolver.go:160`, against `admin.go:118-121`). `alloc` of NAT46 drops the index of an expired entry's address though it may lead to a newer one
  (`nat46/table.go:138`). A fictitious address whose lease is over goes out as it is, with rules; without, the dialer refuses it. Rules by process match nothing, for a flow has no process. The panel's tester of rules looks an index of the sorted
  rules up in the unsorted text (`api/routes.go:130-165`). `FakeOf`, `NewConntrack`, `AddRule` and `UpdateRule` have no caller.
* *DataPath.* UDP flows are dialled by the goroutine that takes every packet to the stack, with no deadline of its own: if a node allows no more streams (4096, `node.go:353`) it waits for one (`connectudp/dial.go:45`), and every flow with it. The exception
  `Full` of `FlowsGetThrough` is this case, and `FlowsPassFullNode` what it excepts. `errc` has three places and the engine three senders only if `recvWorkers` is 1, which it is by default; with more (`engine.go:108-112`) a reader may be left behind on a full channel. The model has one. `ReadPacket` waits on a channel that is never closed, so one goroutine is left behind by every session. `pipe` closes both directions at the first end of either.
  `Source.Send` fills buffers of its own and is called by two pumps (`windivert/source_windows.go:219`), a data race that is not modelled.
* *Mobile.* The rules of `UpdateRules` are read by `GetStatus` alone: the engine is not given the router (`mobile.go:270`). A node that does not answer is replaced by the local netstack, and the state says "connected" (`mobile.go:321`): the traffic goes out
  past the node. `StartEngine` reads `running` without the adapter's lock. A start with a configuration it cannot read has stopped the running engine already.

## 7. What is not modelled

* Real time: tickers are fairness, deadlines are countdowns, timeouts are failures that may happen at any moment.
* SQLite itself: a statement is atomic and durable when it returns; a file that passed validation stays readable.
* TLS and the contents of requests; the admin API's authorisation; the limits of rates and the decoy site for strangers, the installer.
* gVisor's TCP and what its flows hold, QUIC's own loss recovery; WinDivert, wintun and the Windows and Android interfaces.
* Packets as bytes: rewriting of addresses (`client/nat`), the clamp of segment sizes with its checksum, the framing of DNS and of CONNECT-UDP.
* The copies of clients' settings on a node (one row, written and read whole), listings of the API, the text of rules and lists of networks.
* User interface (tray, notifications, pages of the panel), development tools, scripts; the source of `packet/tun`, which nothing imports.
* Of `ClientSession`'s code: the options `-no-dns` and `-no-proxy`, which leave steps out; a second instance of the client, which the port
  keeps from healing; a file damaged otherwise than by a write cut short or two writers at once (which `Load` takes for no file); edits of the settings by the user while a session runs.

`PROJECT.json` lists every part with its status, and every hazard found, those no property covers included.

## 8. Plan

Done: all modules of section 2, three refinements, two compositions, and the proofs of section 5.

Next proofs: the safety halves of `ReplicasDropDisabled` and `LeavesLost`, and the types of Settings, with its lists written as functions.

Next models: `csumUpdate` and the rewriting of addresses against a reference definition; the copies of clients' settings under snapshots.
