# Gost-webui in TLA+

Specifications of the panel that manages `gost` and `sing-box` forwarding nodes:
what it keeps, how its goroutines and its engines interact, what is checked with
TLC and what is proved with TLAPS.  Source paths are relative to the repository.

## 1. Inventory

The panel is one Go process.  It keeps its data in a bbolt database, starts one
`gost` process (links and gost nodes are services in it) and one `sing-box`
process per reality node.  Engines count bytes; the panel reads the counters.

| component | state | operations | talks to |
|---|---|---|---|
| store (`internal/store`) | buckets nodes, traffic, settings, sessions, devices | one bbolt transaction per method: `SaveNode`, `DeleteNode`, `AddTraffic`, `PruneTraffic`, sessions, devices | everybody |
| controller (`internal/controller/controller.go`) | `nodes` cache of pointers, `live`, `gostReachable` | `Bootstrap`, `LoadNodes`, `ApplyNode`, `RemoveNode`, `SyncConfigFile`, `Reconcile`, `ResetNodeTraffic` | store, gost API, pool |
| sampler (`internal/controller/sampler.go`) | `lastCounters` (a map behind a lock) | `sampleOnce`, `sampleReality`, pruning once a day | store, gost API, pool, alerts |
| node handlers (`internal/server/handlers_nodes.go`) | none; they share the objects of the cache | create, update, toggle, delete, reset | controller, store |
| gost manager (`internal/gostmgr/manager.go`) | `cmd`, `stopping`, status | `supervise`, `Start`, `Stop`, `Restart`, `WriteConfig`, `WaitReady` | the gost process |
| gost client, configuration (`client.go`, `config.go`, `quota.go`) | none | API calls, `BuildConfig`, quota windows | gost |
| sing-box pool (`internal/singbox`) | an instance per node: configuration, process, `stop` channel, `stopping` | `Apply`, `Remove`, `StopAll`, `Stats`, `supervise`, `reapOrphan` | sing-box processes |
| alerts, notify (`internal/alerts`, `internal/notify`) | up/down and threshold state per node, cool-down table | `ObserveNodes`, `Run`, `Send` | sampler, Telegram |
| sessions, login guard, two-factor (`internal/server/{server,security,twofa}.go`, `internal/auth`) | sessions, failures per address, challenges, used code counters, recovery codes, devices | login, second step, enable/disable, revoke | store |
| subscription listener, certificates (`sublistener.go`, `internal/cert`) | listener, certificate provider | restart on a change of settings, issue, renew | HTTP, ACME |
| main (`main.go`) | signal handling | order of start and of shutdown, re-exec | all |
| links, subscriptions, CLI, system information, web UI, install script | none worth a model | parse, format, read | - |

What is hard here:

* **Pointers in a cache.**  `Controller.Nodes()` hands out the cached objects
  themselves.  The sampler keeps them for a whole pass; `LoadNodes` replaces the
  cache; a later `SaveNode` writes the old object over a newer row.
* **Three baselines.**  `lastCounters.m`, `Counter*`/`CounterPid` in the row and
  the counter in the engine have to be reconciled whenever any of the panel, the
  engine or the row restarts or is replaced.
* **Many API calls per node**, each of which can fail before or after its effect,
  with `gost.yml` written last: a crash of gost in between starts from an old file.
* **Goroutines that outlive their reason** (`supervise` of gost and of sing-box):
  flags and channels that are set before or after the goroutine looks.
* Deadlines, replays and bounded tables in login, second factor and notification.

What makes each part correct:

* *sampler*: an increment is recorded once; no edit is undone; a deleted node stays
  deleted; nothing carried is lost while the engines stay up; a save that fails leaves
  nothing that a later one does not mend.
* *controller, handlers*: after success the engines carry what the row says; after a
  failed operation the old state is restored; a start of gost or of the panel
  gives what the database says.
* *gost manager*: one process at a time, `Stop` finds it, it is restarted as long as
  the panel serves, a restart always leads to a running gost.
* *pool*: one process per node, none for a removed or disabled node, the running
  process carries the last configuration; orphans are reaped.
* *quota*: an exhausted quota blocks until its window ends, and not longer; nothing is
  charged to a window twice, or to a window it was not carried in.
* *alerts*: what was last said of a node is true; a threshold is announced once per window.
* *sessions*: the map and the database are one table; what has ended stays ended.
* *login, second factor*: a code, a recovery code, a challenge is consumed once; what
  stands in for the second factor belongs to the secret in force; who has failed waits.
* *subscription listener*: after the last change one listener runs, with its settings.

## 2. Modules

| module | models | lines of the source it stands on |
|---|---|---|
| `TrafficAccounting` | the sampler, the accounting side of the handlers, `ResetNodeTraffic`, the cache | `sampler.go`, `controller.go`, `handlers_nodes.go`, `store.go` |
| `NodeSync` | `ApplyNode`, `RemoveNode`, `SyncConfigFile`, `Bootstrap`, the handlers that call them | `controller.go`, `handlers_nodes.go`, `gostmgr/client.go`, `gostmgr/config.go` |
| `GostSupervisor` | `gostmgr.Manager`, its callers in main and `handleGostRestart` | `gostmgr/manager.go`, `main.go`, `handlers_misc.go` |
| `SingboxPool` | the pool, `supervise`, the processes, the callers of the pool | `singbox/singbox.go`, `sampler.go`, `main.go` |
| `QuotaWindows` | quotas of one node: `Reconcile`, `restoreQuotaUsage`, `WindowUsed`, the pausing of reality nodes, edits and resets of quotas, pruning | `controller.go`, `sampler.go`, `gostmgr/quota.go`, `store.go` |
| `SessionTable`, `Sessions` | what is promised of sessions; how the map and the database keep it | `server.go`, `store.go` |
| `LoginGuard`, `TwoFactor` | the cooldowns after failures; login and the management of the second factor, which extends it | `security.go`, `server.go`, `twofa.go`, `auth/totp.go`, `handlers_misc.go` |
| `Alerts` | `ObserveNodes`, `checkHost`, `Reload`, and `Send` of `notify` | `alerts.go`, `notify.go`, `sampler.go`, `handlers_system.go` |
| `SubListener` | the subscription listener and the ACME challenge server | `sublistener.go`, `handlers_sub.go`, `cert/cert.go`, `main.go` |
| `TrafficAccountingProofs`, `NodeSyncProofs`, `SessionsProofs`, `AlertsProofs`, `TwoFactorProofs`, `SubListenerProofs`, `SingboxPoolProofs` | theorems about the modules they are named after | - |
| `GostProofs` | theorems about `GostSupervisor` and `QuotaWindows` | - |
| `MC*` | scenarios, symmetry and views for TLC | - |

The modules share no variables.  Where two of them meet, each takes the other as an
input that may happen at any moment its code allows: to the accounting an engine is a
counter that may restart, to the synchronisation gost is a process that may exit and
come back, to the pool a quota is used up or renewed.  `QuotaWindows` in turn takes the
increments of a pass as given (`pend`), and the pool as a node that runs or does not;
`Alerts` takes the nodes as what they are found to be; to `TwoFactor` a session is something
opened, and what becomes of it is in `Sessions`.

**Scenarios.**  Every module has a constant `Scenarios` and a variable `sc` (`env` where a
scenario is nothing but its environment) that `Init` picks from it and no step changes.  A scenario says what the environment does in a
behaviour (`env`, a set of names listed and explained at the head of the module) and
bounds it.  (`QuotaWindows` says `QuotaScenarios`, `qsc`, `QuotaInit`, `QuotaSpec` and so on: `GostProofs`
extends it together with `GostSupervisor`, and two modules that are extended together share no name.)
One run so explores several kinds of interference side by side, and a
property that needs an assumption about the interference states it as a condition on
`sc`, where the reader sees it: `RealityCountedOnce`, for example, is conditional on
`sc.env \cap {"edit", "statsFail", "resetFail", "storeFail", "overlap"} = {}`.

### TrafficAccounting

`row`, `stored` and `bucket` are the database (a node, whether it has a row, the sum
of its hourly points).  `obj[n][r]` is the object behind pointer `r`, `cached[n]` the
pointer in the cache, so that a stale pointer is a reference other than `cached[n]`.
`seen` and `last` are the keys and values of `lastCounters.m`.  `engine[n]` is the pid
and the counter of the process (for gost nodes: of the service; the panel does not
see a pid there and the code uses none).  `smp` and `adm` are the sampling pass and
the handler under way, with what they hold in local variables.  `carried`, `mark`,
`counted`, `acked` and `torn` are history variables; `torn` has the nodes for which the store
has refused a call since cache and row last met.  One of the two directions (in, out) is
modelled.

Each bbolt transaction is one action; the steps between two transactions, or between
two reads of shared state, are separate actions: `Account` ends with `AddTraffic`, `Save`
with `SaveNode`; `UpdateBuild`, `UpdateSave`, `UpdateLoad` and `UpdateApplied` are the four
parts of `handleUpdateNode` (`UpdateFailed`, `UndoSave` and `UndoApply` its way back);
`ResetZero`, `ResetForget`, `ResetStats` and `ResetSave` those of `ResetNodeTraffic`.
`PanelRestart` can happen anywhere.  `"overlap"` lets handlers run during a pass.  `Reload` is a
handler of another node, or a subscription, that has the cache read again: between any two
steps with `"overlap"`, between operations without.

With `"storeFail"` every call of the store can fail.  The object is changed first in any case:
`Persist` is the save that follows, and a refused one leaves the object ahead of the row while
the pass or the reset goes on.  `Account` may lose its point, `UpdateStale` and `DeleteStale` go on
with the old cache, and `StoreRefuses` is the handler that answers with an error.

### NodeSync

`row` is the database, `file` is gost.yml, `svc` and `lim` what gost has in memory, `sb`
the sing-box processes, `h[id]` the handler of a node with the step of `ApplyNode` or
`RemoveNode` it is at, `sync` another writer of gost.yml.  A configuration is `[mode, on,
ver]`: `ver` stands for everything else in the form.  A call to gost has three outcomes:
success, failure without effect, failure with effect (a lost answer); with gost down
only failure.  `"fail"` also lets file operations and writes of the store fail (`StoreFails`: the
undo of an update or the deletion of the row stays undone).  `failed` remembers whether the
last application of a node met an error, `fresh` that the panel's start met no error with the
node and no handler has touched it since.

A start of the panel is `PanelRestart` (`Bootstrap`: gost.yml, then `SyncReality`, where the
application of any node may fail and is only logged, then gost) or `BootFails`, when it returns
early and gost is not started (`panel.started`) until the admin restarts it.  `restartPanel`
executes the program anew without stopping sing-box, and so does a kill: with `"orphan"` a restart leaves
the processes running (`Left`), and `panel.orphans` are those the new pool has no handle to.  A
new process of the node takes an orphan's place (`reapOrphan`); nothing else ends it (`PoolSets`).

### GostSupervisor

`sup[c]` is the goroutine `supervise` launched with context `c`, `call[c]` the caller of
`Stop`, `Start` or `Restart`: main (`Root`), or a restart request.  Each read or write of
`m.stopping` and `m.cmd` is a step of its own.  A restart request ends as `done` when `WaitReady` has
found a gost that answers, or as `failed` when its time is up or its client has gone; either way the
context of its goroutine ends with it.  Between the end of `Stop` and `Exit` (main closes
the database, or executes the panel anew) the goroutines still run.  Processes are members of `Procs`; an
exited one is taken again when nothing refers to it.

### SingboxPool

One node.  `want` is its row, `conf` its config.json, `pool` its entry in `Pool.inst`,
`cmd[i]` and `stop[i]` the fields of instance `i`; a stop channel has the name of the
goroutine that made it, and `closed` are the channels that are closed.  `go[k]` is a
goroutine in `supervise`: `GoInit` (its channel into the field), `GoCheck` (`<-stopCh`),
`GoReap`, `GoStart`/`GoStartFails`, `GoPublish` (`i.cmd = cmd`), `GoWait`.  `call[w]` is the
handler's or the sampler's call into the pool: `WriteConf`, `Look`, `Halt`, `WaitGone` and
`Spawn` are `Apply`; `Unmap`, `Halt`, `WaitGone`, `RemoveDir` are `Remove`, and `DropRow` what
`handleDeleteNode` does after it; `Halt` and `WaitGone` are `StopAll`.  The end of main is three
steps: `StopPanel`, the calls of `StopAll`, and `MainReturns`; in between the panel is `"leaving"`, and
with `"late"` the sampler's ticker goes on, as nothing stops it in the code.  A process is
starting, listening (it holds the ports) or closing; `Bind`, `Close` and `Exit` are its own
steps.  `pass` is the sampler's pass over the node with the object it listed: `PassNodes`,
`PassStats`, `PassDecide`.  `Quota`, `KillPanel` and `Boot` are the environment:
a killed panel (or one that executes itself again) leaves its processes behind.

`reapOrphan` looks for the process of the pid file by its command line and for whoever
holds the API port.  The arguments in `/proc/<pid>/cmdline` are separated by NUL bytes,
the text looked for has blanks, so the first way never finds anyone (`Orphans`).

### QuotaWindows

`row` is the node's quota and `QuotaSince`, `points` the hourly points, `total` the totals.
`q` is the quota in gost's memory (parameters, window, use), `file` its quota.json, `conf`
the quota of gost.yml.  `run` and `paused` belong to a reality node: whether its process
runs, and the sum that stopped it.  `rec` is the `Reconcile` under way (`RecList`, `RecUpdate`,
`RecFind`, `RecSum`, `RecReset`: a listing, an update, the second listing, the sum over the
points, the restoration), `adm` an edit or a reset.  The clock counts hours, days and
months of a few ticks; `QuotaWindow` computes the same windows as `quota.go`, and the sums
start at the hour in which a window began, as `RangeTraffic` does (`LocalHourStart`).
`carried` and `late` are history: what was carried in each hour, and what of it had not been
sampled when the hour began.

### SessionTable and Sessions

`SessionTable` is the abstract specification: tokens that are valid, that were ever used,
and that an answered logout or revocation has ended; `Open`, `End` and `Promise`.
`Sessions` has the code's two copies, `mem` (`sessionStore.m`) and `db` (the bucket), each
changed under its own lock: `CreateMem`, `CreateSave`; `GetHit`, or `GetMiss`, `GetRead`,
`GetFill` (or `GetUnbind`, for another User-Agent); `LogoutMem`, `LogoutDb`; `RevokeMem`,
`RevokeDb`; `Sweep` of the map and of the database; `Restart`, which empties the map.
`Table == INSTANCE SessionTable WITH valid <- Valid, ...`: a token is valid when either copy
would honour it, and the run checks
`Table!Spec` as a property (`OneTable`).

Any write and any deletion may fail (`CreateSave`, `Delete`).  `handleLogout` and `revokeOtherSessions`
(`"change"`: a new password, a disabled second factor) ignore the error of the deletion and answer ok,
`handleRevokeOtherSessions` (`"revoke"`) reports it.  Two histories tell what an answer was worth: `told`
has the sessions it was given for whose rows were gone, `kept` those whose rows stayed.  `OneTable`
promises only the former; `RevokedStayOut` is about both.

### LoginGuard and TwoFactor

A guard is a function from keys to `[fails, until, seen]`; `Bump`, `Clear` and `Cleanup` are
its operations.  `TwoFactor` keeps one for addresses and one for the account.  `secret`,
`enabled`, `lastStep`, `recovery` and `devices` are the database, one transaction each;
`pending` and `chals` are in memory.  A binding is the enrolment of one secret: the number
the model attaches to codes and devices tells which secret they belong to.  `pc[r]` is the
request: `Begin`, then the password, then a session, a device or a challenge; `Answer`,
`CheckCode`, `NewCode` or `SpendCode`, `AnswerAccepted` or `AnswerFailed`; for the management
requests `Granted` and one step per write (`ClearStep`, `EnableStep`, ...), with a failed
write or a restart possible before each.  `torn` counts the disables and enables that were
cut off, and the enables that went on although the flag could not be written.  What a client
may type is what is before its eyes: `Present` codes of the authenticator, `Printed` recovery
codes of any batch, or something wrong.  A login under another name (`NoAccount`) counts for
the address alone.

### Alerts

`truth` is what the nodes do and what gost says of their quotas, `live` what the last pass found, `nodeRunning`, `nodeConns`,
`quotaLevel` and `windowKey` the maps of the manager, `last` the cooldown table of the
notifier.  `pass` goes over the nodes of a snapshot (`ObserveRunning`, `ObserveClients`,
`ObserveBlocked`, `ObserveWarn`), and waits at each message for its post; `host` is the loop
of `checkHost`, `Settings` the form of the admin.  `word`, `tried`, `flip` and `warned` are history: what was
last posted of a node, when a post of each message last began, the last change of each node with
the fate of its message (`flip`: switched off, lost, or too early after another of its kind), the announcements.

The listing of the quotas can fail while that of the services answers (`Found`: the pass then sees
a node without a quota).  `until` is the window as gost reports it.  It is the panel's, except after gost
has started from a gost.yml of an earlier window: `"stale"` lets it fall back, with the usage of
that time, until `Reconcile` has brought it forward.

### SubListener

`settings` are the `sub_` settings, `prov` the certificate provider, `subSrv` and `acmeSrv`
the published servers, `srv` every server that exists with its state: new (its goroutine has
not run), starting, listening, failed, or finding its port taken by another program.
`restartSubscription` is `Take`, `Shut`, `Read`, `Reload`, `ReloadShut`, `ReloadStart`, `Build`,
`Publish`; `Bind` is the goroutine.  Certificate and key are two settings: a write that fails
between them leaves a pair that does not match (`"bad"`).

## 3. Runs

Passing runs check the properties together with the interference under which they
hold; a violating run checks one statement of the code's own comments or change log
under the interference that breaks it.  The findings in `PROJECT.json` quote them.

| run | expected | shows |
|---|---|---|
| `traffic_safety` | pass | nothing is counted twice: on gost nodes whatever overlaps a pass and whatever the store refuses, on reality nodes between passes, in the totals also with a gost that outlives the panel; with handlers between passes the cache equals the database unless the store refused something, and only a reset or a deletion lowers a total |
| `traffic_live` | pass | while the engines stay up every byte reaches the points and the total, however often the gost API fails |
| `sync_nodes` | pass | an application without an error, also the one that restores an old row, leaves the engines with the row; with one writer at a time gost.yml agrees with the rows whenever gost exits; a panel start repairs every node it met no error with, and handlers of other nodes do not spoil it |
| `gost_process` | pass | without restart requests one gost, found by `Stop`, none left behind by a `Stop` that has found it, started again after each exit and failed start; restarts that were all answered with ok, overlapping or not, end with a running gost |
| `gost_restart_dup` | `SingleGost` fails | a restart while the old goroutine has not looked at the flag leaves two goroutines, each with a gost |
| `pool` | pass | no process of a disabled or deleted node once the request has returned, one goroutine per node, no process with an old configuration, nothing left by `StopAll` if the sampler rests, and the node settles when the disturbances end |
| `quota` | pass | across midnights and month ends, crashes of gost, failing calls, edits, resets and pruning: nothing is charged twice, a node beyond its quota ends up closed, one within it ends up open |
| `sessions` | pass | the two copies of a session implement the one table of `SessionTable`, where an answer counts if the row could be deleted; a session ends only for a reason |
| `sessions_revoke` | `RevokedStayOut` fails | a lookup that has read its row before a revocation deleted it fills the map afterwards: the revoked session works on |
| `login` | pass | a code, a recovery code and a challenge open one session; what stands in for the second factor belongs to the secret in force; failures are throttled however requests overlap |
| `alerts` | pass | what was last said of a node is true, unless the message of its last change was switched off, lost or repeated within the cooldown; thresholds are announced once in a window and in each |
| `subscription` | pass | once the goroutines have run, one listener has the saved port, path and protocol, and one challenge server is up exactly when ACME is configured |

### What else breaks

Properties that the code does not have are defined in the modules beside the ones it has.
No run is spent on them; a copy of the run's cfg with this property, and this set for
`Scenarios` (`QuotaScenarios`) where one is named, shows the counterexample.

| in a copy of | put | with | TLC then shows |
|---|---|---|---|
| `traffic_safety` | `CountedOnce` | `EditScenarios` | an edit of a reality node drops the persisted baseline (`handleUpdateNode` copies the totals and not `CounterIn`, `CounterOut`, `CounterPid`), and its running process is counted from 0 again.  `model.go:91`: "pid 变化 = 引擎重启过，计数已归零，基线需重建" |
| `traffic_safety` | `ResetKept` | `ResetScenarios` | a reset of a gost node puts the baseline at 0 while gost keeps its counter, and the traffic before the reset comes back (`controller.go:391`) |
| `traffic_safety` | `CountedOnce` | `StoreScenarios` | the store refuses the save of a reality node after its sing-box has restarted, and the next listing brings the row with the old pid back: the whole counter of the new process is counted again (`sampler.go:273-276`, 305-307) |
| `traffic_safety` | `WritesKept` | `OverlapScenarios` | a pass saves the object it listed before an edit or a deletion was answered: the edit is undone in the database, the deleted node is back, with points (`sampler.go:182-191`) |
| `gost_process` | `KeptUp` | `CrashScenarios` | the goroutine of a restart lives with `r.Context()`: a gost that exits after the answer is not started again (`handlers_misc.go:444`) |
| `gost_process` | `RestartRunsAlways` | `LeavingScenarios` | a client that goes away while it waits for its restart ends the context of the new goroutine, which returns before it has started gost, or kills the one it has started (`handlers_misc.go:444`, `manager.go:119`, 158) |
| `gost_process` | `NoneLeft` | - | `Stop` between `cmd.Start` and `m.cmd = cmd` finds no process, and gost outlives the panel; a start just after `Stop` has looked does the same.  `manager.go:167`: "Stop 停止 gost 进程" |
| `sync_nodes` | `ApplySyncs` | `SwitchScenarios` | an edit that changes the engine leaves the services, or the process, of the old one (`controller.go:148`) |
| `sync_nodes` | `AllHealed` | `OrphanScenarios` | a restart that executes the program anew leaves the sing-box processes (`main.go:246-264`); that of a node which was disabled or deleted, or whose application failed, runs on: `syncReality` starts nothing for it, and only a start reaps (`controller.go:418-431`) |
| `pool` | `NothingLeft` | `LateScenarios` | a pass that `StopAll` overtakes, or one that begins after it, finds an enabled node without a process and revives it; main then returns and leaves it behind (`main.go:239-243`, `sampler.go:90`, 343-346) |
| `pool` | `Reclaimed` | `ReclaimScenarios` | a switch-off between `supervise`'s look at its channel and `i.cmd = cmd` finds nothing to stop, and a node deleted during a pass is revived by it.  `CHANGELOG.md:63`: "开关/删除即时拉起/回收" |
| `quota` | `ResetKept` | `ResetScenarios` | a reset zeroes gost's count and the totals, but neither the hourly points nor `QuotaSince` (`controller.go:366-394`): the next `Reconcile` sums the points of the window as before and gives gost back what the reset forgave |
| `quota` | `ChargedAsSet` | `OutScenarios` | a reality node whose quota is for one direction, "out", is charged both: `sampler.go:325` leaves out what came in only when the quota is for "in".  `model.go:13`: "out（下行）" |
| `login` | `LongerWaits` | `WaitScenarios` | a wait that is over starts the count at 0 (`security.go:188`), so requests that take turns never come to ten failures: the waits of 5 and 30 minutes that `README.md:144` promises are reached by overlapping requests only |
| `login` | `CodeNeverTwice` | `ReplayScenarios` | an enable that cannot write the recovery codes (`twofa.go:435`) is answered with an error and leaves the second factor in force and the setup pending; enabling again deletes the last time step (`twofa.go:422`), and a code that has opened a session opens another.  `README.md:126`: "同一枚动态码只能用一次（防重放）" |
| `sessions` | `RevokedStayOut` | `SilentScenarios` | the row of a session cannot be deleted, and logout, a new password or a disabled second factor answer ok all the same (`server.go:300`, 398-405): the next lookup honours it again.  `README.md:129`: "其它登录会话自动失效" |
| `alerts` | `WarnedThroughout` | `StaleCases` | gost starts from the gost.yml of an earlier window and says so until `Reconcile` has run; a pass in between takes it for a new window, resets the level (`alerts.go:199-202`), and the thresholds of the present window are announced twice |
| `alerts` | `RealityWarnedToo` | `RealityCases` | `QuotaUntil` is set for gost nodes only (`sampler.go:207`): the level of a reality node is never reset, and its thresholds are announced in one window only, though `alerts.go:196` says that they are reset with the window |
| `subscription` | `InEffect` | `OverlapScenarios` | two saves at once: the second finds `subSrv` empty, both start a server, and one is published.  The other keeps its port with the old settings, or held the port when the published one tried, which is not tried again |
| `subscription` | `InvalidIsPlain` | `InvalidScenarios` | a manual certificate that does not parse leaves the provider as it was: HTTPS goes on with the old one, while the log (`sublistener.go:177`) says HTTP |

The conditions in the passing properties are not for convenience; TLC finds a
violation when one of these is added to a scenario (or removed from a condition).

* `TrafficAccounting`, `"statsFail"`: a live sing-box whose API is silent for one pass
  reads as 0, and its whole counter is added when it answers again.  `"resetFail"`:
  a reset takes 0 as the baseline of such a process.
* `"reset"` or `"delete"` with `"overlap"`: the pass saves the object it has listed over
  the reset row, or brings the deleted node back; and a listing between the zeroing of a reset
  and its save leaves the cache with the totals of before, which the next pass writes back.
* `"storeFail"`: `torn` in `CacheMatchesStore` and `TotalOnlyGrows`.  A refused save leaves the object ahead of
  the row, and what it held (a reset, for instance) is written by the next save that succeeds or lost
  with the next listing.  No condition is needed for gost nodes; for reality nodes the old row
  has the old pid (`CountedOnce`, above).
* `"survive"` in the points (not in the totals): the panel stops between `AddTraffic` and
  `SaveNode`, and adds the same increment to the points after it has started again.
  `"edit"` with `"survive"`: the edit drops the baseline of a gost node too, which matters
  when gost outlives the panel.
* `NodeSync`, `"crash"`: a gost that exits between the API calls and the writing of gost.yml
  starts without the node; the handler that goes on has no error.  `"orphan"`: the pool of a new
  panel has no handle to an old process, and disabling or deleting its node does not stop it.
  `"overlap"`: the list
  read first can be written last.  `"delete"`: gost.yml is written before the row goes, and
  with it still in.
* `SingboxPool`, `"overlap"`: with an update, a pass that revives the node while the
  handler waits for the old process starts a second goroutine; the second channel
  replaces the first in the field, and the two reap each other's processes for ever.
  A pass that applies an older object overwrites config.json, and the node is served
  with the old configuration.  `"kill"`: the orphan of a node that is disabled, or was
  disabled before the next start, stays: `Apply` does not reap for a disabled node.  `"late"`
  leaves the same kind of orphan when main stops (`NothingLeft`, above).
* `GostSupervisor`, `RestartRuns`: with `"crash"` a gost that exits is not started again (`KeptUp`).
  With `"timeout"` `Stop` gives up on the old gost, which still answers `WaitReady`; the request ends with
  ok, its context with it, the new goroutine returns at its first look, and the old gost goes.  Requests
  that ended with an error are left out for the reason above (`RestartRunsAlways`).
* `LeftBehind` without `call[Root].proc = Nil`: a `Stop` that finds no process
  (`NoneLeft`, above).
* `QuotaWindows`, `"findFail"`: `Reconcile` has moved the quota to the new window and the
  second listing fails; it goes on with the old listing, sums the old window, and gives gost
  that sum for the new one.  `"overlap"`: an edit between the sum and the restoration has the
  old sum restored into the new quota.  `DirectionKept`: an edit that changes the direction and
  not the window leaves the count of the old direction in gost, which goes on from there.
* `Sessions`: `RevokedStayOut` is proved where no deletion fails and no removal overlaps a lookup;
  `OneTable` needs only the latter and promises less: an answer counts when the row is gone.
* `Alerts`, `"stale"` (`Current`): `WarnedThroughout`, above.
* `TwoFactor`, `"overlap"`: `verifyCode` and `consumeRecoveryCode` read and write in two
  transactions without a lock, so two requests at once can spend one code, or one recovery
  code, twice.  An interrupted disable followed by an enable that fails to write the new
  codes leaves recovery codes of the old secret in force (`torn` in `OwnBinding`).  An enable
  left incomplete and repeated lets a code be used twice (`torn` in `CodeOnce`).

Two more observations of the modelling.  In `TwoFactor` enabling answers "ok" when the write
of `totp_enabled` failed, and a challenge outlives a change of the password and a disable for its five minutes.
In `Alerts`, a node that goes down, comes up and goes down within the cooldown sends one
"down" and one "up": the second "down" is swallowed, and the admin's last word is "up".

### Bounds

* `TrafficAccounting`: a scenario bounds the bytes of a node (2-4), the incarnations of its
  engine (1-3) and its edits (1-2).  Double counting needs one byte counted, one change
  of baseline and one more sample, so two bytes and two incarnations reach it; a third
  of each lets a wrong baseline be hidden by a real byte.  `Refs` has three objects: the
  one the pass holds, the one a handler holds, and one more, which `LoadNodes` takes; a
  dead object is reset to `NewRow`, and the view of `MCTrafficAccounting` forgets what
  nothing refers to.  One node in a safety scenario, as the steps of a pass treat nodes
  independently (the theorem covers any number); one of each kind in `traffic_live`.  Refused
  calls are not counted, only the increments that can be repeated because of them (bound in `Persist`).
* `NodeSync`: two ids, two versions, an id is never used again (ids are random).  Two ids
  are what a lost update of gost.yml needs; two versions tell the old row from the new.
  `ApplyEnv` has one id (and `"overlap"` with the other writer of gost.yml only), `FileEnv`
  both ids one at a time, `HealEnv` and `OrphanEnv` both with one version.  One handler at a time per node.
* `GostSupervisor`: four processes (the running one, one being waited for, one being
  terminated, a fresh one), at most two restart requests, one `Restart` each.  Exits and
  failed starts are not bounded.
* `SingboxPool`: three events (an edit, an exit, a failed start, a quota, a stop, ...) in any
  order and at any moment, two versions, two instances (before and after a removal),
  three goroutines and three processes: the running one, the one told to stop, the next.  The
  passes that go on beside the end of main are not bounded.
  The guards on `FreeInsts`, `FreeGos` and `FreeProcs` only delay a step until one is free.

* `QuotaWindows`: an hour of two ticks, a day of one hour, a month of two days, up to four
  ticks, three bytes, two events: a midnight, a month's end, a byte carried in the window
  before and sampled after, and a crash on each side of either.
* `Sessions`: failures of the store are not bounded; two requests, two tokens, two agents (and requests without one), a life of
  two seconds on a clock of three, one restart: opened, expired or restarted, looked up and
  removed.  A third session would be treated like the second.
* `TwoFactor`: two clients, two requests at once, four or five in all, two bindings, waits at
  the second and the fourth failure, a skew of one time step, two faults.  The scenarios
  keep apart what does not meet: guard and expiry; replay across restarts; the torn
  disables and enables; regeneration and password change.
* `Alerts`: one node of each kind, three steps of usage, three events; a change, the change
  back, and one more, which is what cooldown and window reset need.
* `SubListener`: two requests, two ports beside port 80, up to four requests, two events; five servers are
  two of each kind, published and being replaced, and one that failed.

`CHECK_DEADLOCK FALSE` is used everywhere: once the counters reach their bounds, or main
has returned, or the admin has used every id or event, nothing more need happen.

### Assumptions about timing

* `SingboxPool`: sampling passes are seconds apart and `supervise` gets from its start to a
  process in between (guard of `PassNodes`); a pass that comes sooner would restart an
  instance that is just starting.
* `QuotaWindows`: `Reconcile` and requests of the admin take turns except in the scenario
  with `"overlap"`; a pass is one step.
* `Sessions`: without `"overlap"`, a logout or revocation does not fall between the read of
  the row and the filling of the map by a lookup of the same session.  The map may honour
  a session a second longer than the database, which counts whole seconds.
* `TwoFactor`: without `"overlap"`, requests that check or change the second factor take
  turns; the password checks before and the guard overlap freely.  A clock that is set back is
  not modelled.
* `SubListener`: without `"overlap"`, requests (and the start of the panel) take turns; the
  goroutines that bind ports do not.  `TakesEffect` asks that no form puts the subscription on
  port 80 (`ChallengePort`), which the code accepts and where it races the challenge server.
  `readSubSettings` is one step, and `Shutdown` returns at once.
* `WaitGone` and `StopReturn` stand for "the process has ended, or was killed at the
  deadline and has then ended".

### Fairness

* `TrafficAccounting`: the steps of a pass are weakly fair, as the code between two of them
  only computes or waits for a transaction; `SampleServices` is strongly fair: the ticker
  never stops, and gost answers again and again (without it nothing can be sampled).
* `GostSupervisor`: each goroutine and each caller is weakly fair; `SupStart` is strongly
  fair, which says that `cmd.Start` does not fail for ever; a process that was sent a signal
  dies.  Nothing obliges gost to exit, the admin to restart or the client to disconnect.
* `SingboxPool`: each goroutine, each caller, each process and the rest of main is weakly fair.  `Halt` is
  strongly fair because the guard `InWindow` of the scenarios without `"window"` opens and
  closes as `supervise` goes round; `PassNodes` because passes wait for handlers and for
  `supervise`.  Exits, failed starts, quotas and kills are bounded events, so `Settles` speaks
  of what follows the last of them.
* `QuotaWindows`: `Reconcile` and the sampler run on tickers, and a call
  that fails is one of the bounded events; time passes until the last tick.  `Reopens` and `Closes` speak of
  what follows the last event and the last tick.
* `Sessions`, `TwoFactor`, `Alerts` and `SubListener` have safety properties only: what must
  happen is stated of the states in which all goroutines have come to rest.
* `NodeSync` has safety properties only: a handler whose calls fail gives up, and nothing
  retries it but a start of the panel.

### Mutants

Operators marked `Mutant` stand beside the one they would replace (for example `PrevZero`:
the persisted baseline is not read after a start).  Each property of a passing run is
violated by at least one of them; they are used in no specification.

## 4. Proofs

The theorems hold for every value of the constants and any length of behaviour; the assumptions
are the named ones of the modules: scenarios are scenarios, `Nil` is not one of the things it
stands beside, a day is a number of hours and a month a number of days, the two kinds of nodes
are disjoint, there is an object; nodes and requests in progress are finitely many, there is a
choice of thresholds, of cooldowns and of ports, accepted forms carry accepted values, an
address is not the name of the account, the ladder of waits has a longest one, and a code may be
at most two time steps early (`twofa.go` looks that far for a clock set back).

`TrafficAccountingProofs`:

* `TypeCorrect`: `Spec => []TypeOK`, for every scenario.  The invariant is `TypeInv`, which
  adds to `TypeOK` that whoever works on an object holds an existing one (`RefsOK`): without
  it `obj[n][smp.held[n]]` has no value.
* `GostCounts`: `Spec => []GostCountedOnce`.  On gost nodes neither points nor totals exceed
  the bytes carried; exits, panel restarts, edits and deletions overlap the pass freely, any
  call of the store may fail, and there may be reality nodes beside them.  Resets and a gost that outlives the
  panel are left out by the property itself (the runs above show why).

The argument.  `bucket <= carried` is not inductive: the next pass adds the difference of
what it has read and the value in `lastCounters`.  `GostInv` strengthens it.  `CountedInv`:
for the engine's present life, what has been counted plus what the counter still shows
beyond the baseline is at most what was carried.  `ReadInv` carries the same through the
window in which a pass has read the counters but has not accounted for a node (the
service may exit, and its counter restart, in between): `Earlier` says that what was read is
an earlier value of the same life, or of a life that has ended, `Position` is the count up
to the value read.  `TotalInv` bounds the total of every object a pass or a handler can
still save, the cached one, the held one, the one an edit is about to write, and the
persisted one, by the count.  Edits may drop a baseline (they do): for gost it matters only
after a panel restart, which under `Safe` restarts gost as well.  The invariant of the
specification is `IInv == TypeInv /\ (Safe => KInv)`: `Safe` is a condition on `sc`, which no
step changes (`ScenarioStep`).

* `CacheMatchesStoreHolds`: `Spec => []CacheMatchesStore`; `TotalOnlyGrowsHolds`: `Spec => TotalOnlyGrows`, an
  action property.  Both say of themselves that handlers and passes take turns (`Serial`); any
  call of the store may fail.
* `SurvivorCountedOnceHolds`: `Spec => []SurvivorCountedOnce`, with passes and deletions overlapping,
  calls of the store that fail, and a gost that goes on while the panel starts again at any point of a pass.
* `RealityCountedOnceHolds`: `Spec => []RealityCountedOnce`, under the conditions of the property.

The argument for the first two is one invariant (`SerialInv`).  `Caching`: the cached object of a
node equals its row unless the store has refused something since (`torn`) or a handler stands
between two writes of that very node (`Apart`), and the pass holds the cached objects, whatever the row.
`HandlerOK` says what handlers have in hand (`UpdateOK`, `ResetOK`): an update has the total of the object
it read, and can go back; a reset works on the cached object.  So a save that succeeds brings row and
object together whether they were apart or not, and only a reset, a deletion, or a save after a
refusal lowers a total.  Only refusals set them apart (`NoneTorn`), which is what the sing-box
argument needs.

For a surviving gost, `lastCounters` is lost and the row's baseline takes its place, between
`AddTraffic` and `SaveNode` as well.  `CopyOK` therefore asks of every copy of a node that can still
be saved, the row and each object, that its total is at most what was carried before the
counter value from which it would go on, whether that is its own baseline or `lastCounters`; and
that a reading in flight is either of the present life of the service or of one that has
ended.  `PendingOK` asks the same of the total about to be saved.  `SurvivorLasts` keeps all this through
every step that records nothing, a refused call among them, and only `Account` and `Save` remain.

For a sing-box process `Base(n, p, c)` is the most that may have been counted when counting goes
on from counter `c` of process `p`: a pid is never used again, so it only grows (`BaseGrows`).  Points
and `total + mark` stay below the `Base` of the row between passes (`RestingOK`), with the next
increment below that of the reading during a pass (`CountingOK`, `SavingOK`), and in a reset below that
of the counter just read (`ResettingOK`).  It uses `SerialInv` and `NoneTorn`: the object the pass holds is the row.

`NodeSyncProofs`:

* `TypeCorrect`: `Spec => []TypeOK`; `SnapsOK` adds that whoever is about to write gost.yml
  has a configuration to write.
* `HealedHolds`: `Spec => []Healed`.  A start of the panel puts every node in sync that it met no
  error with, and no failing, overlapping handler of another node, no exit of gost and no other
  writer of gost.yml takes it out of sync until a handler touches the node itself; an orphan may
  stay where the row wants no process.

The argument.  `Healed` speaks of the engines only, but gost starts from gost.yml, and
gost.yml is written from lists that were read earlier.  `FreshInv` therefore asks the same
agreement with the row of every place a later step copies from: the engines, the file,
the list in the hands of any handler about to write, and the list of the other writer.
A handler makes its node not fresh in the same step in which it changes the row, and a
node with a handler at work is never fresh (`BusyNotFresh`), so lists read before stay
right for the nodes that remain fresh.  A start that fails makes nothing fresh; one that succeeds gives
each node it applied a process of its own, whatever an earlier panel had left (`Repaired`).

* `AppliedServedHolds`, `FileSettledHolds`: `Spec => []AppliedServed` and `Spec => []FileSettled`, each under the
  conditions it states.

The argument.  `ApplyNode` is a row of calls, so the invariants say at each step of a handler what
the calls behind it have achieved.  `ModeInv` (no node changes its engine): a node is known only to
its own engine (`PlaceOK`), and the handler works on the row that is there (`WorkOK`).  `ServedInv` (nor
does gost exit): of a handler that met no error so far, gost or the pool has taken over the parts
of the row whose calls are done (`ServedOK`); while gost is down only nodes nobody has touched are
in order, and for those gost.yml is right (`Filed`).  `FileInv` (one handler at a time, no node added
or removed): only one list of configurations is in anybody's hands (`OneWriter`), and gost.yml, or
the list about to become gost.yml, agrees with the rows (`FileOK`).  The handlers of the other nodes are
covered by three lemmas (`OthersPlaced`, `OthersServed`, `OthersFiled`).

`GostProofs`, of the process (`GostSupervisor`):

* `TypeCorrect`: `Spec => []TypeOK`.  The invariant adds `MainCall`: `main` stops gost once and
  never restarts it, so it is not among the requests that may be cancelled.
* `OneGostHolds`, `StoppableHolds`: `Spec => []OneGost` and `Spec => []Stoppable`.  Both
  properties are conditional on a scenario without restart requests; with them two processes
  may live (`gost_restart_dup`).  `LeftBehind` is part of `Stoppable`.

The argument.  `Alone`: without requests nobody but `main` calls the manager, `main` starts one
goroutine, and so the step that goroutine is at says where its process is (`ProcessAt`): no
process before `start` and after `clear`, at `publish` one that `m.cmd` does not name yet, at
`wait` the one it names, at `clear` a dead one.  `Stop` only signals the
process: it changes neither `m.cmd` nor the step of the goroutine.  `Stopped` adds the time after:
`main` sets the flag before it looks, nobody clears it, and the process it finds is by
`ProcessAt` the only one; so the goroutine is past `start`, every process is signalled,
and the goroutine can only get to `done`.

`GostProofs`, of the quota (`QuotaWindows`), for any scenario, quotas, numbers of bytes and events, and any
lengths of hours, days and months:

* `QuotaTypeCorrect`: `QuotaSpec => []QuotaTypeOK`.  `QuotaTypeInv` adds what a `Reconcile` and an edit hold, and
  that every quota anywhere is one the node was saved with.
* `NoOverchargeHolds`: `QuotaSpec => []NoOvercharge`, under the conditions the property states for gost nodes.

The argument has three layers.  The sums first: `RangeTraffic` adds up a table by a recursive function on
the integers.  That there is such a function is a lemma (`SumFromAt`, from finite pieces that agree),
and so are what a proof needs of it: it is a natural number, monotone in the table, additive
in the present hour, unchanged by hours to come (`SumType`, `SinceLess`, `SinceChange`, `SinceTick`).  Each is
an induction over the hours, done with the least hour that fails (`Upwards`).

Then the bytes (`BytesInv`).  `Due(carried, late, d, h, now)` is `Chargeable` with the sum written out: what was
carried since hour `h` began, and what had not been sampled then.  Points since `h` with what is
unsampled now stay below it (`SampledAt`), and so do the totals (`TotalsAt`); a later hour has less
(`LaterAt`): when an hour begins, what is unsampled is the new hour's whole `Due`, and `SampledAt` says
that it is part of every earlier one.  No step lets a `Due` shrink (`Grows`).  This alone bounds the
sum that pauses a reality node (`PausedInv`).

Last gost's own count (`GostQuotaInv`).  A count is carried from place to place: to quota.json and
back after a crash, kept by an update, replaced by the panel's sum.  `CountsOK` bounds every one of
them by the `Due` of the window it belongs to.  The delicate step is `RecReset`, which writes a sum
into whatever quota gost has by then: gost may have died and started again since the listing, with
the window of gost.yml.  `WindowsOK` therefore orders the windows: that of gost.yml is not after that of
the quota in gost, and that not after the one the sum was made for, so the sum, bounded for a
later window, is bounded for the one it lands in (`DueLater`).  `ConfOK` and `TurnsOK` say which quota
gost.yml has during an edit, and that the row a `Reconcile` works on is the one that is there.

`SessionsProofs`, for sets of scenarios in which no removal overlaps a lookup of the same
session (no scenario has `overlap`), as in the run `sessions`:

* `OneTableHolds`: `Spec => OneTable`, the refinement, whatever cannot be written or deleted.  Init maps
  to Init of `SessionTable`, and every step to an `Open`, an `End`, a `Promise` or a stutter (`Simulation`).  An
  answer is a `Promise` for the sessions whose rows are gone; where a deletion failed and the code answered ok
  all the same, the abstract table promises nothing.
* `RevokedStayOutHolds`: `Spec => []RevokedStayOut` for the scenarios in which besides no deletion fails, from
  the invariant and the simulation: then `kept` is empty (`KeptStep`), and every answer holds.
* `TypeCorrect`: `Spec => []TypeOK`.

The argument.  Nearly every step takes sessions out of the tables (`Part`) and so can only end
some.  Two do not.  `CreateSave` hands out a token that was never handed out before (`SaveOK`,
`PairOK`: tokens being saved differ and are not opened).  `GetFill` copies a row that was read
earlier into the map, and must not revive anything: `FillOK` says that until the row expires it
is still in the database, where the session is valid already.  It holds because
whatever removes a row from the database is either an expiry or a request that no lookup of
that session overlaps (`PairOK`); a deletion that fails only leaves more rows there.  The answers of
logout and revocation are true of the rows that are gone because what their first step has taken from
the map stays out of it until the second (`RemoveOK`).  Drop the first condition and `GetFill` revives a revoked session: that is the run `sessions_revoke`.

* `EndsForAReasonHolds`: `Spec => EndsForAReason`, an action property.  Each kind of step is shown
  to end only what `Reason` allows it to.  `GetFill` is the step to look at: it replaces the copy
  in the map, and must not shorten it; the invariant says that a copy in the map is of the client
  that opened the session and that a lookup holding a row finds no later copy there.

`AlertsProofs`:

* `TypeCorrect`, `LastWordHolds`: for any nodes, thresholds, cooldowns and scenarios.
* `WarnedOnceHolds`, `WarnedEachWindowHolds`: the same, where gost's window is the panel's (`Current`, the
  condition of the two properties).

The argument.  `quotaLevel` and `windowKey` are all the manager remembers, so the invariant says
what they stand for: the level of a node is a threshold announced in the remembered window
(`LevelOK`), nothing higher was announced in it and nothing of a later one (`WarnedOK`); and since
the remembered window, the one in the hands of the pass and the present one only follow each
other (`WindowsOK`), a level is reset only when the window is really new.  `LookedOK` says the same
of the nodes the pass has behind it, and gives `WarnedEachWindow` when the pass has no node left.
That `Rises` finds a highest threshold at all needs the greatest element of a bounded set (lemma
`Greatest`, by well-foundedness).

For `LastWord`, `FlipOK` follows the last change of each node from its discovery to the message in the
hands of the pass (`Telling`) and on to the word or its excuse.  The excuse is fixed when the change is
found, before `Send` is asked (`off`, `repeats`), and when the post is lost (`lost`); so it has to be
shown that `Send` drops nothing else.  `tried` knows every post that was begun, and `TriedOK` ties the
cooldown table to it: the table has no entry that no post stands behind.  A message that is
neither switched off nor repeated is then posted (`TriedFacts`, `ObserveRunningInv`), and what is posted
and not lost is the word (`PostInv`).

`TwoFactorProofs`:

* `TypeCorrect`: `Spec => []TypeOK`, with any requests overlapping.  `TypeInv` adds what a request
  carries at each step (`RequestOK`) and that an entry of the guard waits only for what it counted.
* `ThrottledHolds`: `Spec => []Throttled`, with any requests overlapping, any number of them and any
  ladder of waits.
* `CodeOnceHolds`, `OwnBindingHolds`: for sets of scenarios in which requests that check or change
  the second factor take turns (no scenario has `overlap`), as in the run `login`; failed writes,
  restarts, expiry and everything else at any point.

The argument for throttling goes key by key (`KeyInv`).  A wait of the first tier begins when
the count of an entry reaches `FreeAttempts`; a request passes the check before the password is
compared, so those in flight (`InFlight`) may fail afterwards.  `Remembered` says that failures
that are recent are still counted, since the clean-up and the end of a wait only forget what is
old enough; `Counted`, that such a failure is among those the entry counts as long as nothing is
blocked, and that otherwise the block lasts until the failure is old, and the failures since with the
requests in flight are fewer than the window allows; `Spaced` is the property itself.

The argument for the codes (`FactorInv`).  One request at a time is at a step that matters
(`Turns`), and `TurnOK` says what it found and has done: the code to be spent is newer than the last
step, or is in the list, and the list without it is that of now; the code accepted is spent.  A
code that has opened a session is `Spent`: a recovery code is in no list, a code of the
authenticator is not newer than the last step of its binding, or its binding can never be in
force again.  That last is where incomplete requests matter: while `torn = 0` the setup in
progress is not a binding that has been used.  `Whole` is the state in which nothing is left over
from another binding; it holds between requests while nothing was left incomplete (`WholeOK`), and
its half about recovery codes survives one incomplete request (`TornOnceOK`).

`SubListenerProofs`:

* `TypeCorrect`: `Spec => []TypeOK`, however requests overlap: the published servers exist and are of
  their kind, and the challenge server is there exactly when ACME is configured.
* `TakesEffectHolds`: `Spec => []TakesEffect`; the property itself asks that requests take turns and
  that the port of the challenge is not asked for.

The argument for the types is who may still touch a server.  A server about to be stopped was
taken out of its place before, so it is in no other request's hands to stop and nobody finds it
(`OldOK`, `ApartInv`); one about to be started was made by the request that holds it, and only the
challenge server, published before it starts, may have been stopped meanwhile (`NewOK`: then
it is `"closed"` and starting it ends it).  With turns there is a request `r` such that all
others are idle (`Alone`), and its step says where the listeners are (`Lone`): which server is the only
one of its kind, that the settings it has read are those of the database and the provider's, and
that what was published has begun and not failed.  A goroutine can fail to bind only when another
server of its kind listens, because the kinds have different ports (`PortKind`).

`SingboxPoolProofs`:

* `TypeCorrect`: `Spec => []TypeOK`, for every scenario, overlapping handlers and passes included.  `TypeInv`
  adds what a caller, a goroutine and the pass carry at each step.
* `OneSupervisorHolds`, `ReclaimedSerialHolds`, `NoOldConfHolds`, `StopAllCleanHolds`: the four safety
  properties of the run `pool`, each under the conditions it states (handlers and passes take
  turns, the sampler rests while main stops, no stop in the window of `supervise`, and except for the
  first no killed panel).

The argument.  A goroutine supervises until its channel is closed, and the pool remembers one
channel only.  `SupInv`: a goroutine that nobody has told to stop is the one whose channel the pool
holds (`LiveChannel`), and it is in a place where a stop finds it (`LivePlace`); so `Halt` closes the
channel of every live one, and since a new goroutine is started only behind a `Halt` (`NoneLive`, `ToldInv`)
there is one at most (`OneLive`).  `NodeInv` follows the processes: each belongs to one goroutine (`Owned`,
`OneOwner`); that of a goroutine told to stop is awaited by the caller that told it (`Awaited`), and
a live one's serves the configuration in the file unless it is about to be stopped (`Current`).  Hence
no process is left when a removal or `StopAll` has waited (`NoneLeft`), and none comes back until main has
returned, because the only ones that start processes are the sampler, which rests, and goroutines
that have all been told to stop.  A killed panel leaves a
process without an owner: that is the condition, and `reapOrphan` ends it later (`Settles`, liveness).

Only model-checked: all liveness (`AllCounted`, `RunsAgain`, `RestartRuns`, `Settles`, `Reopens`,
`Closes`).  Every invariant and every action property of a passing run is a theorem.

Out of the prover's reach: liveness under fairness, and `ENABLED`.  No module declares a
recursive operator.

## 5. Not modelled, and why

* Links, subscriptions, share texts, landing scripts, protocol tables, the command line,
  system information, the web user interface, the install scripts: parsing, formatting and
  reading without state of their own.
* YAML and JSON of the gost API, keys and certificates of reality nodes, log rotation:
  data the properties do not tell apart; a configuration is a version.
* Form validation: a handler picks a valid configuration; an invalid one changes nothing
  (in `SubListener` it is modelled, since the fields before it have been written).
* `ApplyConfig` of the gost manager: it has no caller.
* Two reality nodes whose API ports are equal (a hash modulo 800), and two handlers of one
  node at the same time: hazards in `PROJECT.json`.
* `loginGuard`: the eviction of entries beyond 8192, a table no instance reaches.
* The value of the password hash, cookies, headers, the texts of messages, and the messages
  that have no key and so pass the cooldown.
* `notify`: the settings of the config file are overwritten by the defaults of `Reload`, so the
  model starts with those; `Reload` writes the thresholds without a lock, and a pass that
  reads them meanwhile is taken to read the old or the new ones.
* The periodic renewal of certificates (`autoIssue`): it calls the ACME library and changes
  nothing modelled.
* Opening, backup and restore of the database file: single file operations of a library,
  and a restore is followed by a start of the panel, which is modelled.

## 6. Plan

Written in this order, the behaviour that moves bytes and processes first.

| step | what | state |
|---|---|---|
| 1 | `TrafficAccounting`, types and counting of gost nodes proved | done |
| 2 | `GostSupervisor` | done |
| 3 | `NodeSync`, types and `Healed` proved | done |
| 4 | `SingboxPool` | done |
| 5 | `QuotaWindows` | done |
| 6 | `SessionTable` and `Sessions`, which implements it | done |
| 7 | `LoginGuard`, `TwoFactor` | done |
| 8 | `Alerts` with the cooldown of `notify` | done |
| 9 | `SubListener` with the certificate provider | done |
| 10 | proofs: types, `OneGost` and `Stoppable` of `GostSupervisor`; the step simulation of `SessionTable` by `Sessions` | done |
| 11 | proofs: `EndsForAReason`; `Alerts`; `LoginGuard` and `TwoFactor` | done |
| 12 | proofs: `SubListener`; `SingboxPool`; `AppliedServed` and `FileSettled`; the remaining safety properties of `TrafficAccounting` | done |
| 13 | proofs: types and `NoOvercharge` of `QuotaWindows` | done |
| 14 | two handlers of one node in `NodeSync`; two nodes on one API port in `SingboxPool`; the proofs of what they change | not done: both take a second dimension (handlers per node, nodes per pool) through every invariant of their module |
