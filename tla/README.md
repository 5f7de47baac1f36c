# Verification of the BYOD host binary

The repository holds one Go program, a binary that runs on a machine with
phones on its USB ports, lends these phones to a device cloud, and serves
WebDriver sessions, app operations and validation requests on them. This
directory holds TLA+ models of its concurrent parts, the TLC runs that check
them on small instances, and machine-checked proofs of the results that matter
most. Source lines below are those of `src/`.

## 1. The system

| Component | State | Operations | Modelled by |
|---|---|---|---|
| Device watcher (`watcher/watcher.go`) | `OldDevices`, `TunnelID`, one goroutine per post | `watchDevices` (scan every 3 s), `setAppiumPort`, `sync`, `keepAlive` (every 60 s), `SyncBinaryHost` | `DeviceWatcher`, `PortLease` |
| Life cycle (`main.go`, `Watch`) | `stopChan`, `mainExit`, `common.WG`, `srv` | start, signal, shutdown; crash and restart | `HostLifecycle` |
| Request authentication (`services/auth.go`) | `AuthenticatedUsers`, `AuthenticatedJwtUsers` | Basic and JWT authentication, the cron that empties the second map | `AuthCache` |
| WebDriver sessions (`services/session.go`, `common.KillProcessOnPort`) | `AppiumServers`, `ReverseProxyMap`, Appium processes | `SessionHandler`, `startAppium`, `stopAppium` | `AppiumSessions` |
| Tunnel client (`remote/remote.go`) | `tunnelInfo`, `tunnelProcess`, the tunnel process | `LaunchTunnel`, `GetTunnelId`, `KillTunnel` | `Tunnel` |
| Key-value store (`storage/store.go`) | `byod.db` | `Open`, `Put`, `Get` | its `Appium_Port_` entries, wherever they are used |
| HTTP server (`services/service.go`) | `srv` | start, `KillServer`, `middleware` | in part, inside `HostLifecycle`, `SessionHost` and `AuthCache` |
| HTTP client helpers (`services/requests.go`) | none | POST and GET with a 10 s timeout | by their outcomes |
| Provisioning (`services/prepare.go`, `Download`, `Unzip`, `syncDiskImages`) | files below `~/.lambdatest` | `ensureFileExists`, `appiumSetup`, `syncDiskImages` | `Provision` |
| App operations (`services/appops.go`) | files below `applications/`, the apps on the devices | install, uninstall, launch, kill, list | `AppOperations` |
| Validation proxy (`services/validation.go`) | none of its own | looks the device and the app's process up, forwards | in part, inside `AppOperations` |
| Instrumentation (`instrument/`), tunnel test server (`remote/server`) | | no code calls the first, the second is commented out | no |

How they interact:

* **main** authenticates, starts the tunnel and the shutdown listener, prepares
  tools, tells the backend that the host has no devices (`SyncBinaryHost`), then
  starts the watcher, the cron and the HTTP server and waits for the listener.
* **Watch** starts `launchTunnel` and `watchDevices` as goroutines and becomes
  `keepAlive`. The two loops share `OldDevices` and `TunnelID` without a lock.
* **watchDevices** compares each scan with the last one, leases an Appium port to
  every new device in the store and starts one goroutine per difference that
  posts it. **keepAlive** posts the whole registry. **SyncBinaryHost** posts an
  empty one at start and stop. Nothing orders these posts.
* What main prepares, `adb` and `go-ios` among it, is what the handlers of `/app` and
  `/validate` and the watcher's `syncDiskImages` run later. A file's existence is all
  that any of them asks about.
* A **request** passes the middleware's authentication, then, for a session,
  starts an Appium server on the port the watcher leased to the device and goes
  through a reverse proxy that learns the session's id from the answer.
  `DELETE` starts `stopAppium` in a goroutine after the answer.
* **shutdownListener** closes `stopChan`, which the two loops and the cron poll,
  shuts the server down, waits for `common.WG`, posts the empty list, kills the
  tunnel and lets main return.

What is hard here is what no test could easily reach: posts applied out of
order, lost, or applied after their sender gave up; a listing that fails and
makes every device leave and return; a signal at any moment of the start;
shutdown against goroutines nobody counts; caches read, emptied and filled by
handlers at once; two POSTs for one device; a stop that runs late; a global struct
that four goroutines empty and fill; a download or an extraction cut short at any
point, whose remains the next start finds; two downloads to one file; processes
(the tunnel, Appium) that outlive the binary. There are no
tests in the repository. `PROJECT.json` lists these hazards line by line, with the
properties that cover them or the reason why none does yet.

## 2. Modules

`DeviceWatcher` is the base, `HostLifecycle` EXTENDS it. `PortLease` is an
abstract specification that `DeviceWatcher` implements through
`INSTANCE PortLease WITH Holder <- Device, lease <- ports`; `TunnelIdCache` is one that
`Tunnel` implements. `AppOperations` EXTENDS
`Provision`: its handlers run the tools that one fetches, and the binary crashes under
both at once. `AuthCache`, `AppiumSessions` and `Tunnel` stand alone; the second takes
ports the way `PortLease` grants them (`LeasePort`). `SessionHost` composes
`HostLifecycle` with the handlers of `AppiumSessions`, which it takes with `INSTANCE`, and
states that seen from these handlers the composition implements `AppiumSessions`. `MC*` modules hold the sets TLC works with, `*Proofs` modules
the theorems.

Definitions whose comment says *Mutant of X* are deliberately wrong variants of
`X`, each a plausible slip in the code X models (a dropped `Done`, an inverted
check, a missing wait). No specification uses them. They are there to show that
every checked property is able to fail: with `X` replaced by its mutant, TLC finds
the property violated.

### DeviceWatcher

| Code | Model |
|---|---|
| what is plugged in, and how `ios.ListDevices` / adb sees it | `hw`, `HardwareChange` |
| `OldDevices`, `newDevices` | `oldDevices`, `newDevices`: a status per device, `"absent"` = no key |
| `Appium_Port_<udid>` in `byod.db`, `BaseAppiumPort` | `ports` (0 = no entry), `baseAppiumPort` |
| `remote.tunnelInfo` usable / `dw.TunnelID` not empty | `tunnelInfo`, `tunnelID` |
| goroutines of `go dw.sync(false, …)` | `flight[<<d, s>>]`, how many are posting status `s` of `d` |
| the slice `keepAlive` posts; one its client gave up on | `kaList`; `late` |
| the backend's record of this host | `view` |
| `watchDevices`: check, iOS scan, Android scan, comparison, publish | `WatchStop`/`WatchBegin`, `ScanIos`, `ScanAndroid`, `Compare`, `Publish` |
| `keepAlive`: check, snapshot, post | `KeepAliveCheck`, `KeepAliveSnapshot`, `KeepAlivePost`/`…NoTunnel`/`…PostFails` |

Atomicity. One operating system's listing is a step: its entries do not depend
on each other and only the goroutine itself sees the map. The comparison is one
step per device, because each starts a goroutine the environment can run. The
snapshot `keepAlive` takes is a step because a map is never written after it was
published; it may fall between any two steps of a scan. `GetTunnelId` is a step
whose outcome leaves the cached id usable or not. In an iOS scan `Stored` says
what the code does: the map entry is written before `syncDiskImages` runs, and
`"ready"` is then assigned to a copy.

The backend is not in this repository. What the models take from the code is:
a post with `is_sync_host` replaces the host's list, any other updates the
devices it names (`main.go:33,119` rely on exactly that).

### HostLifecycle

Adds to the watcher: main's progress (`mainPc`), the listener's (`listenerPc`), the
wait group's counter, the goroutines of `Watch` and `launchTunnel`, the HTTP
server, a pending signal, and the process itself, which may crash at any step
(`GetOutboundIP` goes on with a nil connection when the host is off line) and be
started again with fresh memory and, since `storage.init` removes `byod.db`, a
fresh store. What is on its way to the backend survives a crash: sync goroutines
either had sent their request or die with it (`SyncDies`), a list being posted
may become a late one. `cleared` is history: how shutdown's list was applied.

### AuthCache

A request is a chain of steps (look up, check expiry, ask the account service,
store, reply), each operation on a `sync.Map` being one. `creds` carries the
address of the `credentials` struct the request allocated, a fresh number each time, since
that is the key `BasicAuthentication` uses. `Range` visits what was there when it
began and may or may not see what is stored meanwhile (`sweepTodo` is what it
must still visit). No caller looks at the status of the account service's answer:
the body of a refusal decodes to organization 0 and is compared like any other, and
so was the answer the host itself got at its start (`main.go:65`). `hostOrg` is
therefore any organization or 0, and on a host whose own key was refused `SameOrg`
holds for every refusal. `answered` is history: what the service has said of a token.

### AppiumSessions

Requests run `SessionHandler` in one of the handler goroutines; a `DELETE`'s
handler goes on as its `stopAppium`, for the device whose udid is in the body: any
device or none, since the code does not compare it with the session's. A `DELETE` that
names another device ends that one's server and leaves the session's own running.
Appium processes start, take their port
late, exit when it is taken, and die when killed. `conns` are the connections the
proxies keep open for reuse, which is how this process appears in
`lsof -i:<port>`. `sh -c` may or may not fork (`ShellMayFork`), so that
`Process.Kill` reaches Appium or only its shell. A session is named after the
request that asked for it, `owner` remembers for which device, `forDevice` for which
device a server was launched. The binary may end in any state (`Ends`, or by its own
`kill -9`) and be started again: maps, handlers and, since `storage.init` removes
`byod.db`, the leases are gone, while Appium servers live on (`orphans`) on ports that
are then leased to anyone. Bodies that do
not decode are refused without any effect and are left out; that includes the
bodiless `DELETE` of most WebDriver clients. So is a request for an open session
itself that is not a `DELETE`: its body has been read too, and the proxy cannot
forward it. A command on a path below a session's never matches `regexSessionID`
and is refused (`RouteCommand`).
Taken for granted: `lsof` is installed; a connection to a process that has ended
is closed by the time `lsof` looks; nothing serves port 80 of the host, which is where
a proxy without a port would lead.

### SessionHost

The watcher leases ports in `byod.db` and the session handlers read them there; main
starts the HTTP server they run under, and whatever ends the process ends them. The
module EXTENDS `HostLifecycle`, adds the variables of `AppiumSessions` and takes its
handlers, its Appium processes and its client from an instance over the watcher's
`ports`. What `AppiumSessions` says of its surroundings is not used: its `LeasePort`,
`Ends` and `Restart` are here the steps of `HostLifecycle`.

| AppiumSessions | SessionHost |
|---|---|
| `Port` | `FirstPort..MaxPort` |
| `binary`: up, ended, killed | `Binary`: `proc`, and whether its own `kill -9` ended it |
| `restarts` | `Restarts`: `crashes`, less the one not yet followed by a restart |
| `Handle` of a handler | `HandlerStep`, while the process is up |
| `Client` | `RequestArrives`, while the server is serving |
| `StopKill9` of the own process | `KillsItself`: at the same time `Crash` of `HostLifecycle` |
| `AppiumBinds`, `AppiumExits`, `ConnectionCloses` | `AppiumStep`, whatever the binary does |
| `LeasePort`, `Ends`, `Restart` | `LifeStep`; a fresh process forgets maps and handlers (`ForgetSessions`) |

Shutdown does not wait for a request's `stopAppium`, so handlers go on until main returns.
`SessionsSpec` (the refinement) says that the watcher leases free ports, one at a time
and only to devices without one, and that ports are lost only together with the handlers and
the maps. Were `byod.db` kept over a restart, it would not hold: the counter starts again at
4724, and a second device would be given the port of the first.

### Tunnel

| Code | Model |
|---|---|
| the tunnel's processes, one per start of the binary | `tunnel[n]`, `n` being also the id the backend knows it by |
| `remote.tunnelProcess`, `remote.tunnelInfo`, `dw.TunnelID` | `tunnelProcess`, `tunnelInfo`, `tunnelID` |
| the body, the returned id and the posted id of a goroutine | `answer[c]`, `got[c]`, `posted[c]` |
| main, `watchDevices`, `keepAlive`, `shutdownListener` | the four values of `Caller` |
| `GetTunnelId`: line 46, 47, 51-62, 64, 65-69, 70-74 | `Check`, `Cached`, `Fetch`/`FetchFails`, `EmptyInfo`, `Decode`, `Recheck` |

This is `GetTunnelId` in its single reads and writes of the unprotected global, with
every goroutine that calls it. `WatchAssigns` ends the write of `dw.TunnelID`; while it
is pending, `keepAlive` may read either string, or, when they differ in length, one
that pairs the pointer of one with the length of the other (`Torn`). The tunnel is
started in its own process group four seconds before anyone listens for signals, so
it survives a crash and a signal in that time; a later tunnel then finds port 8000
taken and exits, and the info API answers for the old one. `faults` bounds failed
calls, unusable answers (`FAILED`, id 0, malformed, mistyped) and dying tunnels. A
syntax error is found before `json.Unmarshal` assigns a field; a field of the wrong type
is reported after the others are filled, so that a call may fail and yet leave a
usable id in `tunnelInfo` (`MistypedBody`).

`TunnelIdCache` is `GetTunnelId` as its callers see it, one step per call: as long as no
id is cached a call may fail, find any id, and leave one cached or not; once one is, every
call returns it until the binary is started again. `Tunnel` implements it (`CacheSpec`):
tunnelInfo holds an id for good (`Settled`) when it is usable and no call is left that
has missed it and would empty it; a call takes effect where it goes on to format the id
(`Check`, `Recheck`) or gives up. This is what lets `DeviceWatcher` and
`HostLifecycle` have `GetTunnelId(ok)` as one step with a Boolean `tunnelInfo`, which
is `cache # None`.

### Provision

| Code | Model |
|---|---|
| the files under `assets/` and `diskimages/`, and their archives | `file[<<x, "">>]`, `file[<<x, ".zip">>]`: absent, partial, another document, whole |
| what npm and appium have installed | `appium` |
| main in `prepare`, `watchDevices` in `syncDiskImages` | `job["main"]`, `job["watch"]` |
| `Download`: `http.Get` and `os.Create`; `io.Copy` | `Got`/`GetFails`; `Copied`/`CopyFails` |
| `Unzip`: reading the archive, extracting, `os.Remove` | `Unzip`, `Extracted`/`ExtractFails` |

Errors of `Download` and `Unzip` are dropped by their callers, so every failure goes on
with the next step. `http.Get` reports no error for a status such as 404: `Got` may get
another document than the one asked for. The archiver reads the directory at the end of
an archive before it writes anything, so only a whole archive has files extracted;
an extraction may stop half way. A crash leaves what was written. `broken`, `failed` and
`cut` are history. What `ImageAuto` reports is not followed: `watchDevices` assigns
`"ready"` to a copy (`Stored` in `DeviceWatcher`), and whether an image is mounted on a
phone is something the code never asks about again once the version's directory exists.

### AppOperations

| Code | Model |
|---|---|
| the files under `applications/`, named after the last part of a URL | `apps[f]`, chunk by chunk |
| apps and processes on the devices, their routes | `installed`, `pid`, `online` |
| a request in its handler | `task[h]`: where it is, the request, what it has found out so far, the reply |
| `DownloadAppIfRequired` | `GetApp`/`GetAppFails`, then `CopyChunk`/`CopyAppFails` per chunk |
| `installApp`, `uninstallApp`, `launchApp`, `killApp`, `ListApps` | `Install`, `Uninstall`, `Launch`, `Kill`, `ListApps`; `CommandFailed` for each |
| `FindDeviceIP`, `GetForegroundApp`, the reverse proxy | `FindDeviceIP`, `GetForegroundApp`, `Forward` |

`os.Create` empties a file under whoever is using it, and two `io.Copy` write at their
own offsets: an app's file is a sequence of chunks, each of which remembers the app it
came from, and `Held` says which app, if any, an installer finds in it. A command fails
when `prepare` did not get its tool whole, or by a fault. `crossed` (which other apps were
written to the file while a handler used it), `hurt` (a fault hit the request) and
`stirred` (which apps began or ended a process while it was validated) are
history. An app under test is taken to listen on the port that has its process's
number, which is what `getDeviceNetworkConfig` relies on. A device gives a new process
any number that is free, so that the one a validation looked up may by then be another
app's; with an empty port the proxy dials port 80 of the device, where nothing or some
other server may answer (`Proxied`). A number above 65535, which is no port, is left
out: such a request only fails.

## 3. Runs

| Run | Instance | What it shows |
|---|---|---|
| `watcher_safety` | one iOS and one Android device in all initial states, 1 hardware change, 1 failed call | `AnnouncedMatchesRegistry`, `NoRepeatedAnnouncement`, `KnownDevicesHavePorts`, `PortsDistinct`, `IosNeverReady` |
| `watcher_liveness` | one Android device, 1 change, 1 failed call, failing writes to the store | `BackendConverges`, `StopEndsLoops`, `LeaseSpec` (the refinement of `PortLease`) |
| `host_lifecycle` | one device, plugged in, 1 failed call, 1 crash, a signal at any moment | `WaitGroupBalanced`, `FinalSyncAfterLoops`, `CleanShutdownStays`, `PresentDevicesHavePorts`, `ShutdownCompletes` (the go-ios child ends), `RestartConverges` |
| `auth_safety` | 2 handlers, 3 requests, 1 Basic credential, 2 JWTs, 2 rounds, 1 change; a host with an organization and one without | `NoEntryOutlivesSweep`, `ValidHasHostsOrg` |
| `sessions_safety` | 2 devices, 2 handlers, 3 requests, 2 servers, 1 restart | `RoutesToItsDevice`, `HeldByItsDevicesServer`, `StopReachesNamedDevice`, `StopEndsServer` |
| `session_host` | 1 device, plugged in, 1 handler, 2 requests, 1 server, 1 crash, a signal at any moment | `SessionsSpec` (the refinement of `AppiumSessions`), `AnnouncedGetServerWithPort` |
| `tunnel` | 2 lives of the binary, 4 callers, 1 fault, a signal or crash at any moment | `GracefulStopEndsTunnel`, `IdsAreOwnOrOrphans`, `ZeroNeedsRace`, `WatcherLearnsId`, `CacheSpec` (the refinement of `TunnelIdCache`) |
| `app_operations` | 3 tools (one compressed), 1 iPhone, 1 Android device, 2 apps of one name and different length, one of them running, 2 process numbers, 2 handlers, 2 requests, 1 failure or crash | `StartRepairs`, `BrokenOnlyByExtraction`, `ImagesArrive`, `InstallsWhatWasAsked`, `InstallFailsForAReason`, `ValidationReachesApp` |

Four runs end in a violation, and show where the code does not do what one of its
comments says:

* `auth_basic`: the cache of Basic credentials never answers (`auth.go:16`, 70).
* `host_stragglers`: after a graceful shutdown the backend may list a device,
  because the posting goroutines are in no wait group (`main.go:119`, `watcher.go:155`).
* `host_stop_hangs`: a signal sent to the binary alone leads to a shutdown that waits
  forever for `go-ios tunnel start` (`main.go:98`, `watcher.go:183`).
* `sessions_kills_binary`: `stopAppium` may kill the binary (`session.go:142`,
  `common.go:182`).

Bounds and why they suffice. Devices do not interact in the watcher except
through the port counter and through the lists of `keepAlive`: two devices, one
of each operating system, show both, and the theorems cover any number. All
initial states of the hardware are tried, so that one change reaches every
ordered pair of statuses in the runs of the watcher; one failed call makes a whole listing vanish and come
back, loses a post, or makes a list late while newer ones are posted. At most one
late list exists at a time (`late = {}` in the guards). The runs of the whole binary keep
their device plugged in: what hardware does to the registry is the watcher's runs'
question, and a process that starts with a device on line goes through the same scans,
leases, posts and announcements. In `host_lifecycle` (`Faulty`) the failed call is one that
the start or the shutdown meets or that leaves a list behind. One crash reaches every
state a crash can leave; a second finds a fresh process. In
`auth_safety` three requests over two handlers are what it takes to store, find
and expire an entry while another handler is past its lookup; two rounds are the
least in which an entry could outlive one. In `sessions_safety` three requests
and two servers are two POSTs and a DELETE, on one device or two, and one restart
makes every server of the first run an orphan on a port that may go to the other
device. In `session_host` two requests and one server are a POST, before or after the
restart, and the `DELETE` or POST that meets what it left; lists that outlive a crash and a
go-ios child that ends by itself are left to `host_lifecycle` (`Calm`), and a status on
its way arrives or dies before anything else happens (`Prompt`): it touches only the backend's
record, which neither property looks at; that a second device, handler or fault shows nothing new is what its theorems say. In `tunnel` two lives are what it takes for one life's tunnel to meet the
next; one fault is one useless answer, one failed call or one dead tunnel, after which
the others race with their usual steps. In `app_operations` one fault reaches
every content a path can have, and what a later start does depends on these contents
only; that several faults in a row show nothing new is the theorems' part. Two handlers and
two requests are one race for one file; the apps differ in length so that the longer
one's remains could show behind the shorter. With one app running, a validation and the
launch of the other, the process that was looked up may end and its number be the other
app's before the request is forwarded. The theorems drop all of these bounds. Counters
without a bound in the code (requests, rounds, changes, launches) are bounded by
constants named `Max…`, whose comments say so.

Deadlock is checked in every run. `Stopped`, `Gone`, `Quiet` and `Over` are the states
in which the system may rest, and each says which; in `app_operations` the watcher's
rounds never end.

Fairness, used by `watcher_liveness`, `host_lifecycle`, `tunnel`, `app_operations` and
`host_stop_hangs`: a goroutine that can take a step takes one (the Go scheduler), the calls it makes return (the
HTTP clients of `requests.go` time out after 10 s; adb, usbmuxd and the local
info API are taken to answer or fail), a request that is not lost is applied in
the end, a crashed binary is started again. In `tunnel` a tunnel
that was started either serves or exits. In `app_operations` only main and the watcher's
loop are fair, and downloads, which have no timeout, are taken to end; that nothing is assumed of the handlers shows that no request is needed
for `ImagesArrive`. Nothing is assumed of the go-ios
child, except in `host_lifecycle`, where it ends as it does when Ctrl-C reaches the
whole process group; the run `host_stop_hangs` checks the same property without.
Faults and hardware changes are never forced, only bounded: after the last of
them the properties speak about what settles.

## 4. Proofs

`tlapm` checks every step of the eight proof modules. The theorems hold for any
sets of devices, handlers and credentials and for any value of the bounds, under
the named assumptions of the modules (`WatcherAssumption`, `LifecycleAssumption`,
`AuthAssumption`, `SessionsAssumption`, `HostAssumption`, `TunnelAssumption`,
`ProvisionAssumption`, `AppAssumption`): the two operating systems have no UDID in common, ports,
organizations and process numbers are positive, apps that run at first have different
numbers, the schemes have no credential in common, tools and iOS versions have
different names, adb and go-ios are among the tools, files have at least one chunk, the
marks for "nothing" are no app and no device, bounds are natural numbers.

`DeviceWatcherProofs`

* `TypeCorrect`: type correctness, on which all others rest.
* `PortsDistinctHolds`, `ImplementsPortLease`. That ports are distinct is not
  inductive: the next port could be one already stored. `PortsInv` adds that every
  stored port is below the counter and not below `FirstPort`; `StoreSteps` says that
  only an iteration of the comparison touches the store. Each such step is then a
  `Grant` of `PortLease` or a stutter, also when the write fails.
* `AnnouncedMatchesRegistryHolds`, `NoRepeatedAnnouncementHolds`. `RegistryInv` adds
  that the devices still to visit are among those that differ. `IosInv` is needed
  too: an iOS device whose status changed would not be announced, and none ever
  changes because `"ready"` is nowhere stored. `IosNeverReadyHolds` follows from the same.
* `KnownDevicesHavePortsHolds`. A device reaches the backend by a post, a list of
  `keepAlive` or a late list; `KnownInv` follows it back to the registry and, in the
  middle of a comparison, to the map under construction, less the devices the
  comparison has still to visit.

`HostLifecycleProofs`

* `WaitGroupBalancedHolds`. `StartInv` adds that `Watch` and `launchTunnel` are
  started once. `WatchDevicesMoves` and `KeepAliveMoves` say what a step of a loop may
  do, so that the watcher's actions are opened once.
* `FinalSyncAfterLoopsHolds`. By the former, a counter of zero means that no loop is
  between its start and its return; `StopInv` (`stopChan` is closed before the wait)
  means that a loop started later can only return from its check.
* `CleanShutdownStaysHolds`. `CleanInv` adds that only empty lists are on their way.
* `LifeTypeCorrect`. Not inductive alone: that the counter is not negative
  follows from `WaitGroupBalanced`.
* `WatcherHoldsInEveryLife`, `NoRepeatedAnnouncementInAnyLife`. `LifeSteps`: a step of the
  life cycle is a step of `DeviceWatcher`, one `Beside` it (it touches neither registry,
  ports nor announcements, and only adds or ends posts), or a `Restart`. The watcher's
  invariants (`WatcherInv`) are kept by all three, so that nothing proved of one life
  is lost by starting late, stopping or starting over.
* `LeaseInEveryLife`. `PortLease` is kept except by restarts, which is the reason why
  a device may come back on another port than an Appium server of an earlier life holds.
* `PresentDevicesHavePortsHolds`. `PresentInv` is about what is in the registry, or in the
  map under construction and already compared, or in `keepAlive`'s list; what was announced
  is one of the first two by `AnnouncedMatchesRegistry`. Unlike `KnownDevicesHavePorts` it
  says nothing of posts on their way, which may be an earlier life's.

`AuthCacheProofs`, with `IInv` in the parts of the argument:

* `NoEntryOutlivesSweepHolds`. `SweepInv` adds that what `Range` need not visit any
  more was stored in the running round, `CronInv` that rounds end in order.
* `ValidHasHostsOrgHolds`. `AnswerInv` adds that the answer a handler carries was given
  of its token.
* `BasicNeverFound`. `AddressInv`: no two handlers, and no handler and entry, share an
  allocation. This is the general form of what the run `auth_basic` shows.
* `AuthTypeCorrect`.

`AppiumSessionsProofs`

* `RoutesCorrect`. That a stored route is the owner's port needs that a handler carries
  the port of its own device from `Launch` to `StoreRoute` and that whoever holds its
  session is on that port (`OpenInv`), and that leases are distinct (`DeviceInv`).
* `HoldersCorrect`. A port leads to a server of the right device because, among the
  servers this run launched, the port a server was given is the lease of the device it
  was launched for (`ProcessInv`), and two processes never listen on one port.
* `StopReachesCorrect`, for a `DELETE` that names any device. An entry of `AppiumServers` is a server launched for its device in
  this run (`DeviceInv`), so its port is that device's; `lsof` is asked for the device's port.
* `StopEndsCorrect`. Along the steps of `stopAppium`, what listened at the start is dead
  already, or still the one that listens on the port; it may only be passed over when
  this process is the one killed (`StopInv`).
* `TypeCorrect`.

`SessionHostProofs`, on top of these

* `HostImplementsLife`. Handlers leave the life cycle alone, but for the `kill -9` of the
  own process, which is a crash; every theorem of `HostLifecycleProofs` holds of the host.
* `HostImplementsSessions`. A step of the watcher that touches the store is
  `LeasePort`, because the next port is a free one (`PortsInv`, by the watcher's theorems
  in every life); the end of the process is `Ends`, and a restart is `Restart`, since a process
  that runs has not been killed (`KilledInv`).
* `SessionsCorrectOnHost`, `StopCorrectOnHost`. By the refinement the theorems of
  `AppiumSessionsProofs`, instantiated, hold of the whole binary: what they assumed of
  ports and restarts is now proved of the watcher and the life cycle.
* `AnnouncedGetServerWithPortHolds`: `Launch` reads the store in the state in which
  `PresentDevicesHavePorts` holds.

`ProvisionProofs`

* `StartRepairsCorrect`. Going through `prepare` without a failure: each tool behind the
  loop's index is there, only the one being fetched may be broken now and not have been
  so at the start, what is fetched is whole, and the commands so far have installed
  their parts (`MainInv`).
* `BrokenCorrect`. Only `Unzip` makes the content of an archive partial; all else writes
  to the archive's own path. Both workers are needed: their paths are disjoint
  (`ProvisionAssumption`).
* `TypeCorrect` (of `Provision` alone; the run checks it as part of `AppTypeOK`).

`AppOperationsProofs`, on top of the former (every step of `AppOperations` is a step of
`Provision` or leaves its variables alone, but for the fault counter)

* `ProvisionedForApps`: the two results above hold beside the handlers.
* `InstallsCorrect`, `InstallFailsCorrect`. A handler in the middle of a copy that no one has
  crossed finds its file filled with its own chunks up to its offset and empty behind
  it, because `os.Create` emptied it; at the command the file is exactly the app asked for
  (`InstallOk`). Handlers work only after `prepare` (`ServerInv`).
* `ValidationCorrect`. No two processes of a device have one number at the same time
  (`PidInv`). A number that was looked up is that of the app asked for until that app's
  process ends, and another app that has it later got it since (`NumberOk`): both have
  stirred. Numbers may be used again at once.
* `AppTypeCorrect`.

`TunnelProofs`

* `StopEndsTunnel`. A listener that has posted or killed is past main's launch
  (`LifeInv`), and main returns only after it.
* `IdsCorrect`. An id in use was the answer of a tunnel that served; a tunnel of an
  earlier life that is still alive was orphaned by that life's end, since a graceful
  exit has killed its own (`LifeInv`), and every place an id may be at is covered (`IdsInv`).
* `ZeroCorrect`. A goroutine at `cached` whose `tunnelInfo` has no id has been raced, or
  got the zero itself (`ZeroInv`).
* `ImplementsIdCache`. `MoveOfOne` says what the move of one goroutine does to the mapped
  calls. A call that fails, or that empties `tunnelInfo`, has missed, so nothing was
  settled (`MissedMeansUnsettled`); a call that returns formats what was settled, if
  anything was. `StartedInv` is needed for the one step of main that starts two
  goroutines.
* `TypeCorrect`.

## 5. Only model-checked

Liveness (`BackendConverges`, `StopEndsLoops`, `ShutdownCompletes`,
`RestartConverges`, `WatcherLearnsId`, `ImagesArrive`) rests on fairness and stays with
TLC. The violation runs are counterexamples and have no theorem, except that
`BasicNeverFound` gives the general form of one. Every invariant and every action
property of the passing runs is also a theorem.

## 6. Not modelled

Device names and versions, log files, videos and test-info files, CORS headers:
nothing the properties speak of depends on them. `installRunner` and the
`launchApp` goroutine run one command whose result is only logged.
`ForwardLocalPortToProxy`, `GetPidByBundleId`, `IsPortAvailable`, `Delete`, `Close` and the
`instrument` package have no caller. The account service, the backend, adb, go-ios,
Appium and `lsof` are modelled from how the code uses them.

Data races on a map pointer are modelled by either value. The two that could yield
more, `tunnelInfo` and `TunnelID`, are `Tunnel`'s; what lengths a torn string mixes is
abstracted to whether its parts differ in length. `DeviceWatcher` and `HostLifecycle`
take `GetTunnelId` as one step, which `ImplementsIdCache` justifies. That `StartServer` finds its port taken is one of the
reasons for a signal, which may come at any time.

Left out of provisioning: a home directory that is missing and directories that cannot
be created (the process sends itself a SIGINT and goes on). `adb install` and
`go-ios install` read the file in one step. Left out of the validation proxy: headers.
`configureProxy` replaces the request's header by an empty one and then copies the
empty one onto itself, so nothing of the original reaches the app; no comment relies
on it. The path patterns of the router and of `regexSessionID` are reduced to the shapes
the handlers tell apart.

`remote/server` is commented out as a whole. `common/models.go` and `services/global.go`
are declarations and a handler that answers a constant. `instrument/ios.go` has no
caller, and without one there is no order of its calls to check.

## 7. Plan

Done: all components above that keep state, the composition of watcher, life cycle and
sessions over one store, and the proofs of all their safety properties. What could be added:

1. The middleware before the session and app handlers, so that a request's credential
   and its effects are in one behaviour.
2. `instrument/ios.go`, once the code calls it.
