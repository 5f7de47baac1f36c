---------------------------- MODULE HostLifecycle ----------------------------
(***************************************************************************)
(* The life of the binary (main.go) around the device watcher: main starts *)
(* the services, tells the backend that the host has no devices, starts    *)
(* the watcher and the HTTP server; shutdownListener waits for a signal,   *)
(* closes stopChan, waits for the goroutines counted in common.WG and      *)
(* tells the backend once more.  The process may also crash, in particular *)
(* by the nil connection GetOutboundIP goes on to use when the host is off *)
(* line, and be started again.                                             *)
(***************************************************************************)
EXTENDS DeviceWatcher

CONSTANT MaxCrashes     \* bound: crashes followed by a restart

ASSUME LifecycleAssumption == MaxCrashes \in Nat

VARIABLES
    proc,         \* "up", "down" (crashed) or "exited" (main returned)
    crashes,      \* how much of MaxCrashes is used
    mainPc,       \* main, from initializeServices on
    listenerPc,   \* shutdownListener
    signal,       \* a termination signal is in sigChan
    wg,           \* the counter of common.WG
    watchGo,      \* the goroutine that runs Watch
    tunnelGo,     \* the goroutine that runs launchTunnel
    srv,          \* "nil", "serving" or "closed"
    retries,      \* retries left in SyncBinaryHost, per caller
    cleared       \* history: "no"; shutdown's list was applied with stragglers
                  \* still in flight ("stragglers") or with none ("clean")

mainVars == <<mainPc, srv>>
goVars   == <<wg, watchGo, tunnelGo>>
lifeVars == <<proc, crashes, mainVars, listenerPc, signal, goVars, retries, cleared>>
allVars  == <<vars, lifeVars>>

Callers == {"main", "listener"}

\* Mutant of FreshProcess: byod.db is opened as the last run left it.
FreshProcessKeepsStore ==
    /\ watchPc' = "idle" /\ newDevices' = Empty /\ todo' = {} /\ oldDevices' = Empty
    /\ tunnelInfo' = FALSE /\ tunnelID' = FALSE /\ stopChan' = "open"
    /\ UNCHANGED ports /\ baseAppiumPort' = FirstPort
    /\ keepPc' = "idle" /\ kaList' = Empty
    /\ announced' = [d \in Device |-> "disconnected"]
    /\ mainPc' = "init" /\ listenerPc' = "wait" /\ signal' = FALSE
    /\ wg' = 0 /\ watchGo' = "none" /\ tunnelGo' = "none" /\ srv' = "nil"
    /\ retries' = [c \in Callers |-> 1]
    /\ cleared' = "no"

\* What a fresh process starts with; byod.db is removed and made anew.
FreshProcess ==
    /\ watchPc' = "idle" /\ newDevices' = Empty /\ todo' = {} /\ oldDevices' = Empty
    /\ tunnelInfo' = FALSE /\ tunnelID' = FALSE /\ stopChan' = "open"
    /\ ports' = [d \in Device |-> 0] /\ baseAppiumPort' = FirstPort
    /\ keepPc' = "idle" /\ kaList' = Empty
    /\ announced' = [d \in Device |-> "disconnected"]
    /\ mainPc' = "init" /\ listenerPc' = "wait" /\ signal' = FALSE
    /\ wg' = 0 /\ watchGo' = "none" /\ tunnelGo' = "none" /\ srv' = "nil"
    /\ retries' = [c \in Callers |-> 1]
    /\ cleared' = "no"

LifeInit ==
    /\ Init
    /\ proc = "up" /\ crashes = 0
    /\ mainPc = "init" /\ listenerPc = "wait" /\ signal = FALSE
    /\ wg = 0 /\ watchGo = "none" /\ tunnelGo = "none" /\ srv = "nil"
    /\ retries = [c \in Callers |-> 1]
    /\ cleared = "no"

-----------------------------------------------------------------------------
(* SyncBinaryHost: a list without devices.  Without a tunnel id it tries   *)
(* once more after a second, then posts with the empty id.                 *)

SyncRetry(c) ==
    /\ GetTunnelId(FALSE) /\ Fault
    /\ retries[c] > 0
    /\ retries' = [retries EXCEPT ![c] = @ - 1]
    /\ UNCHANGED <<late, view>>

\* Both outcomes of the id end in the post, whose error is only logged.
SyncPost(c) ==
    /\ \/ GetTunnelId(TRUE) /\ UNCHANGED faults
       \/ GetTunnelId(FALSE) /\ Fault /\ retries[c] = 0
    /\ view' = ListView(Empty)
    /\ UNCHANGED <<retries, late>>

SyncPostFails(c) ==
    /\ \/ GetTunnelId(TRUE)
       \/ GetTunnelId(FALSE) /\ retries[c] = 0
    /\ Fault
    /\ \/ UNCHANGED late
       \/ late = {} /\ late' = {Empty}
    /\ UNCHANGED <<retries, view>>

-----------------------------------------------------------------------------
(* main.                                                                   *)

InitializeServices ==
    /\ proc = "up" /\ mainPc = "init"
    /\ mainPc' = "sync"
    /\ UNCHANGED <<vars, proc, crashes, srv, listenerPc, signal, goVars,
                   retries, cleared>>

MainSync ==
    /\ proc = "up" /\ mainPc = "sync"
    /\ \/ SyncRetry("main") /\ UNCHANGED mainPc
       \/ SyncPost("main") /\ mainPc' = "watcher"
       \/ SyncPostFails("main") /\ mainPc' = "watcher"
    /\ UNCHANGED <<envVars, stopChan, watchVars, storeVars, keepVars, flight,
                   proc, crashes, srv, listenerPc, signal, goVars, cleared>>

\* WG.Add(1), then `go deviceWatcher.Watch(stopChan)`.
StartDeviceWatcher ==
    /\ proc = "up" /\ mainPc = "watcher"
    /\ mainPc' = "server"
    /\ wg' = wg + 1
    /\ watchGo' = "tunnel"
    /\ UNCHANGED <<vars, proc, crashes, srv, listenerPc, signal, tunnelGo,
                   retries, cleared>>

StartServer ==
    /\ proc = "up" /\ mainPc = "server"
    /\ mainPc' = "wait"
    /\ srv' = "serving"
    /\ UNCHANGED <<vars, proc, crashes, listenerPc, signal, goVars, retries, cleared>>

\* mainExit is closed: main returns and every goroutine ends with it.
MainExits ==
    /\ proc = "up" /\ mainPc = "wait" /\ listenerPc = "done"
    /\ proc' = "exited"
    /\ UNCHANGED <<vars, crashes, mainVars, listenerPc, signal, goVars, retries,
                   cleared>>

Main == InitializeServices \/ MainSync \/ StartDeviceWatcher \/ StartServer \/ MainExits

-----------------------------------------------------------------------------
(* Watch and the goroutines it starts, each counted before it starts.      *)

WatchLaunchesTunnel ==
    /\ proc = "up" /\ watchGo = "tunnel"
    /\ watchGo' = "devices" /\ tunnelGo' = "running" /\ wg' = wg + 1
    /\ UNCHANGED <<vars, proc, crashes, mainVars, listenerPc, signal, retries, cleared>>

\* Mutant of WatchStartsDevices: the goroutine is not counted.
WatchStartsDevicesUncounted ==
    /\ proc = "up" /\ watchGo = "devices"
    /\ GoWatchDevices
    /\ watchGo' = "keepAlive"
    /\ UNCHANGED <<proc, crashes, mainVars, listenerPc, signal, tunnelGo, wg,
                   retries, cleared>>

WatchStartsDevices ==
    /\ proc = "up" /\ watchGo = "devices"
    /\ GoWatchDevices
    /\ watchGo' = "keepAlive" /\ wg' = wg + 1
    /\ UNCHANGED <<proc, crashes, mainVars, listenerPc, signal, tunnelGo,
                   retries, cleared>>

\* Mutant of WatchRunsKeepAlive: keepAlive's Done has no Add.
WatchRunsKeepAliveUncounted ==
    /\ proc = "up" /\ watchGo = "keepAlive"
    /\ RunKeepAlive
    /\ watchGo' = "inKeepAlive"
    /\ UNCHANGED <<proc, crashes, mainVars, listenerPc, signal, tunnelGo, wg,
                   retries, cleared>>

\* Mutant of WatchRunsKeepAlive: Watch returns without it.
WatchSkipsKeepAlive ==
    /\ proc = "up" /\ watchGo = "keepAlive"
    /\ watchGo' = "done" /\ wg' = wg - 1
    /\ UNCHANGED <<vars, proc, crashes, mainVars, listenerPc, signal, tunnelGo,
                   retries, cleared>>

WatchRunsKeepAlive ==
    /\ proc = "up" /\ watchGo = "keepAlive"
    /\ RunKeepAlive
    /\ watchGo' = "inKeepAlive" /\ wg' = wg + 1
    /\ UNCHANGED <<proc, crashes, mainVars, listenerPc, signal, tunnelGo,
                   retries, cleared>>

\* Mutant of WatchReturns: Watch calls Done once for itself and once for keepAlive.
WatchReturnsTwice ==
    /\ proc = "up" /\ watchGo = "inKeepAlive" /\ keepPc = "done"
    /\ watchGo' = "done" /\ wg' = wg - 2
    /\ UNCHANGED <<vars, proc, crashes, mainVars, listenerPc, signal, tunnelGo,
                   retries, cleared>>

\* keepAlive has returned, so Watch does, and its deferred Done runs.
WatchReturns ==
    /\ proc = "up" /\ watchGo = "inKeepAlive" /\ keepPc = "done"
    /\ watchGo' = "done" /\ wg' = wg - 1
    /\ UNCHANGED <<vars, proc, crashes, mainVars, listenerPc, signal, tunnelGo,
                   retries, cleared>>

\* `go-ios tunnel start` has ended; nothing in the binary makes it end.
LaunchTunnelReturns ==
    /\ proc = "up" /\ tunnelGo = "running"
    /\ tunnelGo' = "done" /\ wg' = wg - 1
    /\ UNCHANGED <<vars, proc, crashes, mainVars, listenerPc, signal, watchGo,
                   retries, cleared>>

\* The two loops run as in DeviceWatcher; Done when one returns.
LifeWatchDevices ==
    /\ proc = "up" /\ WatchDevices
    /\ wg' = IF watchPc' = "done" THEN wg - 1 ELSE wg
    /\ UNCHANGED <<proc, crashes, mainVars, listenerPc, signal, watchGo,
                   tunnelGo, retries, cleared>>

\* Mutant of LifeKeepAlive: keepAlive lacks its deferred Done.
LifeKeepAliveNoDone ==
    /\ proc = "up" /\ KeepAlive
    /\ UNCHANGED <<proc, crashes, mainVars, listenerPc, signal, goVars, retries,
                   cleared>>

LifeKeepAlive ==
    /\ proc = "up" /\ KeepAlive
    /\ wg' = IF keepPc' = "done" THEN wg - 1 ELSE wg
    /\ UNCHANGED <<proc, crashes, mainVars, listenerPc, signal, watchGo,
                   tunnelGo, retries, cleared>>

Watch ==
    \/ WatchLaunchesTunnel \/ WatchStartsDevices
    \/ WatchRunsKeepAlive \/ WatchReturns

-----------------------------------------------------------------------------
(* shutdownListener.                                                       *)

\* Each step leaves main, the goroutines and the process where they are.
ListenerFrame ==
    UNCHANGED <<envVars, watchVars, storeVars, keepVars, flight, proc, crashes,
                mainPc, signal, goVars>>

ListenerCloses ==
    /\ proc = "up" /\ listenerPc = "wait" /\ signal
    /\ stopChan' = "closed"
    /\ listenerPc' = "kill"
    /\ ListenerFrame
    /\ UNCHANGED <<faults, tunnelInfo, late, view, srv, retries, cleared>>

\* KillServer: nothing to do before StartServer has set srv.
ListenerKillsServer ==
    /\ proc = "up" /\ listenerPc = "kill"
    /\ srv' = IF srv = "nil" THEN "nil" ELSE "closed"
    /\ listenerPc' = "waitGroup"
    /\ ListenerFrame
    /\ UNCHANGED <<faults, tunnelInfo, stopChan, late, view, retries, cleared>>

\* Mutant of ListenerWaits: the wait group is not waited for.
ListenerDoesNotWait ==
    /\ proc = "up" /\ listenerPc = "waitGroup"
    /\ listenerPc' = "sync"
    /\ ListenerFrame
    /\ UNCHANGED <<faults, tunnelInfo, stopChan, late, view, srv, retries, cleared>>

ListenerWaits ==
    /\ proc = "up" /\ listenerPc = "waitGroup" /\ wg = 0
    /\ listenerPc' = "sync"
    /\ ListenerFrame
    /\ UNCHANGED <<faults, tunnelInfo, stopChan, late, view, srv, retries, cleared>>

\* Whether posts of this host's devices are still in flight.
Stragglers ==
    late # {} \/ \E d \in Device, s \in Status : flight[<<d, s>>] > 0

ListenerSync ==
    /\ proc = "up" /\ listenerPc = "sync"
    /\ \/ SyncRetry("listener") /\ UNCHANGED <<listenerPc, cleared>>
       \/ /\ SyncPost("listener")
          /\ listenerPc' = "killTunnel"
          /\ cleared' = IF Stragglers THEN "stragglers" ELSE "clean"
       \/ SyncPostFails("listener") /\ listenerPc' = "killTunnel" /\ UNCHANGED cleared
    /\ ListenerFrame
    /\ UNCHANGED <<stopChan, srv>>

\* KillTunnel, then close(mainExit).
ListenerEnds ==
    /\ proc = "up" /\ listenerPc = "killTunnel"
    /\ listenerPc' = "done"
    /\ ListenerFrame
    /\ UNCHANGED <<faults, tunnelInfo, stopChan, late, view, srv, retries, cleared>>

Listener ==
    \/ ListenerCloses \/ ListenerKillsServer \/ ListenerWaits
    \/ ListenerSync \/ ListenerEnds

-----------------------------------------------------------------------------
(* The outside world.                                                      *)

\* SIGINT or SIGTERM, from a user or by the process itself (the server's port
\* is taken, a directory cannot be made).
Signal ==
    /\ proc = "up" /\ ~signal
    /\ signal' = TRUE
    /\ UNCHANGED <<vars, proc, crashes, mainVars, listenerPc, goVars, retries, cleared>>

\* Lists a goroutine is posting at this moment.
Posting ==
    (IF keepPc = "post" THEN {kaList} ELSE {})
        \cup (IF mainPc = "sync" \/ listenerPc = "sync" THEN {Empty} ELSE {})

\* The process dies at once; a list it was posting may still arrive.
Crash ==
    /\ proc = "up" /\ crashes < MaxCrashes
    /\ proc' = "down"
    /\ crashes' = crashes + 1
    /\ \/ UNCHANGED late
       \/ late = {} /\ \E l \in Posting : late' = {l}
    /\ UNCHANGED <<envVars, faults, tunnelInfo, stopChan, watchVars, storeVars,
                   keepVars, flight, view, mainVars, listenerPc, signal, goVars,
                   retries, cleared>>

Restart ==
    /\ proc = "down"
    /\ proc' = "up"
    /\ FreshProcess
    /\ UNCHANGED <<envVars, faults, wireVars, crashes>>

\* A sync goroutine dies with its process before its request left.
SyncDies(d, s) ==
    /\ proc # "up" /\ flight[<<d, s>>] > 0
    /\ flight' = [flight EXCEPT ![<<d, s>>] = @ - 1]
    /\ UNCHANGED <<envVars, faults, tunnelInfo, stopChan, watchVars, storeVars,
                   keepVars, late, view, lifeVars>>

LifeEnvironment ==
    \/ Environment /\ UNCHANGED lifeVars
    \/ \E d \in Device, s \in Status : SyncDies(d, s)
    \/ Signal
    \/ Crash
    \/ Restart

\* The process is gone for good.
Gone == proc = "exited" /\ UNCHANGED allVars

LifeNext ==
    \/ Main \/ Watch \/ LaunchTunnelReturns
    \/ LifeWatchDevices \/ LifeKeepAlive
    \/ Listener
    \/ LifeEnvironment
    \/ Gone

LifeSpec == LifeInit /\ [][LifeNext]_allVars

\* Goroutines that can run do run; the calls they make return, except that
\* nothing is assumed of `go-ios tunnel start`.  A crashed binary is restarted.
LifeFairness ==
    /\ WF_allVars(Main) /\ WF_allVars(Watch) /\ WF_allVars(Listener)
    /\ WF_allVars(LifeWatchDevices) /\ WF_allVars(LifeKeepAlive)
    /\ WF_allVars(Restart)
    /\ \A d \in Device, s \in Status :
          WF_allVars(ApplySync(d, s) /\ UNCHANGED lifeVars)
    /\ WF_allVars((\E l \in late : ApplyLate(l)) /\ UNCHANGED lifeVars)

LifeFairSpec == LifeSpec /\ LifeFairness

\* The same, when the go-ios child ends too: a terminal's Ctrl-C reaches the
\* whole process group, or go-ios fails to start.
ChildEndsSpec == LifeFairSpec /\ WF_allVars(LaunchTunnelReturns)

-----------------------------------------------------------------------------
(* Properties.                                                             *)

\* Every variable of the life cycle ranges over the values the code gives it.
LifeTypeOK ==
    /\ TypeOK
    /\ proc \in {"up", "down", "exited"} /\ crashes \in 0..MaxCrashes
    /\ mainPc \in {"init", "sync", "watcher", "server", "wait"}
    /\ listenerPc \in {"wait", "kill", "waitGroup", "sync", "killTunnel", "done"}
    /\ signal \in BOOLEAN
    /\ wg \in Nat
    /\ watchGo \in {"none", "tunnel", "devices", "keepAlive", "inKeepAlive", "done"}
    /\ tunnelGo \in {"none", "running", "done"}
    /\ srv \in {"nil", "serving", "closed"}
    /\ retries \in [Callers -> 0..1]
    /\ cleared \in {"no", "stragglers", "clean"}

One(b) == IF b THEN 1 ELSE 0

\* The wait group counts exactly the goroutines that owe it a Done: it never
\* goes negative (a panic) and Wait returns neither early nor never.
WaitGroupBalanced ==
    wg =  One(watchGo \notin {"none", "done"})
        + One(tunnelGo = "running")
        + One(watchPc \notin {"idle", "done"})
        + One(keepPc \notin {"idle", "done"})

\* When shutdown posts its final list neither loop is in the middle of a round,
\* so no device is posted by a round that began before: also when the signal
\* came while main was still starting and the watcher is started afterwards.
FinalSyncAfterLoops ==
    listenerPc \in {"sync", "killTunnel", "done"} =>
        watchPc \in {"idle", "check", "done"} /\ keepPc \in {"idle", "check", "done"}

\* Once shutdown's list was applied with no earlier post in flight, the backend
\* lists no device of this host until the binary is started again.
CleanShutdownStays ==
    cleared = "clean" => view = ListView(Empty)

\* A device that this run of the binary has announced as present, or is about to
\* list, has a port in this run's store, whatever an earlier run told the backend
\* and whatever of that is still on its way (unless a write to the store failed).
\* Whether a server of an earlier run still listens on that port it does not say.
PresentDevicesHavePorts ==
    StoreMayFail \/ \A d \in Device :
        announced[d] # "disconnected" \/ kaList[d] # "absent" => ports[d] # 0

\* main.go:119: shutdown marks all devices disconnected, so when the process
\* has exited and its last post was applied the backend lists none.
ShutdownLeavesHostClear ==
    proc = "exited" /\ cleared # "no" => view = ListView(Empty)

\* main.go:98-122: a termination signal leads to a graceful shutdown, at whose
\* end main returns.
ShutdownCompletes == signal ~> proc \in {"exited", "down"}

\* However often the binary crashed, when it has been restarted and things
\* settle the backend's record becomes what is plugged in, unless it stops.
RestartConverges ==
    <>[](signal \/ view = [d \in Device |-> Report(Stored(d, hw[d]))])
=============================================================================
